-------------------------- MODULE MdnsQueryProofs --------------------------
(***************************************************************************)
(* Every queued end of a search ends the search it was meant for, and a    *)
(* search finds all that answer although one answer is lost, for every     *)
(* length of the queue and every number of responders, results, addresses  *)
(* and queries.                                                            *)
(***************************************************************************)
EXTENDS MdnsQuery, SequenceTheorems, FiniteSetTheorems, TLAPS

\* Every entry of a type was there before, n places further back.
Moved(n, type) ==
    \A i \in Queued(type)' : i + n \in Queued(type) /\ queue'[i] = queue[i + n]

LEMMA Places ==
    ASSUME TypeOK
    PROVE  /\ Len(queue) \in Nat /\ DOMAIN queue = 1 .. Len(queue)
           /\ \A i \in DOMAIN queue : queue[i] \in Action
BY LenProperties, ElementOfSeq DEF TypeOK

\* The same queue, and a queue without its head.
LEMMA SameQueue ==
    ASSUME TypeOK, queue' = queue, NEW type
    PROVE  Moved(0, type)
BY Places DEF Moved, Queued

LEMMA TakenQueue ==
    ASSUME TypeOK, queue # <<>>, Taken
    PROVE  /\ Head(queue) \in Action /\ Head(queue) = queue[1] /\ 1 \in DOMAIN queue
           /\ queue' \in Seq(Action) /\ backlog' \in Nat
           /\ \A type : Moved(1, type)
<1>1. queue \in Seq(Action) /\ backlog \in Nat
  BY DEF TypeOK
<1>2. /\ Head(queue) \in Action /\ queue' \in Seq(Action) /\ Len(queue') = Len(queue) - 1
      /\ \A i \in 1 .. Len(queue') : queue'[i] = queue[i + 1]
  BY <1>1, HeadTailProperties DEF Taken
<1>3. DOMAIN queue' = 1 .. Len(queue') /\ Len(queue') \in Nat
  BY <1>2, LenProperties
<1>4. \A i \in DOMAIN queue' : i + 1 \in DOMAIN queue /\ queue'[i] = queue[i + 1]
  BY <1>2, <1>3, Places
<1>5. \A type : Moved(1, type)
  BY <1>4 DEF Moved, Queued
<1>6. Head(queue) = queue[1] /\ 1 \in DOMAIN queue
  BY <1>2, <1>3, Places
<1>7. backlog' \in Nat
  BY <1>1 DEF Taken
<1> QED BY <1>2, <1>5, <1>6, <1>7

\* A queue with one action more.
LEMMA LongerQueue ==
    ASSUME TypeOK, NEW x \in Action, queue' = Append(queue, x)
    PROVE  /\ queue' \in Seq(Action)
           /\ Len(queue) + 1 \in DOMAIN queue' /\ queue'[Len(queue) + 1] = x
           /\ Queued(x.type)' = Queued(x.type) \cup {Len(queue) + 1}
           /\ \A type : type # x.type => Moved(0, type)
<1>1. queue \in Seq(Action)
  BY DEF TypeOK
<1>2. /\ queue' \in Seq(Action) /\ Len(queue') = Len(queue) + 1
      /\ queue'[Len(queue) + 1] = x
      /\ \A i \in 1 .. Len(queue) : queue'[i] = queue[i]
  BY <1>1, AppendProperties
<1>3. DOMAIN queue' = 1 .. Len(queue')
  BY <1>2, LenProperties
<1>4. /\ DOMAIN queue' = DOMAIN queue \cup {Len(queue) + 1}
      /\ Len(queue) + 1 \notin DOMAIN queue
      /\ \A i \in DOMAIN queue : queue'[i] = queue[i] /\ i + 0 = i
  BY <1>2, <1>3, Places
<1> QED BY <1>2, <1>4 DEF Moved, Queued

-----------------------------------------------------------------------------
(* Steps that neither add a search nor end one *)

LEMMA FrameQuery ==
    ASSUME QueryInv, TypeOK', NEW n \in {0, 1}, Moved(n, "add"), Moved(n, "end"),
           caller' = caller, chain' = chain,
           caller \in Addresses =>
               /\ search'[caller].done = search[caller].done
               /\ ~Full(search[caller]) => ~Full(search'[caller])
               /\ search[caller].state = "OFF" => search'[caller].state = "OFF"
    PROVE  QueryInv'
<1>0. /\ chain \subseteq Addresses /\ chain \subseteq {caller}
      /\ Queued("add") \subseteq Nat /\ Queued("end") \subseteq Nat
      /\ Queued("add")' \subseteq Nat /\ Queued("end")' \subseteq Nat
  <2>1. DOMAIN queue \subseteq Nat
    BY Places DEF QueryInv
  <2>2. DOMAIN queue' \subseteq Nat
    BY LenProperties DEF TypeOK
  <2> QED BY <2>1, <2>2 DEF QueryInv, ChainInv, TypeOK, Queued
<1>1. ChainInv'
  BY <1>0 DEF QueryInv, ChainInv, Full
<1>2. AddInv'
  <2> SUFFICES ASSUME NEW i \in Queued("add")'
               PROVE  /\ queue'[i].search = caller /\ caller \in Addresses /\ chain = {}
                      /\ ~search'[caller].done /\ ~Full(search'[caller])
                      /\ Queued("add")' = {i}
    BY DEF AddInv, Full
  <2>1. i + n \in Queued("add") /\ queue'[i] = queue[i + n]
    BY DEF Moved
  <2>2. /\ queue[i + n].search = caller /\ caller \in Addresses /\ chain = {}
        /\ ~search[caller].done /\ ~Full(search[caller])
        /\ Queued("add") = {i + n}
    BY <2>1 DEF QueryInv, AddInv
  <2>3. \A j \in Queued("add")' : j = i
    BY <1>0, <2>2 DEF Moved
  <2> QED BY <2>1, <2>2, <2>3
<1>3. EndInv'
  <2> SUFFICES ASSUME NEW i \in Queued("end")'
               PROVE  /\ queue'[i].search = caller /\ chain = {caller}
                      /\ search'[caller].state = "OFF"
                      /\ Queued("end")' = {i}
    BY DEF EndInv
  <2>1. i + n \in Queued("end") /\ queue'[i] = queue[i + n]
    BY DEF Moved
  <2>2. /\ queue[i + n].search = caller /\ chain = {caller}
        /\ search[caller].state = "OFF" /\ Queued("end") = {i + n}
    BY <2>1 DEF QueryInv, EndInv
  <2>3. \A j \in Queued("end")' : j = i
    BY <1>0, <2>2 DEF Moved
  <2> QED BY <1>0, <2>1, <2>2, <2>3
<1> QED BY <1>1, <1>2, <1>3 DEF QueryInv

LEMMA InitQuery == Init => QueryInv
<1> SUFFICES ASSUME Init PROVE QueryInv
  OBVIOUS
<1>1. Free \in SearchRecord
  BY DEF Free, SearchRecord
<1>2. TypeOK
  BY <1>1 DEF Init, TypeOK
<1>3. \A type : Queued(type) = {}
  BY DEF Init, Queued
<1> QED BY <1>2, <1>3 DEF Init, QueryInv, ChainInv, AddInv, EndInv

\* Datagrams come in.
LEMMA ComeInQuery ==
    ASSUME QueryInv, Noise \/ \E r \in Responders : Answer(r)
    PROVE  QueryInv'
<1>1. /\ UNCHANGED <<present, caller, search, chain, backlog>>
      /\ under_way' \in SUBSET Responders
  BY DEF Noise, Answer, QueryInv, TypeOK
<1>2. \/ queue' = queue
      \/ \E x \in Action : x.type \in {"answer", "other"} /\ queue' = Append(queue, x)
  BY DEF Noise, Answer, Action
<1>3. queue' \in Seq(Action) /\ Moved(0, "add") /\ Moved(0, "end")
  BY <1>2, SameQueue, LongerQueue DEF QueryInv, TypeOK
<1>4. TypeOK'
  BY <1>1, <1>3 DEF QueryInv, TypeOK
<1> QED BY <1>1, <1>3, <1>4, FrameQuery

\* The mdns task sends a question, or takes what concerns no search.
LEMMA OtherTaskQuery ==
    ASSUME QueryInv, SendSearch \/ ReceiveOther
    PROVE  QueryInv'
<1>1. /\ UNCHANGED <<present, caller, search, chain>> /\ Taken /\ queue # <<>>
      /\ under_way' \in SUBSET Responders
  BY DEF SendSearch, ReceiveOther, Is, Asked, QueryInv, TypeOK
<1>2. /\ queue' \in Seq(Action) /\ backlog' \in Nat
      /\ Moved(1, "add") /\ Moved(1, "end")
  BY <1>1, TakenQueue DEF QueryInv
<1>3. TypeOK'
  BY <1>1, <1>2 DEF QueryInv, TypeOK
<1> QED BY <1>1, <1>2, <1>3, FrameQuery

-----------------------------------------------------------------------------
(* The event loop *)

\* Nobody waits: nothing is queued that would add or end a search.
LEMMA NobodyWaits ==
    ASSUME QueryInv, caller = 0
    PROVE  chain = {} /\ Queued("add") = {} /\ Queued("end") = {}
<1>1. 0 \notin Addresses /\ chain \subseteq Addresses
  BY MdnsQueryAssumption DEF QueryInv, TypeOK
<1> QED BY <1>1 DEF QueryInv, ChainInv, AddInv, EndInv

LEMMA QueryQuery ==
    ASSUME QueryInv, NEW a \in Addresses, Query(a)
    PROVE  QueryInv'
<1> DEFINE x == [type |-> "add", search |-> a]
<1>1. /\ x \in Action /\ x.type = "add" /\ x.search = a
      /\ caller = 0 /\ caller' = a /\ queue' = Append(queue, x)
      /\ UNCHANGED <<present, chain, backlog, under_way>>
  BY DEF Query, Action
<1>2. NewSearch \in SearchRecord /\ ~NewSearch.done /\ NewSearch.found = {}
  BY DEF NewSearch, Free, SearchRecord
<1>3. search' \in [Addresses -> SearchRecord] /\ search'[a] = NewSearch
  BY <1>2 DEF Query, QueryInv, TypeOK
<1>4. ~Full(search'[a])
  BY <1>2, <1>3, FS_EmptySet, MdnsQueryAssumption DEF Full
<1> HIDE DEF x
<1>5. /\ queue' \in Seq(Action)
      /\ Len(queue) + 1 \in DOMAIN queue' /\ queue'[Len(queue) + 1] = x
      /\ Queued("add")' = Queued("add") \cup {Len(queue) + 1}
      /\ Moved(0, "end")
  BY <1>1, LongerQueue DEF QueryInv
<1>6. chain' = {} /\ Queued("add")' = {Len(queue) + 1} /\ Queued("end")' = {}
  BY <1>1, <1>5, NobodyWaits DEF Moved
<1>7. TypeOK'
  BY <1>1, <1>3, <1>5 DEF QueryInv, TypeOK
<1>8. ChainInv' /\ EndInv'
  BY <1>6 DEF ChainInv, EndInv
<1>9. AddInv'
  BY <1>1, <1>2, <1>3, <1>4, <1>5, <1>6 DEF AddInv, Full
<1> QED BY <1>7, <1>8, <1>9 DEF QueryInv

LEMMA ReturnQuery ==
    ASSUME QueryInv, Return
    PROVE  QueryInv'
<1>1. /\ caller \in Addresses /\ search[caller].done /\ caller' = 0
      /\ UNCHANGED <<present, chain, queue, backlog, under_way>>
      /\ search' = [search EXCEPT ![caller] = Free]
  BY DEF Return, QueryInv, TypeOK
<1>2. chain = {} /\ Queued("add") = {} /\ Queued("end") = {}
  BY <1>1 DEF QueryInv, ChainInv, AddInv, EndInv
<1>3. Free \in SearchRecord
  BY DEF Free, SearchRecord
<1>4. TypeOK'
  BY <1>1, <1>3 DEF QueryInv, TypeOK
<1>5. Queued("add")' = {} /\ Queued("end")' = {}
  BY <1>1, <1>2 DEF Queued
<1> QED BY <1>1, <1>2, <1>4, <1>5 DEF QueryInv, ChainInv, AddInv, EndInv

-----------------------------------------------------------------------------
(* The timer *)

LEMMA AgedSearch ==
    ASSUME NEW s \in SearchRecord
    PROVE  /\ Aged(s) \in SearchRecord
           /\ Aged(s).state = s.state /\ Aged(s).done = s.done /\ Aged(s).found = s.found
<1>1. Later(s.age, Timeout) \in Nat /\ Later(s.since, Resend) \in Nat
  BY DEF Later, SearchRecord
<1> QED BY <1>1 DEF Aged, SearchRecord

\* What the timer makes of a search: only one that is not off ends, and with
\* room for its end it is off afterwards.
LEMMA TimedSearch ==
    ASSUME NEW s \in SearchRecord
    PROVE  /\ Timed(s).s \in SearchRecord
           /\ Timed(s).s.done = s.done /\ Timed(s).s.found = s.found
           /\ s.state = "OFF" => Timed(s).s.state = "OFF" /\ Timed(s).wants = "nothing"
           /\ Timed(s).wants \in {"nothing", "send", "end"}
           /\ Timed(s).wants = "end" /\ HasRoom => Timed(s).s.state = "OFF"
<1>1. Resend \in Nat
  BY MdnsQueryAssumption
<1>2. CASE s.state = "OFF"
  BY <1>2 DEF Timed
<1>3. CASE s.state # "OFF" /\ s.age > Timeout
  <2> DEFINE new == IF HasRoom THEN "OFF" ELSE "RUNNING"
  <2>1. Timed(s) = [s |-> [s EXCEPT !.state = new], wants |-> "end"]
    BY <1>3 DEF Timed
  <2>2. new \in {"OFF", "RUNNING"} /\ (HasRoom => new = "OFF")
    OBVIOUS
  <2> HIDE DEF new
  <2> QED BY <1>3, <2>1, <2>2 DEF SearchRecord
<1>4. CASE s.state # "OFF" /\ ~(s.age > Timeout) /\ (s.state = "INIT" \/ s.since > Resend)
  <2> DEFINE new == IF HasRoom THEN 0 ELSE Resend
  <2>1. Timed(s) = [s |-> [s EXCEPT !.state = "RUNNING", !.since = new], wants |-> "send"]
    BY <1>4 DEF Timed
  <2>2. new \in Nat
    BY <1>1
  <2> DEFINE timed == [s EXCEPT !.state = "RUNNING", !.since = new]
  <2> HIDE DEF new
  <2>3. timed \in SearchRecord /\ timed.done = s.done /\ timed.found = s.found
    BY <2>2 DEF SearchRecord
  <2> HIDE DEF timed
  <2>4. Timed(s).s = timed /\ Timed(s).wants = "send"
    BY <2>1 DEF timed
  <2> QED BY <1>4, <2>3, <2>4
<1>5. CASE s.state # "OFF" /\ ~(s.age > Timeout) /\ ~(s.state = "INIT" \/ s.since > Resend)
  BY <1>5 DEF Timed
<1> QED BY <1>2, <1>3, <1>4, <1>5

LEMMA TickQuery ==
    ASSUME QueryInv, Tick
    PROVE  QueryInv'
<1> DEFINE s == search[caller]
           aged == Aged(s)
           timed == Timed(aged)
<1>1. /\ caller \in Addresses /\ s \in SearchRecord
      /\ UNCHANGED <<present, caller, chain, under_way>>
  BY DEF Tick, QueryInv, TypeOK
<1>2. /\ aged \in SearchRecord
      /\ aged.state = s.state /\ aged.done = s.done /\ aged.found = s.found
  BY <1>1, AgedSearch
<1>3. /\ timed.s \in SearchRecord /\ timed.s.done = s.done /\ timed.s.found = s.found
      /\ s.state = "OFF" => timed.s.state = "OFF" /\ timed.wants = "nothing"
      /\ timed.wants \in {"nothing", "send", "end"}
      /\ timed.wants = "end" /\ HasRoom => timed.s.state = "OFF"
  <2> HIDE DEF aged
  <2> QED BY <1>2, TimedSearch
<1>4. backlog' = Len(queue')
  BY DEF Tick
\* Nothing is queued, or a question.
<1>5. ASSUME NEW t \in SearchRecord, search' = [search EXCEPT ![caller] = t],
             t.done = s.done, t.found = s.found, s.state = "OFF" => t.state = "OFF",
             queue' \in Seq(Action), Moved(0, "add"), Moved(0, "end")
      PROVE  QueryInv'
  <2>1. Len(queue') \in Nat
    BY <1>5, LenProperties
  <2>2. TypeOK' /\ search'[caller] = t
    BY <1>1, <1>4, <1>5, <2>1 DEF QueryInv, TypeOK
  <2>3. Full(search'[caller]) <=> Full(s)
    BY <1>5, <2>2 DEF Full
  <2> QED BY <1>1, <1>5, <2>2, <2>3, FrameQuery
<1>6. queue \in Seq(Action) /\ TypeOK
  BY DEF QueryInv, TypeOK
<1>7. CASE caller \notin chain
  <2>1. search' = [search EXCEPT ![caller] = aged] /\ queue' = queue
    BY <1>7 DEF Tick
  <2> HIDE DEF aged, s
  <2> QED BY <1>2, <1>5, <1>6, <2>1, SameQueue
<1>8. CASE caller \in chain /\ ~(timed.wants # "nothing" /\ HasRoom)
  <2>1. search' = [search EXCEPT ![caller] = timed.s] /\ queue' = queue
    BY <1>8 DEF Tick
  <2> HIDE DEF timed, s
  <2> QED BY <1>3, <1>5, <1>6, <2>1, SameQueue
<1>9. CASE caller \in chain /\ timed.wants = "send" /\ HasRoom
  <2> DEFINE x == [type |-> "send", search |-> caller]
  <2>1. x \in Action /\ x.type = "send"
    BY <1>1 DEF Action
  <2>2. search' = [search EXCEPT ![caller] = timed.s] /\ queue' = Append(queue, x)
    BY <1>9 DEF Tick
  <2> HIDE DEF timed, s, x
  <2>3. queue' \in Seq(Action) /\ Moved(0, "add") /\ Moved(0, "end")
    BY <1>6, <2>1, <2>2, LongerQueue
  <2> QED BY <1>3, <1>5, <2>2, <2>3
\* The search is turned off, and its end is queued: it was not before.
<1>10. CASE caller \in chain /\ timed.wants = "end" /\ HasRoom
  <2> DEFINE x == [type |-> "end", search |-> caller]
  <2>1. x \in Action /\ x.type = "end" /\ x.search = caller
    BY <1>1 DEF Action
  <2>2. search' = [search EXCEPT ![caller] = timed.s] /\ queue' = Append(queue, x)
    BY <1>10 DEF Tick
  <2> HIDE DEF timed, x
  <2>3. /\ queue' \in Seq(Action) /\ Moved(0, "add")
        /\ queue'[Len(queue) + 1] = x
        /\ Queued("end")' = Queued("end") \cup {Len(queue) + 1}
    BY <1>6, <2>1, <2>2, LongerQueue
  <2>4. Queued("end") = {} /\ Queued("add") = {} /\ chain = {caller}
    <3>1. timed.wants = "end" => s.state # "OFF"
      BY <1>3
    <3> QED BY <1>10, <3>1 DEF QueryInv, ChainInv, AddInv, EndInv
  <2>5. search'[caller] = timed.s /\ search' \in [Addresses -> SearchRecord]
    <3> HIDE DEF s
    <3> QED BY <1>1, <1>3, <1>6, <2>2 DEF TypeOK
  <2>6. ~search'[caller].done /\ ~Full(search'[caller]) /\ search'[caller].state = "OFF"
    BY <1>3, <1>10, <2>5 DEF QueryInv, ChainInv, Full
  <2>7. Queued("add")' = {} /\ Queued("end")' = {Len(queue) + 1}
    BY <2>3, <2>4 DEF Moved
  <2>8. TypeOK'
    <3>1. Len(queue') \in Nat
      BY <2>3, LenProperties
    <3> QED BY <1>1, <1>4, <2>3, <2>5, <3>1 DEF QueryInv, TypeOK
  <2>9. ChainInv'
    BY <1>1, <2>4, <2>6 DEF ChainInv, Full
  <2> QED BY <1>1, <2>1, <2>3, <2>4, <2>6, <2>7, <2>8, <2>9 DEF QueryInv, AddInv, EndInv
<1> QED
  <2> HIDE DEF timed
  <2> QED BY <1>3, <1>7, <1>8, <1>9, <1>10

-----------------------------------------------------------------------------
(* The mdns task *)

LEMMA AddQuery ==
    ASSUME QueryInv, Add
    PROVE  QueryInv'
<1>1. /\ Head(queue).type = "add" /\ queue # <<>> /\ Taken
      /\ chain' = chain \cup {Head(queue).search}
      /\ UNCHANGED <<present, caller, search, under_way>>
  BY DEF Add, Is
<1>2. /\ Head(queue) = queue[1] /\ 1 \in DOMAIN queue
      /\ queue' \in Seq(Action) /\ backlog' \in Nat
      /\ Moved(1, "add") /\ Moved(1, "end")
  BY <1>1, TakenQueue DEF QueryInv
<1>3. 1 \in Queued("add")
  BY <1>1, <1>2 DEF Queued
<1>4. /\ Head(queue).search = caller /\ caller \in Addresses /\ chain = {}
      /\ ~search[caller].done /\ ~Full(search[caller])
      /\ Queued("add") = {1}
  BY <1>2, <1>3 DEF QueryInv, AddInv
<1>5. chain' = {caller} /\ Queued("end") = {}
  BY <1>1, <1>4 DEF QueryInv, EndInv
<1>6. Queued("add")' = {} /\ Queued("end")' = {}
  <2>1. DOMAIN queue' \subseteq Nat \ {0}
    BY <1>2, LenProperties
  <2>2. Queued("add")' \subseteq Nat \ {0}
    BY <2>1 DEF Queued
  <2> QED BY <1>2, <1>4, <1>5, <2>2 DEF Moved
<1>7. TypeOK'
  BY <1>1, <1>2, <1>4, <1>5 DEF QueryInv, TypeOK
<1>8. ChainInv'
  BY <1>1, <1>4, <1>5 DEF ChainInv, Full
<1> QED BY <1>6, <1>7, <1>8 DEF QueryInv, AddInv, EndInv

\* A search that ends leaves nothing behind in the queue or the chain.
LEMMA LeaveQuery ==
    ASSUME QueryInv, TypeOK', chain' = {}, caller' = caller, Moved(1, "add"),
           Queued("add") = {}, Queued("end")' = {}
    PROVE  QueryInv'
<1>1. Queued("add")' = {}
  BY DEF Moved
<1> QED BY <1>1 DEF QueryInv, ChainInv, AddInv, EndInv

LEMMA FinishedSearch ==
    ASSUME NEW s \in SearchRecord
    PROVE  Finished(s) \in SearchRecord
BY DEF Finished, SearchRecord

LEMMA EndQuery ==
    ASSUME QueryInv, EndSearch
    PROVE  QueryInv'
<1>1. /\ Head(queue).type = "end" /\ queue # <<>> /\ Taken
      /\ search' = [search EXCEPT ![Head(queue).search] = Finished(@)]
      /\ chain' = chain \ {Head(queue).search}
      /\ UNCHANGED <<present, caller, under_way>>
  BY DEF EndSearch, Is
<1>2. /\ Head(queue) = queue[1] /\ 1 \in DOMAIN queue
      /\ queue' \in Seq(Action) /\ backlog' \in Nat
      /\ Moved(1, "add") /\ Moved(1, "end")
  BY <1>1, TakenQueue DEF QueryInv
<1>3. 1 \in Queued("end")
  BY <1>1, <1>2 DEF Queued
<1>4. Head(queue).search = caller /\ chain = {caller} /\ Queued("end") = {1}
  BY <1>2, <1>3 DEF QueryInv, EndInv
<1>5. Queued("end")' = {}
  <2>1. DOMAIN queue' \subseteq Nat \ {0}
    BY <1>2, LenProperties
  <2>2. Queued("end")' \subseteq Nat \ {0}
    BY <2>1 DEF Queued
  <2> QED BY <1>2, <1>4, <2>2 DEF Moved
<1>6. chain' = {} /\ Queued("add") = {}
  BY <1>1, <1>4 DEF QueryInv, AddInv
<1>7. TypeOK'
  <2>1. caller \in Addresses /\ search[caller] \in SearchRecord
    BY <1>4 DEF QueryInv, TypeOK
  <2>2. search' \in [Addresses -> SearchRecord]
    BY <1>1, <1>4, <2>1, FinishedSearch DEF QueryInv, TypeOK
  <2> QED BY <1>1, <1>2, <1>6, <2>2 DEF QueryInv, TypeOK
<1> QED BY <1>1, <1>2, <1>5, <1>6, <1>7, LeaveQuery

\* An answer makes or completes a row.
LEMMA AnsweredSearch ==
    ASSUME NEW s \in SearchRecord, NEW r \in Responders
    PROVE  /\ OnAnswer(s, r) \in SearchRecord
           /\ OnAnswer(s, r).done = s.done /\ OnAnswer(s, r).state = s.state
<1> DEFINE Same(t) == t \in SearchRecord /\ t.done = s.done /\ t.state = s.state
<1>1. \A t \in SearchRecord : Same(t) => Same(OnSrv(t, r)) /\ Same(OnA(t, r))
  BY DEF OnSrv, OnA, SearchRecord
<1>2. Same(s)
  OBVIOUS
<1>3. Same(OnA(OnSrv(s, r), r)) /\ Same(OnSrv(OnA(s, r), r))
  BY <1>1, <1>2
<1> QED BY <1>3 DEF OnAnswer

\* A search that is off keeps its rows, so it is not full afterwards either: the
\* search an answer finishes was not off, and its end is not queued.
LEMMA AnswerQuery ==
    ASSUME QueryInv, ReceiveAnswer
    PROVE  QueryInv'
<1> DEFINE r == Head(queue).from
           got == [a \in Addresses |-> IF Collects(a) THEN OnAnswer(search[a], r)
                                                     ELSE search[a]]
           full == {a \in chain : Full(got[a])}
<1>1. /\ queue # <<>> /\ Taken /\ Head(queue).type = "answer"
      /\ UNCHANGED <<present, caller, under_way>>
      /\ search' = [a \in Addresses |-> IF a \in full THEN Finished(got[a]) ELSE got[a]]
      /\ chain' = chain \ full
  BY DEF ReceiveAnswer, Is
<1>2. /\ Head(queue) \in Action
      /\ queue' \in Seq(Action) /\ backlog' \in Nat
      /\ Moved(1, "add") /\ Moved(1, "end")
  BY <1>1, TakenQueue DEF QueryInv
<1>3. r \in Responders
  BY <1>1, <1>2 DEF Action
<1>4. ASSUME NEW a \in Addresses
      PROVE  /\ got[a] \in SearchRecord
             /\ got[a].done = search[a].done /\ got[a].state = search[a].state
             /\ ~Collects(a) => got[a] = search[a]
  <2>1. search[a] \in SearchRecord
    BY DEF QueryInv, TypeOK
  <2>2. /\ OnAnswer(search[a], r) \in SearchRecord
        /\ OnAnswer(search[a], r).done = search[a].done
        /\ OnAnswer(search[a], r).state = search[a].state
    <3> HIDE DEF r
    <3> QED BY <1>3, <2>1, AnsweredSearch
  <2>3. got[a] = IF Collects(a) THEN OnAnswer(search[a], r) ELSE search[a]
    OBVIOUS
  <2> HIDE DEF got
  <2> QED BY <2>1, <2>2, <2>3
<1> HIDE DEF got
<1>5. search' \in [Addresses -> SearchRecord]
  BY <1>1, <1>4, FinishedSearch
<1>6. TypeOK'
  BY <1>1, <1>2, <1>5 DEF QueryInv, TypeOK
<1>7. \A a \in chain : a = caller /\ a \in Addresses /\ ~Full(search[a])
  BY DEF QueryInv, ChainInv, TypeOK
<1>8. CASE full = {}
  <2>1. chain' = chain
    BY <1>1, <1>8
  <2>2. ASSUME caller \in Addresses, ~Full(search[caller]) PROVE ~Full(got[caller])
    <3>1. CASE caller \in chain
      BY <1>8, <3>1
    <3>2. CASE caller \notin chain
      BY <1>4, <2>2, <3>2 DEF Collects
    <3> QED BY <3>1, <3>2
  <2>3. caller \in Addresses => search'[caller] = got[caller]
    BY <1>1, <1>8
  <2> QED BY <1>1, <1>2, <1>4, <1>6, <2>1, <2>2, <2>3, FrameQuery
<1>9. CASE full # {}
  <2>1. chain = {caller} /\ chain' = {} /\ Full(got[caller]) /\ caller \in Addresses
    BY <1>1, <1>7, <1>9
  <2>2. search[caller].state # "OFF"
    BY <1>4, <1>7, <2>1 DEF Collects
  <2>3. Queued("add") = {} /\ Queued("end") = {}
    BY <2>1, <2>2 DEF QueryInv, AddInv, EndInv
  <2>4. Queued("end")' = {}
    BY <1>2, <2>3 DEF Moved
  <2> QED BY <1>1, <1>2, <1>6, <2>1, <2>3, <2>4, LeaveQuery
<1> QED BY <1>8, <1>9

-----------------------------------------------------------------------------
LEMMA NextQuery == QueryInv /\ [Next]_vars => QueryInv'
<1> SUFFICES ASSUME QueryInv, [Next]_vars PROVE QueryInv'
  OBVIOUS
<1>1. CASE \E a \in Addresses : Query(a)
  BY <1>1, QueryQuery
<1>2. CASE Return
  BY <1>2, ReturnQuery
<1>3. CASE Tick
  BY <1>3, TickQuery
<1>4. CASE Task
  BY <1>4, AddQuery, OtherTaskQuery, EndQuery, AnswerQuery DEF Task
<1>5. CASE Noise \/ \E r \in Responders : Answer(r)
  BY <1>5, ComeInQuery
<1>6. CASE UNCHANGED vars
  BY <1>6 DEF vars, QueryInv, TypeOK, SearchRecord, Action, ChainInv, AddInv, EndInv,
              Queued, Full
<1> QED BY <1>1, <1>2, <1>3, <1>4, <1>5, <1>6 DEF Next

LEMMA QueryInvSuffices == QueryInv => EndsItsSearch
<1> SUFFICES ASSUME QueryInv, NEW i \in DOMAIN queue, queue[i].type = "end"
             PROVE  /\ queue[i].search = caller /\ caller \in chain
                    /\ search[caller].state = "OFF" /\ ~search[caller].done
                    /\ \A j \in DOMAIN queue : queue[j] = queue[i] => j = i
  BY DEF EndsItsSearch
<1>1. i \in Queued("end")
  BY DEF Queued
<1>2. /\ queue[i].search = caller /\ chain = {caller}
      /\ search[caller].state = "OFF" /\ Queued("end") = {i}
  BY <1>1 DEF QueryInv, EndInv
<1>3. ~search[caller].done
  BY <1>2 DEF QueryInv, ChainInv
<1>4. \A j \in DOMAIN queue : queue[j] = queue[i] => j \in Queued("end")
  BY DEF Queued
<1> QED BY <1>2, <1>3, <1>4

(* The action that ends a search is queued once, and when the mdns task    *)
(* takes it that search is still in the chain, allocated and waiting:      *)
(* _mdns_search_finish, which looks nothing up (mdns.c:5187), never        *)
(* writes to a freed search or to the next one at the same address.  An    *)
(* answer that fills a search cannot finish it under a queued end, because *)
(* a search that is off collects nothing.                                  *)
THEOREM EndMeetsItsSearch == Spec => []EndsItsSearch
<1>1. QueryInv => EndsItsSearch
  BY QueryInvSuffices
<1> QED BY <1>1, InitQuery, NextQuery, PTL DEF Spec

-----------------------------------------------------------------------------
(* A search finds all that answer *)

\* The entries of the queue move n places forward, and so does the backlog.
KeptFrom(n) == \A i \in DOMAIN queue : i > n =>
    /\ i - n \in DOMAIN queue' /\ queue'[i - n] = queue[i]
    /\ i <= backlog => i - n <= backlog'

LEMMA SameKept ==
    ASSUME TypeOK, UNCHANGED <<queue, backlog>>
    PROVE  KeptFrom(0)
BY Places DEF KeptFrom

LEMMA TakenKept ==
    ASSUME TypeOK, queue # <<>>, Taken
    PROVE  KeptFrom(1)
<1>1. queue \in Seq(Action) /\ backlog \in Nat
  BY DEF TypeOK
<1>2. /\ queue' \in Seq(Action) /\ Len(queue') = Len(queue) - 1
      /\ \A i \in 1 .. Len(queue') : queue'[i] = queue[i + 1]
  BY <1>1, HeadTailProperties DEF Taken
<1>3. DOMAIN queue' = 1 .. Len(queue') /\ Len(queue') \in Nat
  BY <1>2, LenProperties
<1>4. ASSUME NEW i \in DOMAIN queue, i > 1
      PROVE  i - 1 \in DOMAIN queue' /\ queue'[i - 1] = queue[i]
  BY <1>2, <1>3, <1>4, Places
<1>5. \A i \in DOMAIN queue : i > 1 /\ i <= backlog => i - 1 <= backlog'
  BY <1>1, Places DEF Taken
<1> QED BY <1>4, <1>5 DEF KeptFrom

LEMMA LongerKept ==
    ASSUME TypeOK, NEW x \in Action, queue' = Append(queue, x), backlog' \in Nat,
           \A i \in DOMAIN queue : i <= backlog => i <= backlog'
    PROVE  KeptFrom(0)
<1>1. queue \in Seq(Action)
  BY DEF TypeOK
<1>2. /\ queue' \in Seq(Action) /\ Len(queue') = Len(queue) + 1
      /\ \A i \in 1 .. Len(queue) : queue'[i] = queue[i]
  BY <1>1, AppendProperties
<1>3. DOMAIN queue' = 1 .. Len(queue')
  BY <1>2, LenProperties
<1>4. \A i \in DOMAIN queue : i - 0 = i /\ i \in DOMAIN queue'
  BY <1>2, <1>3, Places
<1> QED BY <1>2, <1>4, Places DEF KeptFrom

\* Its own clock, its rows aside.
SameSearch == /\ search'[caller].done = search[caller].done
              /\ search'[caller].state = search[caller].state
              /\ search'[caller].age = search[caller].age
              /\ search'[caller].since = search[caller].since

FaultsOK == faults' \in [queries : Nat, lost : Nat, noise : Nat, missed : Nat]

LEMMA FrameAge ==
    ASSUME QueryInv, AgeInv, NEW n \in {0, 1}, KeptFrom(n),
           n = 1 => Head(queue).type # "add" /\ Head(queue) = queue[1],
           UNCHANGED <<caller, chain>>, SameSearch, FaultsOK
    PROVE  AgeInv'
<1>1. ASSUME NEW i \in Queued("add")
      PROVE  i - n \in Queued("add")' /\ (i <= backlog => i - n <= backlog')
  <2>1. i \in DOMAIN queue /\ queue[i].type = "add" /\ i \in Nat \ {0}
    BY Places DEF QueryInv, Queued
  <2>2. i > n
    BY <2>1
  <2> QED BY <2>1, <2>2 DEF KeptFrom, Queued
<1>2. Queued("add") # {} => Queued("add")' # {}
  BY <1>1
<1>3. (\E i \in Queued("add") : i <= backlog) => \E i \in Queued("add")' : i <= backlog'
  BY <1>1
<1> QED BY <1>2, <1>3 DEF AgeInv, Waiting, SameSearch, FaultsOK

\* An answer in the queue stays there until it is taken.
LEMMA AnswerKept ==
    ASSUME QueryInv, NEW n \in {0, 1}, KeptFrom(n), NEW r,
           n = 1 => /\ Head(queue) = queue[1]
                    /\ ~(Head(queue).type = "answer" /\ Head(queue).from = r),
           NEW i \in Queued("answer"), queue[i].from = r
    PROVE  \E j \in Queued("answer")' : queue'[j].from = r /\ (i <= backlog => j <= backlog')
<1>1. i \in DOMAIN queue /\ queue[i].type = "answer" /\ i > n
  BY Places DEF QueryInv, Queued
<1>2. i - n \in DOMAIN queue' /\ queue'[i - n] = queue[i] /\ (i <= backlog => i - n <= backlog')
  BY <1>1 DEF KeptFrom
<1> QED BY <1>1, <1>2 DEF Queued

LEMMA FrameComing ==
    ASSUME QueryInv, NEW n \in {0, 1}, KeptFrom(n), NEW r,
           n = 1 => /\ Head(queue) = queue[1]
                    /\ ~(Head(queue).type = "send" /\ Head(queue).search = caller)
                    /\ ~(Head(queue).type = "answer" /\ Head(queue).from = r),
           caller' = caller, caller \in chain', SameSearch,
           r \in under_way => r \in under_way' \/ \E i \in Queued("answer")' : queue'[i].from = r,
           Coming(r)
    PROVE  Coming(r)'
<1>1. \A i \in DOMAIN queue : i \in Nat \ {0}
  BY Places DEF QueryInv
<1>2. ASSUME NEW i \in Queued("send"), queue[i].search = caller, i <= backlog
      PROVE  \E j \in Queued("send")' : queue'[j].search = caller /\ j <= backlog'
  <2>1. i \in DOMAIN queue /\ queue[i].type = "send" /\ i > n
    BY <1>1, <1>2 DEF Queued
  <2>2. i - n \in DOMAIN queue' /\ queue'[i - n] = queue[i] /\ i - n <= backlog'
    BY <1>2, <2>1 DEF KeptFrom
  <2> QED BY <1>2, <2>1, <2>2 DEF Queued
<1>3. ASSUME NEW i \in Queued("answer"), queue[i].from = r
      PROVE  \E j \in Queued("answer")' : queue'[j].from = r /\ (i <= backlog => j <= backlog')
  BY <1>3, AnswerKept
<1>4. /\ search'[caller].since <= 1
      /\ search'[caller].age < Timeout + search'[caller].since
  BY DEF Coming, SameSearch
<1>5. CASE search[caller].since = 0 /\ r \in under_way
  BY <1>4, <1>5 DEF Coming, SameSearch
<1>6. CASE /\ search[caller].since = 0
           /\ \E i \in Queued("send") : queue[i].search = caller /\ i <= backlog
  BY <1>2, <1>4, <1>6 DEF Coming, SameSearch
<1>7. CASE search[caller].since = 0 /\ \E i \in Queued("answer") : queue[i].from = r
  BY <1>3, <1>4, <1>7 DEF Coming, SameSearch
<1>8. CASE \E i \in Queued("answer") : queue[i].from = r /\ i <= backlog
  BY <1>3, <1>4, <1>8 DEF Coming, SameSearch
<1> QED BY <1>5, <1>6, <1>7, <1>8 DEF Coming

-----------------------------------------------------------------------------
(* The rounds that are left *)

LEMMA NeededRange ==
    ASSUME QueryInv, AgeInv, faults.missed <= 1, NEW r
    PROVE  Needed(r) \in 1 .. 3
<1>1. faults.missed \in Nat
  BY DEF AgeInv
<1> QED BY <1>1 DEF Needed

LEMMA FewerRounds ==
    ASSUME QueryInv, caller # 0, NEW n \in 0 .. 3, NEW m \in 0 .. n, Rounds(n)
    PROVE  Rounds(m)
<1>1. search[caller].age \in Nat /\ search[caller].since \in Nat
  BY DEF QueryInv, TypeOK, SearchRecord
<1>2. Resend \in Nat /\ Timeout \in Nat
  BY MdnsQueryAssumption
<1>3. n \in {0, 1, 2, 3} /\ m \in {0, 1, 2, 3} /\ m <= n
  OBVIOUS
<1> QED BY <1>1, <1>2, <1>3 DEF Rounds

\* What a step may do to the rows of a search, or lose.
LEMMA FrameRounds ==
    ASSUME FindInv, QueryInv', AgeInv', UNCHANGED <<present, caller>>,
           faults.missed <= faults'.missed,
           caller # 0 =>
               /\ SameSearch
               /\ search[caller].found \subseteq search'[caller].found
               /\ search[caller].addressed \subseteq search'[caller].addressed
               /\ Full(search[caller]) => Full(search'[caller])
               /\ \A r \in present \ search'[caller].addressed :
                      /\ Coming(r) /\ search[caller].state # "OFF"
                      /\ ~Full(search'[caller]) /\ faults'.missed <= 1
                      => Coming(r)' \/ Needed(r)' < Needed(r)
    PROVE  RoundsInv'
<1> SUFFICES ASSUME caller # 0, ~Full(search'[caller]), faults'.missed <= 1,
                    NEW r \in present, r \notin search'[caller].addressed
             PROVE  /\ search'[caller].state # "OFF"
                    /\ Rounds(Needed(r))' \/ (Coming(r)' /\ Rounds(Needed(r) - 1)')
  BY DEF RoundsInv, Full
<1>1. faults.missed \in Nat /\ faults'.missed \in Nat /\ faults.missed <= 1
  BY DEF FindInv, AgeInv
<1>2. /\ search[caller].state # "OFF"
      /\ Rounds(Needed(r)) \/ (Coming(r) /\ Rounds(Needed(r) - 1))
  BY <1>1 DEF FindInv, RoundsInv, Full
<1>3. Needed(r) \in 1 .. 3 /\ Needed(r)' \in 1 .. 3
  <2>1. Needed(r) \in 1 .. 3
    BY <1>1, NeededRange DEF FindInv
  <2>2. Needed(r)' \in 1 .. 3
    BY <1>1 DEF Needed
  <2> QED BY <2>1, <2>2
<1>4. Needed(r)' <= Needed(r)
  BY <1>1 DEF Needed
<1>5. \A n : Rounds(n) => Rounds(n)'
  BY DEF Rounds, SameSearch
<1>6. ASSUME NEW m \in 0 .. 3, NEW n \in 0 .. 3, m <= n, Rounds(n)
      PROVE  Rounds(m)'
  BY <1>5, <1>6, FewerRounds DEF FindInv
<1>7. ASSUME Rounds(Needed(r)) PROVE Rounds(Needed(r))'
  BY <1>3, <1>4, <1>6, <1>7
<1>8. ASSUME Coming(r), Rounds(Needed(r) - 1)
      PROVE  Rounds(Needed(r))' \/ (Coming(r)' /\ Rounds(Needed(r) - 1)')
  <2>1. CASE Needed(r)' < Needed(r)
    BY <1>3, <1>6, <1>8, <2>1
  <2>2. CASE Coming(r)'
    <3>1. Needed(r)' - 1 <= Needed(r) - 1 /\ Needed(r)' - 1 \in 0 .. 3 /\ Needed(r) - 1 \in 0 .. 3
      BY <1>3, <1>4
    <3> QED BY <1>6, <1>8, <2>2, <3>1
  <2> QED BY <1>1, <1>2, <1>8, <2>1, <2>2
<1> QED BY <1>2, <1>7, <1>8, SMT DEF SameSearch

-----------------------------------------------------------------------------
(* The steps that begin a search, end it or free it *)

\* A new search has all its rounds before it.
LEMMA QueryFind ==
    ASSUME FindInv, NEW a \in Addresses, Query(a)
    PROVE  AgeInv' /\ RoundsInv'
<1> DEFINE x == [type |-> "add", search |-> a]
<1>1. caller' = a /\ caller = 0 /\ chain' = chain /\ queue' = Append(queue, x)
  BY DEF Query
<1>2. a \in Addresses /\ x \in Action /\ x.type = "add"
  BY DEF Action
<1>3. search'[a] = NewSearch
  BY DEF Query, FindInv, QueryInv, TypeOK
<1>4. /\ search'[a].state = "INIT" /\ search'[a].age = 0
      /\ search'[a].since <= Resend + 1 /\ ~search'[a].done
  BY <1>3, MdnsQueryAssumption DEF NewSearch, Free
<1>5. FaultsOK
  <2>1. faults \in [queries : Nat, lost : Nat, noise : Nat, missed : Nat]
    BY DEF FindInv, AgeInv
  <2>2. /\ faults' = [faults EXCEPT !.queries = faults.queries + 1, !.missed = 0]
        /\ faults.queries + 1 \in Nat
    BY <2>1 DEF Query
  <2> QED BY <2>1, <2>2 DEF FaultsOK
<1> HIDE DEF x
<1>6. Queued("add")' # {}
  BY <1>1, <1>2, LongerQueue DEF FindInv, QueryInv
<1>7. AgeInv'
  BY <1>1, <1>4, <1>5, <1>6 DEF AgeInv, Waiting, FaultsOK
<1>8. RoundsInv'
  BY <1>1, <1>4 DEF RoundsInv, Rounds
<1> QED BY <1>7, <1>8

LEMMA ReturnFind ==
    ASSUME FindInv, Return
    PROVE  AgeInv' /\ RoundsInv'
BY DEF Return, FindInv, AgeInv, Waiting, RoundsInv

\* A search is added before its first question.
LEMMA AddFind ==
    ASSUME FindInv, Add
    PROVE  AgeInv' /\ RoundsInv'
<1>1. /\ Head(queue).type = "add" /\ queue # <<>> /\ Taken
      /\ chain' = chain \cup {Head(queue).search}
      /\ UNCHANGED <<present, caller, search, under_way, faults>>
  BY DEF Add, Is
<1>2. Head(queue) = queue[1] /\ 1 \in DOMAIN queue
  BY <1>1, TakenQueue DEF FindInv, QueryInv
<1>3. 1 \in Queued("add")
  BY <1>1, <1>2 DEF Queued
<1>4. /\ Head(queue).search = caller /\ caller \in Addresses /\ chain = {}
      /\ ~search[caller].done
  BY <1>2, <1>3 DEF FindInv, QueryInv, AddInv
<1>5. caller # 0
  BY <1>4, MdnsQueryAssumption
<1>6. search[caller].state = "INIT"
  BY <1>4, <1>5 DEF FindInv, AgeInv, Waiting
<1>7. AgeInv'
  BY <1>1, <1>4, <1>6 DEF FindInv, AgeInv, Waiting
<1>8. RoundsInv'
  BY <1>1, <1>6 DEF RoundsInv, Rounds
<1> QED BY <1>7, <1>8

\* A search that is off has found all it can be held to.
LEMMA EndFind ==
    ASSUME FindInv, EndSearch
    PROVE  AgeInv' /\ RoundsInv'
<1>1. /\ Head(queue).type = "end" /\ queue # <<>> /\ Taken
      /\ search' = [search EXCEPT ![Head(queue).search] = Finished(@)]
      /\ UNCHANGED <<present, caller, under_way, faults>>
  BY DEF EndSearch, Is
<1>2. Head(queue) = queue[1] /\ 1 \in DOMAIN queue
  BY <1>1, TakenQueue DEF FindInv, QueryInv
<1>3. 1 \in Queued("end")
  BY <1>1, <1>2 DEF Queued
<1>4. Head(queue).search = caller /\ chain = {caller} /\ search[caller].state = "OFF"
  BY <1>2, <1>3 DEF FindInv, QueryInv, EndInv
<1>5. caller \in Addresses /\ search[caller] \in SearchRecord
  BY <1>4 DEF FindInv, QueryInv, TypeOK
<1>6. search'[caller] = Finished(search[caller])
  BY <1>1, <1>4, <1>5 DEF FindInv, QueryInv, TypeOK
<1>7. /\ search'[caller].state = "OFF" /\ search'[caller].done
      /\ search'[caller].found = search[caller].found
      /\ search'[caller].addressed = search[caller].addressed
  BY <1>5, <1>6 DEF Finished, SearchRecord
<1>8. AgeInv'
  BY <1>1, <1>7 DEF FindInv, AgeInv, Waiting
<1>9. RoundsInv'
  <2> SUFFICES ASSUME caller # 0, ~Full(search'[caller]), faults.missed <= 1,
                      NEW r \in present, r \notin search'[caller].addressed
               PROVE  FALSE
    BY <1>1 DEF RoundsInv, Full
  <2>1. ~Full(search[caller]) /\ r \in present \ search[caller].addressed
    BY <1>7 DEF Full
  <2> QED BY <1>4, <2>1 DEF FindInv, RoundsInv
<1> QED BY <1>8, <1>9

-----------------------------------------------------------------------------
(* Questions and answers *)

\* Nothing happens to the search, and nothing is lost that r needs.
LEMMA FrameFind ==
    ASSUME FindInv, QueryInv', NEW n \in {0, 1}, KeptFrom(n),
           n = 1 => Head(queue).type # "add" /\ Head(queue) = queue[1],
           UNCHANGED <<present, caller, search, chain>>, FaultsOK,
           faults.missed <= faults'.missed,
           \A r \in present \ search[caller].addressed :
               Coming(r) => Coming(r)' \/ faults'.missed > faults.missed
    PROVE  AgeInv' /\ RoundsInv'
<1>1. SameSearch
  BY DEF SameSearch
<1>2. AgeInv'
  BY <1>1, FrameAge DEF FindInv
<1>3. faults.missed \in Nat /\ faults'.missed \in Nat
  BY DEF FindInv, AgeInv, FaultsOK
<1>4. ASSUME NEW r \in present \ search[caller].addressed, Coming(r)
      PROVE  Coming(r)' \/ Needed(r)' < Needed(r)
  BY <1>3, <1>4 DEF Needed
<1>5. Full(search[caller]) => Full(search'[caller])
  BY DEF Full
<1>6. RoundsInv'
  BY <1>1, <1>2, <1>4, <1>5, FrameRounds
<1> QED BY <1>2, <1>6

LEMMA SendFind ==
    ASSUME FindInv, SendSearch
    PROVE  AgeInv' /\ RoundsInv'
<1>1. QueryInv'
  BY OtherTaskQuery DEF FindInv
<1>2. PICK missing \in SUBSET Asked(Head(queue).search) :
           /\ under_way' = under_way \cup (Asked(Head(queue).search) \ missing)
           /\ faults' = [faults EXCEPT !.lost = @ + Cardinality(missing),
                                       !.missed = @ + Cardinality(missing)]
  BY DEF SendSearch
<1>3. /\ queue # <<>> /\ Head(queue).type = "send" /\ Taken
      /\ UNCHANGED <<present, caller, search, chain>>
  BY DEF SendSearch, Is
<1>4. KeptFrom(1) /\ Head(queue) = queue[1]
  BY <1>3, TakenKept, TakenQueue DEF FindInv, QueryInv
<1>5. IsFiniteSet(missing) /\ Cardinality(missing) \in Nat
  <2>1. missing \subseteq Responders
    BY DEF Asked, FindInv, QueryInv, TypeOK
  <2> QED BY <2>1, FS_Subset, FS_CardinalityType, RoundsAssumption
<1>6. /\ FaultsOK
      /\ faults'.missed = faults.missed + Cardinality(missing)
      /\ faults.missed \in Nat /\ faults.missed <= faults'.missed
  <2> DEFINE n == Cardinality(missing)
  <2>1. faults \in [queries : Nat, lost : Nat, noise : Nat, missed : Nat]
    BY DEF FindInv, AgeInv
  <2>2. n \in Nat /\ faults.lost + n \in Nat /\ faults.missed + n \in Nat
    BY <2>1, <1>5
  <2>3. faults' = [faults EXCEPT !.lost = faults.lost + n, !.missed = faults.missed + n]
    BY <1>2
  <2> HIDE DEF n
  <2>4. FaultsOK /\ faults'.missed = faults.missed + n
    BY <2>1, <2>2, <2>3 DEF FaultsOK
  <2>5. faults.missed \in Nat /\ faults.missed <= faults'.missed
    BY <2>1, <2>2, <2>4
  <2> QED BY <2>4, <2>5 DEF n
<1>7. ASSUME NEW r \in present \ search[caller].addressed, Coming(r)
      PROVE  Coming(r)' \/ faults'.missed > faults.missed
  <2>1. CASE r \in missing
    <3>1. Cardinality(missing) # 0
      BY <1>5, <2>1, FS_EmptySet
    <3> QED BY <1>5, <1>6, <3>1
  <2>2. CASE Head(queue).search # caller
    <3>1. Coming(r)'
      BY <1>2, <1>3, <1>4, <1>7, <2>2, FrameComing DEF SameSearch, FindInv, Coming
    <3> QED BY <3>1
  <2>3. CASE Head(queue).search = caller /\ r \notin missing
    <3>1. caller \in chain /\ r \in under_way'
      BY <1>2, <1>7, <2>3 DEF Coming, Asked
    <3>2. CASE search[caller].since = 0
      BY <1>3, <1>7, <3>1, <3>2 DEF Coming
    <3>3. CASE search[caller].since # 0
      <4>1. PICK i \in Queued("answer") : queue[i].from = r /\ i <= backlog
        BY <1>7, <3>3 DEF Coming
      <4>2. \E j \in Queued("answer")' : queue'[j].from = r /\ j <= backlog'
        BY <1>3, <1>4, <4>1, AnswerKept DEF FindInv
      <4> QED BY <1>3, <1>7, <3>1, <4>2 DEF Coming
    <3> QED BY <3>2, <3>3
  <2> QED BY <2>1, <2>2, <2>3
<1> QED BY <1>1, <1>3, <1>4, <1>6, <1>7, FrameFind

LEMMA OtherFind ==
    ASSUME FindInv, ReceiveOther
    PROVE  AgeInv' /\ RoundsInv'
<1>1. QueryInv'
  BY OtherTaskQuery DEF FindInv
<1>2. /\ queue # <<>> /\ Head(queue).type = "other" /\ Taken
      /\ UNCHANGED <<present, caller, search, chain, under_way, faults>>
  BY DEF ReceiveOther, Is
<1>3. KeptFrom(1) /\ Head(queue) = queue[1]
  BY <1>2, TakenKept, TakenQueue DEF FindInv, QueryInv
<1>4. ASSUME NEW r \in present, Coming(r) PROVE Coming(r)'
  BY <1>2, <1>3, <1>4, FrameComing DEF SameSearch, FindInv, Coming
<1>5. FaultsOK /\ faults.missed <= faults'.missed
  BY <1>2 DEF FaultsOK, FindInv, AgeInv
<1> QED BY <1>1, <1>2, <1>3, <1>4, <1>5, FrameFind

\* An answer is dropped at the full queue: the one loss that is allowed.
LEMMA ComeInFind ==
    ASSUME FindInv, NEW x \in Responders, Answer(x)
    PROVE  AgeInv' /\ RoundsInv'
<1> DEFINE a == [type |-> "answer", from |-> x]
<1>1. QueryInv'
  BY ComeInQuery DEF FindInv
<1>2. /\ UNCHANGED <<present, caller, search, chain, backlog>>
      /\ under_way' = under_way \ {x}
      /\ a \in Action /\ a.type = "answer" /\ a.from = x
  BY DEF Answer, Action
<1>3. faults \in [queries : Nat, lost : Nat, noise : Nat, missed : Nat]
  BY DEF FindInv, AgeInv
<1>4. CASE HasRoom
  <2>1. queue' = Append(queue, a) /\ faults' = faults
    BY <1>3, <1>4 DEF Answer
  <2> HIDE DEF a
  <2>2. TypeOK /\ backlog' \in Nat
    BY <1>2 DEF FindInv, QueryInv, TypeOK
  <2>3. KeptFrom(0)
    BY <1>2, <2>1, <2>2, LongerKept
  <2>4. /\ Queued("answer")' = Queued("answer") \cup {Len(queue) + 1}
        /\ queue'[Len(queue) + 1] = a
    BY <1>2, <2>1, <2>2, LongerQueue
  <2>5. \E i \in Queued("answer")' : queue'[i].from = x
    BY <1>2, <2>4
  <2>6. ASSUME NEW r \in present, Coming(r) PROVE Coming(r)'
    BY <1>2, <2>3, <2>5, <2>6, FrameComing DEF SameSearch, FindInv, Coming
  <2>7. FaultsOK /\ faults.missed <= faults'.missed
    BY <1>3, <2>1 DEF FaultsOK
  <2> QED BY <1>1, <1>2, <2>3, <2>6, <2>7, FrameFind
<1>5. CASE ~HasRoom
  <2>1. queue' = queue /\ faults' = [faults EXCEPT !.missed = faults.missed + 1]
    BY <1>5 DEF Answer
  <2>2. KeptFrom(0)
    BY <1>2, <2>1, SameKept DEF FindInv, QueryInv
  <2>3. faults.missed + 1 \in Nat
    BY <1>3
  <2>4. FaultsOK /\ faults'.missed > faults.missed /\ faults.missed <= faults'.missed
    BY <1>3, <2>1, <2>3 DEF FaultsOK
  <2> QED BY <1>1, <1>2, <2>2, <2>4, FrameFind
<1> QED BY <1>4, <1>5

LEMMA NoiseFind ==
    ASSUME FindInv, Noise
    PROVE  AgeInv' /\ RoundsInv'
<1>1. QueryInv'
  BY ComeInQuery DEF FindInv
<1>2. UNCHANGED <<present, caller, search, chain, backlog, under_way>>
  BY DEF Noise
<1>3. faults \in [queries : Nat, lost : Nat, noise : Nat, missed : Nat]
  BY DEF FindInv, AgeInv
<1>4. TypeOK /\ backlog' \in Nat
  BY <1>2 DEF FindInv, QueryInv, TypeOK
<1>5. KeptFrom(0)
  <2>1. \E x \in Action : queue' = Append(queue, x)
    BY DEF Noise, Action
  <2> QED BY <1>2, <1>4, <2>1, LongerKept
<1>6. ASSUME NEW r \in present, Coming(r) PROVE Coming(r)'
  BY <1>2, <1>5, <1>6, FrameComing DEF SameSearch, FindInv, Coming
<1>7. FaultsOK /\ faults.missed <= faults'.missed
  <2>1. faults' = [faults EXCEPT !.noise = faults.noise + 1] /\ faults.noise + 1 \in Nat
    BY <1>3 DEF Noise
  <2> QED BY <1>3, <2>1 DEF FaultsOK
<1> QED BY <1>1, <1>2, <1>5, <1>6, <1>7, FrameFind

\* An answer completes a row, or makes one: then the other record is needed.
LEMMA AnsweredRows ==
    ASSUME NEW s \in SearchRecord, NEW r \in Responders, ~Full(s)
    PROVE  /\ s.found \subseteq OnAnswer(s, r).found
           /\ s.addressed \subseteq OnAnswer(s, r).addressed
           /\ r \in OnAnswer(s, r).found
           /\ r \notin AddressFirst \ s.found => r \in OnAnswer(s, r).addressed
           /\ OnAnswer(s, r).age = s.age /\ OnAnswer(s, r).since = s.since
<1>1. OnSrv(s, r) = [s EXCEPT !.found = s.found \cup {r}]
  BY DEF OnSrv
<1>2. \A t \in SearchRecord : r \in t.found =>
          OnA(t, r) = [t EXCEPT !.addressed = t.addressed \cup {r}]
  BY DEF OnA
<1>3. OnSrv(s, r) \in SearchRecord /\ r \in OnSrv(s, r).found
  BY <1>1 DEF SearchRecord
<1>4. CASE r \notin AddressFirst
  BY <1>1, <1>2, <1>3, <1>4 DEF OnAnswer, SearchRecord
<1>5. CASE r \in AddressFirst /\ r \notin s.found
  <2>1. OnA(s, r) = s
    BY <1>5 DEF OnA
  <2> QED BY <1>1, <1>5, <2>1 DEF OnAnswer, SearchRecord
<1>6. CASE r \in AddressFirst /\ r \in s.found
  <2> DEFINE t == [s EXCEPT !.addressed = s.addressed \cup {r}]
  <2>1. OnA(s, r) = t
    BY <1>2, <1>6
  <2>2. /\ t \in SearchRecord /\ t.found = s.found /\ t.addressed = s.addressed \cup {r}
        /\ t.age = s.age /\ t.since = s.since
    BY DEF SearchRecord
  <2> HIDE DEF t
  <2>3. OnSrv(t, r) = [t EXCEPT !.found = t.found \cup {r}]
    BY <2>2 DEF OnSrv, Full
  <2> QED BY <1>6, <2>1, <2>2, <2>3 DEF OnAnswer, SearchRecord
<1> QED BY <1>4, <1>5, <1>6

LEMMA AnswerFind ==
    ASSUME FindInv, ReceiveAnswer
    PROVE  AgeInv' /\ RoundsInv'
<1>1. QueryInv'
  BY AnswerQuery DEF FindInv
<1>2. PICK h : h = Head(queue).from
  OBVIOUS
<1>3. PICK got : got = [a \in Addresses |-> IF Collects(a) THEN OnAnswer(search[a], h)
                                                          ELSE search[a]]
  OBVIOUS
<1>4. /\ queue # <<>> /\ Taken /\ Head(queue).type = "answer"
      /\ UNCHANGED <<present, caller, under_way, faults>>
      /\ search' = [a \in Addresses |-> IF a \in chain /\ Full(got[a])
                                        THEN Finished(got[a]) ELSE got[a]]
      /\ chain' = chain \ {a \in chain : Full(got[a])}
  BY <1>2, <1>3, Zenon DEF ReceiveAnswer, Is
<1>5. /\ KeptFrom(1) /\ Head(queue) = queue[1] /\ h \in Responders
  BY <1>2, <1>4, TakenKept, TakenQueue DEF FindInv, QueryInv, Action
<1>6. FaultsOK /\ faults.missed <= faults'.missed
  BY <1>4 DEF FaultsOK, FindInv, AgeInv
<1>7. CASE caller = 0
  BY <1>4, <1>6, <1>7 DEF AgeInv, Waiting, RoundsInv, FaultsOK
<1>8. CASE caller # 0
  <2>1. caller \in Addresses /\ search[caller] \in SearchRecord
    BY <1>8 DEF FindInv, QueryInv, TypeOK
  <2>2. \A a \in chain : a = caller /\ ~Full(search[a])
    BY DEF FindInv, QueryInv, ChainInv
  <2>3. CASE ~Collects(caller)
    <3>1. got[caller] = search[caller]
      BY <1>3, <2>1, <2>3
    <3>2. search'[caller] = search[caller] /\ chain' = chain
      BY <1>4, <2>1, <2>2, <3>1
    <3>3. SameSearch
      BY <3>2 DEF SameSearch
    <3>4. AgeInv'
      BY <1>4, <1>5, <1>6, <3>2, <3>3, FrameAge DEF FindInv
    <3>5. ASSUME NEW r, Coming(r) PROVE search[caller].state = "OFF"
      BY <2>3, <3>5 DEF Coming, Collects
    <3>6. Full(search[caller]) => Full(search'[caller])
      BY <3>2 DEF Full
    <3> QED BY <1>1, <1>4, <1>6, <3>2, <3>3, <3>4, <3>5, <3>6, FrameRounds
  <2>4. CASE Collects(caller)
    <3> DEFINE s == search[caller]
               t == OnAnswer(s, h)
    <3>1. caller \in chain /\ ~Full(s) /\ got[caller] = t
      BY <1>3, <2>1, <2>2, <2>4 DEF Collects
    <3>2. /\ t \in SearchRecord /\ t.done = s.done /\ t.state = s.state
          /\ s.found \subseteq t.found /\ s.addressed \subseteq t.addressed
          /\ h \in t.found /\ (h \notin AddressFirst \ s.found => h \in t.addressed)
          /\ t.age = s.age /\ t.since = s.since
      <4> HIDE DEF s
      <4> QED BY <1>5, <2>1, <3>1, AnsweredSearch, AnsweredRows DEF s
    <3> HIDE DEF t
    <3>3. CASE Full(t)
      <4>1. search'[caller] = Finished(t)
        BY <1>4, <2>1, <3>1, <3>3
      <4>2. search'[caller].done /\ search'[caller].state = "OFF" /\ Full(search'[caller])
        BY <3>2, <3>3, <4>1 DEF Finished, SearchRecord, Full
      <4>3. AgeInv'
        BY <1>4, <1>6, <4>2 DEF AgeInv, Waiting, FaultsOK
      <4>4. RoundsInv'
        BY <1>4, <4>2 DEF RoundsInv, Full
      <4> QED BY <4>3, <4>4
    <3>4. CASE ~Full(t)
      <4>1. search'[caller] = t /\ chain' = chain
        BY <1>4, <2>1, <2>2, <3>1, <3>4
      <4>2. SameSearch
        BY <3>2, <4>1 DEF SameSearch
      <4>3. AgeInv'
        BY <1>4, <1>5, <1>6, <4>1, <4>2, FrameAge DEF FindInv
      <4>4. ASSUME NEW r \in present \ search'[caller].addressed, Coming(r)
            PROVE  Coming(r)' \/ Needed(r)' < Needed(r)
        <5>1. CASE r # h
          <6>1. Coming(r)'
            BY <1>4, <1>5, <3>1, <4>1, <4>2, <4>4, <5>1, <1>2, FrameComing DEF FindInv
          <6> QED BY <6>1
        <5>2. CASE r = h
          <6>1. r \in AddressFirst \ s.found /\ r \in t.found
            BY <3>2, <4>1, <4>4, <5>2
          <6>2. faults' = faults /\ faults.missed \in Nat
            BY <1>4 DEF FindInv, AgeInv
          <6>3. Needed(r) = 3 - faults.missed /\ Needed(r)' = 2 - faults.missed
            BY <1>4, <4>1, <6>1, <6>2 DEF Needed
          <6> QED BY <6>2, <6>3
        <5> QED BY <5>1, <5>2
      <4> QED BY <1>1, <1>4, <1>6, <3>1, <3>2, <4>1, <4>2, <4>3, <4>4, FrameRounds
    <3> QED BY <3>3, <3>4
  <2> QED BY <2>3, <2>4
<1> QED BY <1>7, <1>8

-----------------------------------------------------------------------------
(* The clock *)

LEMMA AgedClock ==
    ASSUME NEW s \in SearchRecord
    PROVE  /\ Aged(s).age = Later(s.age, Timeout) /\ Aged(s).since = Later(s.since, Resend)
           /\ Aged(s).addressed = s.addressed
BY DEF Aged, SearchRecord

LEMMA TimedClock ==
    ASSUME NEW s \in SearchRecord
    PROVE  /\ Timed(s).s.addressed = s.addressed /\ Timed(s).s.age = s.age
           /\ s.state # "OFF" /\ s.age > Timeout =>
                  /\ Timed(s).wants = "end" /\ Timed(s).s.since = s.since
                  /\ Timed(s).s.state \in {"OFF", "RUNNING"}
           /\ s.state # "OFF" /\ ~(s.age > Timeout) /\ (s.state = "INIT" \/ s.since > Resend) =>
                  /\ Timed(s).wants = "send" /\ Timed(s).s.state = "RUNNING"
                  /\ Timed(s).s.since = IF HasRoom THEN 0 ELSE Resend
           /\ \/ s.state = "OFF"
              \/ ~(s.age > Timeout) /\ ~(s.state = "INIT" \/ s.since > Resend)
              => Timed(s).wants = "nothing" /\ Timed(s).s = s
<1>1. CASE s.state = "OFF"
  BY <1>1 DEF Timed
<1>2. CASE s.state # "OFF" /\ s.age > Timeout
  <2> DEFINE new == IF HasRoom THEN "OFF" ELSE "RUNNING"
  <2>1. Timed(s) = [s |-> [s EXCEPT !.state = new], wants |-> "end"]
    BY <1>2 DEF Timed
  <2>2. new \in {"OFF", "RUNNING"}
    OBVIOUS
  <2> HIDE DEF new
  <2> QED BY <1>2, <2>1, <2>2 DEF SearchRecord
<1>3. CASE s.state # "OFF" /\ ~(s.age > Timeout) /\ (s.state = "INIT" \/ s.since > Resend)
  <2> DEFINE new == IF HasRoom THEN 0 ELSE Resend
             timed == [s EXCEPT !.state = "RUNNING", !.since = new]
  <2>1. Timed(s) = [s |-> timed, wants |-> "send"]
    BY <1>3 DEF Timed
  <2>2. new = IF HasRoom THEN 0 ELSE Resend
    OBVIOUS
  <2> HIDE DEF new
  <2>3. /\ timed.addressed = s.addressed /\ timed.age = s.age
        /\ timed.state = "RUNNING" /\ timed.since = new
    BY DEF SearchRecord
  <2> HIDE DEF timed
  <2>4. Timed(s).s = timed /\ Timed(s).wants = "send"
    BY <2>1
  <2> QED BY <1>3, <2>2, <2>3, <2>4
<1>4. CASE s.state # "OFF" /\ ~(s.age > Timeout) /\ ~(s.state = "INIT" \/ s.since > Resend)
  BY <1>4 DEF Timed
<1> QED BY <1>1, <1>2, <1>3, <1>4

\* A tick of a search that is not done and not off.  Its question is sent, or has
\* to wait for room; or its time is over; or nothing happens.
LEMMA TickSearch ==
    ASSUME FindInv, Tick, caller \in chain
    PROVE  LET s == search[caller]
               t == search'[caller]
               age == Later(s.age, Timeout)
               since == Later(s.since, Resend)
               sends == s.state = "INIT" \/ since > Resend
           IN  /\ t.done = s.done /\ t.found = s.found /\ t.addressed = s.addressed
               /\ t.age = age
               /\ s.state = "OFF" =>
                      /\ t.state = "OFF" /\ t.since = since
                      /\ queue' = queue /\ faults' = faults
               /\ s.state # "OFF" /\ age > Timeout =>
                      /\ t.state \in {"OFF", "RUNNING"} /\ t.since = since
                      /\ faults' = faults
               /\ s.state # "OFF" /\ ~(age > Timeout) /\ sends /\ HasRoom =>
                      /\ t.state = "RUNNING" /\ t.since = 0 /\ faults' = faults
                      /\ queue' = Append(queue, [type |-> "send", search |-> caller])
               /\ s.state # "OFF" /\ ~(age > Timeout) /\ sends /\ ~HasRoom =>
                      /\ t.state = "RUNNING" /\ t.since = Resend
                      /\ faults' = [faults EXCEPT !.missed = faults.missed + 1]
               /\ s.state # "OFF" /\ ~(age > Timeout) /\ ~sends =>
                      /\ t.state = s.state /\ t.since = since
                      /\ queue' = queue /\ faults' = faults
<1> DEFINE s == search[caller]
<1>1. caller \in Addresses /\ s \in SearchRecord /\ search \in [Addresses -> SearchRecord]
  BY DEF Tick, FindInv, QueryInv, TypeOK
<1>2. PICK a : a = Aged(s)
  OBVIOUS
<1>3. /\ a \in SearchRecord /\ a.state = s.state /\ a.done = s.done /\ a.found = s.found
      /\ a.age = Later(s.age, Timeout) /\ a.since = Later(s.since, Resend)
      /\ a.addressed = s.addressed
  <2> HIDE DEF s
  <2> QED BY <1>1, <1>2, AgedSearch, AgedClock
<1>4. PICK t : t = Timed(a)
  OBVIOUS
<1>5. /\ search' = [search EXCEPT ![caller] = t.s]
      /\ queue' = IF t.wants # "nothing" /\ HasRoom
                  THEN Append(queue, [type |-> t.wants, search |-> caller]) ELSE queue
      /\ faults' = [faults EXCEPT !.missed =
                        IF t.wants = "send" /\ ~HasRoom THEN faults.missed + 1 ELSE faults.missed]
  BY <1>2, <1>4, Zenon DEF Tick
<1>6. search'[caller] = t.s
  BY <1>1, <1>5
<1>7. /\ t.s.done = a.done /\ t.s.found = a.found
      /\ t.s.addressed = a.addressed /\ t.s.age = a.age
  BY <1>3, <1>4, TimedSearch, TimedClock
<1>8. faults \in [queries : Nat, lost : Nat, noise : Nat, missed : Nat]
  BY DEF FindInv, AgeInv
<1>9. [faults EXCEPT !.missed = faults.missed] = faults
  BY <1>8
<1>10. CASE s.state # "OFF" /\ a.age > Timeout
  <2>1. /\ t.wants = "end" /\ t.s.since = a.since
        /\ t.s.state \in {"OFF", "RUNNING"}
    BY <1>3, <1>4, <1>10, TimedClock
  <2>2. faults' = faults
    BY <1>5, <1>9, <2>1
  <2> QED BY <1>3, <1>6, <1>7, <1>10, <2>1, <2>2
<1>11. CASE /\ s.state # "OFF" /\ ~(a.age > Timeout)
            /\ s.state = "INIT" \/ a.since > Resend
  <2>1. /\ t.wants = "send" /\ t.s.state = "RUNNING"
        /\ t.s.since = IF HasRoom THEN 0 ELSE Resend
    BY <1>3, <1>4, <1>11, TimedClock
  <2>2. CASE HasRoom
    <3>1. faults' = faults /\ queue' = Append(queue, [type |-> "send", search |-> caller])
      BY <1>5, <1>9, <2>1, <2>2
    <3> QED BY <1>3, <1>6, <1>7, <1>11, <2>1, <2>2, <3>1
  <2>3. CASE ~HasRoom
    <3>1. faults' = [faults EXCEPT !.missed = faults.missed + 1]
      BY <1>5, <2>1, <2>3
    <3> QED BY <1>3, <1>6, <1>7, <1>11, <2>1, <2>3, <3>1
  <2> QED BY <2>2, <2>3
<1>12. CASE \/ s.state = "OFF"
            \/ ~(a.age > Timeout) /\ ~(s.state = "INIT" \/ a.since > Resend)
  <2>1. t.wants = "nothing" /\ t.s = a
    BY <1>3, <1>4, <1>12, TimedClock
  <2>2. faults' = faults /\ queue' = queue
    BY <1>5, <1>9, <2>1
  <2> QED BY <1>3, <1>6, <1>7, <1>12, <2>1, <2>2
<1> QED BY <1>10, <1>11, <1>12

\* A search that is not in the chain yet gets older only.
LEMMA TickOutside ==
    ASSUME FindInv, Tick, caller \notin chain
    PROVE  AgeInv' /\ RoundsInv'
<1> DEFINE s == search[caller]
           t == search'[caller]
<1>1. /\ caller # 0 /\ caller \in Addresses /\ s \in SearchRecord
      /\ search' = [search EXCEPT ![caller] = Aged(s)]
      /\ backlog = 0 /\ backlog' = Len(queue)
      /\ UNCHANGED <<present, caller, chain, queue, faults>>
  BY DEF Tick, InTime, FindInv, QueryInv, TypeOK
<1>2. t = Aged(s)
  BY <1>1 DEF FindInv, QueryInv, TypeOK
<1>3. /\ t.state = s.state /\ t.done = s.done /\ t.found = s.found /\ t.addressed = s.addressed
      /\ t.age = Later(s.age, Timeout) /\ t.since = Later(s.since, Resend)
  <2> HIDE DEF s
  <2>1. Aged(s).state = s.state /\ Aged(s).done = s.done /\ Aged(s).found = s.found
    BY <1>1, AgedSearch
  <2> QED BY <1>1, <1>2, <2>1, AgedClock
<1>4. CASE s.done
  <2>1. s.state = "OFF"
    BY <1>1, <1>4 DEF FindInv, AgeInv
  <2>2. AgeInv'
    BY <1>1, <1>3, <1>4, <2>1 DEF FindInv, AgeInv, Waiting
  <2>3. ~Full(s) /\ faults.missed <= 1 => present \subseteq s.addressed
    BY <1>1, <2>1 DEF FindInv, RoundsInv
  <2>4. RoundsInv'
    BY <1>1, <1>3, <2>3 DEF RoundsInv, Full
  <2> QED BY <2>2, <2>4
<1>5. CASE ~s.done
  <2>1. /\ s.state = "INIT" /\ Queued("add") # {} /\ s.age \in {0, 1} /\ s.since <= Resend + 1
        /\ s.age = 1 => \E i \in Queued("add") : i <= backlog
    BY <1>1, <1>5 DEF FindInv, AgeInv, Waiting
  <2>2. /\ Queued("add")' = Queued("add")
        /\ \A i \in Queued("add") : i \in Nat \ {0} /\ i <= Len(queue)
    BY <1>1, Places DEF Queued, FindInv, QueryInv
  <2>3. s.age = 0
    BY <1>1, <2>1, <2>2
  <2>4. t.age = 1 /\ t.since <= Resend + 1
    <3>1. {Timeout, Resend} \subseteq Nat \ {0} /\ s.since \in Nat
      BY <1>1, MdnsQueryAssumption DEF SearchRecord
    <3> QED BY <1>3, <2>1, <2>3, <3>1 DEF Later
  <2>5. faults' \in [queries : Nat, lost : Nat, noise : Nat, missed : Nat]
    BY <1>1 DEF FindInv, AgeInv
  <2>6. AgeInv'
    BY <1>1, <1>3, <1>5, <2>1, <2>2, <2>4, <2>5 DEF AgeInv, Waiting
  <2>7. RoundsInv'
    BY <1>3, <2>1, <1>1 DEF RoundsInv, Rounds
  <2> QED BY <2>6, <2>7
<1> QED BY <1>4, <1>5

LEMMA TickAge ==
    ASSUME FindInv, Tick, caller \in chain
    PROVE  AgeInv'
<1> DEFINE s == search[caller]
           t == search'[caller]
           age == Later(s.age, Timeout)
           since == Later(s.since, Resend)
<1>1. caller # 0 /\ s \in SearchRecord /\ caller' = caller /\ chain' = chain /\ ~s.done
  BY DEF Tick, FindInv, QueryInv, TypeOK, ChainInv
<1>2. /\ s.age \in Nat /\ s.since \in Nat /\ Resend \in Nat \ {0} /\ Timeout \in Nat \ {0}
      /\ Timeout > 2
  BY <1>1, MdnsQueryAssumption, RoundsAssumption DEF SearchRecord
<1>3. /\ s.since <= Resend + 1
      /\ s.state = "INIT" => s.age \in {0, 1}
      /\ s.state \in {"INIT", "RUNNING", "OFF", "free"}
  BY <1>1 DEF FindInv, AgeInv, Waiting, SearchRecord
<1>4. /\ age \in Nat /\ since \in Nat /\ since <= Resend + 1
      /\ s.state = "INIT" => ~(age > Timeout)
  BY <1>2, <1>3 DEF Later
<1>5. faults \in [queries : Nat, lost : Nat, noise : Nat, missed : Nat]
  BY DEF FindInv, AgeInv
<1>6. FaultsOK
  <2>1. faults.missed + 1 \in Nat
    BY <1>5
  <2>2. faults' = faults \/ faults' = [faults EXCEPT !.missed = faults.missed + 1]
    <3> HIDE DEF s, t
    <3> QED BY TickSearch DEF s
  <2> QED BY <1>5, <2>1, <2>2 DEF FaultsOK
<1>7. /\ t.done = s.done /\ t.age = age /\ t.state # "INIT" /\ t.since <= Resend + 1
      /\ t.state # "OFF" /\ t.age <= Timeout => t.since <= Resend
  <2>1. t.done = s.done /\ t.age = age
    BY TickSearch
  <2>2. CASE s.state = "OFF"
    <3>1. t.state = "OFF" /\ t.since = since
      BY <2>2, TickSearch
    <3> HIDE DEF s, t, age, since
    <3> QED BY <1>4, <2>1, <3>1
  <2>3. CASE s.state # "OFF" /\ age > Timeout
    <3>1. t.state \in {"OFF", "RUNNING"} /\ t.since = since
      BY <2>3, TickSearch
    <3> HIDE DEF s, t, age, since
    <3> QED BY <1>2, <1>4, <2>1, <2>3, <3>1
  <2>4. CASE s.state # "OFF" /\ ~(age > Timeout) /\ (s.state = "INIT" \/ since > Resend)
    <3>1. t.state = "RUNNING" /\ t.since \in {0, Resend}
      BY <2>4, TickSearch
    <3> HIDE DEF s, t, age, since
    <3> QED BY <1>2, <2>1, <3>1
  <2>5. CASE s.state # "OFF" /\ ~(age > Timeout) /\ ~(s.state = "INIT" \/ since > Resend)
    <3>1. t.state = s.state /\ t.since = since
      BY <2>5, TickSearch
    <3> HIDE DEF s, t, age, since
    <3> QED BY <1>2, <1>4, <2>1, <2>5, <3>1
  <2> QED BY <2>2, <2>3, <2>4, <2>5
<1> HIDE DEF age, since
<1> QED BY <1>1, <1>6, <1>7 DEF AgeInv, Waiting, FaultsOK

\* A question is answered before the next tick but one; one that had to wait for
\* room counts as missed, and is asked again at the next tick.
LEMMA TickRounds ==
    ASSUME FindInv, Tick, caller \in chain
    PROVE  RoundsInv'
<1> DEFINE s == search[caller]
           t == search'[caller]
           age == Later(s.age, Timeout)
           since == Later(s.since, Resend)
<1>1. /\ caller # 0 /\ caller \in Addresses /\ s \in SearchRecord /\ ~s.done
      /\ caller' = caller /\ chain' = chain /\ present' = present
      /\ backlog = 0 /\ under_way = {} /\ backlog' = Len(queue')
  BY DEF Tick, InTime, FindInv, QueryInv, TypeOK, ChainInv
<1>2. t.found = s.found /\ t.addressed = s.addressed /\ t.age = age
  BY TickSearch
<1>3. faults.missed \in Nat /\ faults \in [queries : Nat, lost : Nat, noise : Nat, missed : Nat]
  BY DEF FindInv, AgeInv
<1>4. /\ s.age \in Nat /\ s.since \in Nat /\ Resend \in Nat /\ Resend >= 2
      /\ Timeout \in Nat /\ Timeout > 2 * Resend + 4
  BY <1>1, MdnsQueryAssumption, RoundsAssumption DEF SearchRecord
<1>5. \/ faults' = faults
      \/ ~HasRoom /\ faults' = [faults EXCEPT !.missed = faults.missed + 1]
  <2> HIDE DEF s, t
  <2> QED BY TickSearch DEF s
<1>6. faults.missed <= faults'.missed /\ faults'.missed \in Nat
  BY <1>3, <1>5
<1> SUFFICES ASSUME ~Full(t), faults'.missed <= 1, NEW r \in present, r \notin t.addressed
             PROVE  /\ t.state # "OFF"
                    /\ Rounds(Needed(r))' \/ (Coming(r)' /\ Rounds(Needed(r) - 1)')
  BY <1>1 DEF RoundsInv, Full
<1>7. /\ s.state # "OFF"
      /\ Rounds(Needed(r)) \/ (Coming(r) /\ Rounds(Needed(r) - 1))
  BY <1>1, <1>2, <1>3, <1>6 DEF FindInv, RoundsInv, Full
<1>8. Needed(r) \in 1 .. 3
  BY <1>3, <1>6, NeededRange DEF FindInv
<1>9. Needed(r)' \in 1 .. 3 /\ Needed(r)' = Needed(r) - (faults'.missed - faults.missed)
  BY <1>1, <1>2, <1>3, <1>6 DEF Needed
<1>10. \A i \in DOMAIN queue : i \in Nat \ {0} /\ i <= Len(queue)
  BY Places DEF FindInv, QueryInv
<1>11. Coming(r) => /\ s.since = 0 /\ s.age < Timeout
                    /\ \E i \in Queued("answer") : queue[i].from = r
  BY <1>1, <1>4, <1>10 DEF Coming, Queued
<1>12. ASSUME NEW n \in 1 .. 3
       PROVE  n * (Resend + 1) = (n - 1) * (Resend + 1) + (Resend + 1)
  <2>1. n = 1 \/ n = 2 \/ n = 3
    OBVIOUS
  <2> QED BY <1>4, <2>1
\* The question is queued.
<1>13. ASSUME queue' = Append(queue, [type |-> "send", search |-> caller]),
              t.since = 0, t.age < Timeout
       PROVE  Coming(r)'
  <2> DEFINE x == [type |-> "send", search |-> caller]
  <2>1. x \in Action /\ x.type = "send" /\ x.search = caller
    BY <1>1 DEF Action
  <2>2. queue' = Append(queue, x)
    BY <1>13
  <2> HIDE DEF x
  <2>3. /\ queue' \in Seq(Action) /\ queue'[Len(queue) + 1] = x
        /\ Queued("send")' = Queued("send") \cup {Len(queue) + 1}
        /\ Len(queue) + 1 \in DOMAIN queue'
    BY <2>1, <2>2, LongerQueue DEF FindInv, QueryInv
  <2>4. Len(queue) + 1 <= backlog'
    BY <1>1, <2>3, LenProperties
  <2>5. \E i \in Queued("send")' : queue'[i].search = caller /\ i <= backlog'
    BY <2>1, <2>3, <2>4
  <2>6. t.since <= 1 /\ t.age < Timeout + t.since
    BY <1>4, <1>13
  <2> QED BY <1>1, <1>13, <2>5, <2>6, Zenon DEF Coming
<1>14. CASE s.state = "INIT"
  <2>1. s.age \in {0, 1}
    BY <1>1, <1>14 DEF FindInv, AgeInv, Waiting
  <2>2. age = s.age + 1 /\ ~(age > Timeout)
    BY <1>4, <2>1 DEF Later
  <2>3. CASE HasRoom
    <3>1. /\ t.state = "RUNNING" /\ t.since = 0 /\ faults' = faults
          /\ queue' = Append(queue, [type |-> "send", search |-> caller])
      BY <1>7, <1>14, <2>2, <2>3, TickSearch
    <3>2. Coming(r)'
      BY <1>2, <1>4, <1>13, <2>1, <2>2, <3>1
    <3>3. t.age + 2 * (Resend + 1) < Timeout + t.since
      BY <1>2, <1>4, <2>1, <2>2, <3>1
    <3>4. Needed(r)' \in {1, 2, 3}
      BY <1>9
    <3>5. Rounds(Needed(r) - 1)'
      <4>1. t.age \in Nat /\ t.since \in Nat
        BY <1>2, <1>4, <2>1, <2>2, <3>1
      <4>2. \A n \in {0, 1, 2} : n = 0 \/ t.age + n * (Resend + 1) < Timeout + t.since
        <5> HIDE DEF t
        <5> QED BY <1>4, <3>3, <4>1
      <4>3. Needed(r)' - 1 \in {0, 1, 2}
        BY <3>4
      <4> HIDE DEF t
      <4> QED BY <1>1, <4>2, <4>3 DEF Rounds, t
    <3> QED BY <3>1, <3>2, <3>5
  <2>4. CASE ~HasRoom
    <3>1. /\ t.state = "RUNNING" /\ t.since = Resend
          /\ faults' = [faults EXCEPT !.missed = faults.missed + 1]
      BY <1>7, <1>14, <2>2, <2>4, TickSearch
    <3>2. faults'.missed = faults.missed + 1
      BY <1>3, <3>1
    <3>3. Needed(r)' \in {1, 2}
      BY <1>3, <1>8, <1>9, <3>2
    <3>4. t.age \in Nat /\ t.age + 2 * (Resend + 1) < Timeout + t.since
      BY <1>2, <1>4, <2>1, <2>2, <3>1
    <3>5. Rounds(Needed(r))'
      <4> HIDE DEF t
      <4> QED BY <1>1, <1>4, <3>1, <3>3, <3>4 DEF Rounds, t
    <3> QED BY <3>1, <3>5
  <2> QED BY <2>3, <2>4
<1>15. CASE s.state # "INIT"
  <2>1. s.since <= Resend + 1 /\ (s.age <= Timeout => s.since <= Resend)
    BY <1>1, <1>7, <1>15 DEF FindInv, AgeInv, Waiting
  <2>2. s.age < Timeout /\ s.since <= Resend
    <3>1. CASE Coming(r)
      BY <1>4, <1>11, <3>1
    <3>2. CASE Rounds(Needed(r))
      <4>1. Rounds(1)
        BY <1>1, <1>8, <3>2, FewerRounds DEF FindInv
      <4>2. s.age + (Resend + 1) < Timeout + s.since
        BY <1>4, <1>15, <4>1 DEF Rounds
      <4> QED BY <1>4, <2>1, <4>2
    <3> QED BY <1>7, <3>1, <3>2
  <2>3. age = s.age + 1 /\ since = s.since + 1 /\ ~(age > Timeout)
    BY <1>4, <2>2 DEF Later
  \* Not yet time to ask again.
  <2>4. CASE s.since < Resend
    <3>1. t.state = s.state /\ t.since = since /\ queue' = queue /\ faults' = faults
      BY <1>4, <1>7, <1>15, <2>3, <2>4, TickSearch
    <3>2. \A n : Rounds(n) /\ n \in 0 .. 3 => Rounds(n)'
      <4>1. ASSUME NEW n \in 0 .. 3, Rounds(n)
            PROVE  n = 0 \/ t.age + n * (Resend + 1) < Timeout + t.since
        <5>1. n = 0 \/ s.age + n * (Resend + 1) < Timeout + s.since
          BY <1>15, <4>1 DEF Rounds
        <5>2. n * (Resend + 1) \in Nat
          BY <1>4
        <5>3. t.age = s.age + 1 /\ t.since = s.since + 1
          BY <1>2, <2>3, <3>1
        <5> HIDE DEF s, t
        <5> QED BY <1>4, <5>1, <5>2, <5>3
      <4> HIDE DEF t
      <4> QED BY <1>1, <4>1 DEF Rounds, t
    <3>3. Needed(r)' = Needed(r)
      BY <1>3, <1>8, <1>9, <3>1
    <3>4. Coming(r) => Coming(r)'
      <4> SUFFICES ASSUME Coming(r) PROVE Coming(r)'
        OBVIOUS
      <4>1. t.since = 1 /\ t.age < Timeout + 1
        BY <1>2, <1>4, <1>11, <2>3, <3>1
      <4>2. \E i \in Queued("answer")' : queue'[i].from = r /\ i <= backlog'
        BY <1>1, <1>10, <1>11, <3>1 DEF Queued
      <4> HIDE DEF t
      <4> QED BY <1>1, <4>1, <4>2 DEF Coming, t
    <3>5. ASSUME Rounds(Needed(r)) PROVE Rounds(Needed(r))'
      BY <1>8, <3>2, <3>3, <3>5
    <3>6. ASSUME Rounds(Needed(r) - 1) PROVE Rounds(Needed(r) - 1)'
      <4>1. Needed(r) - 1 \in 0 .. 3
        BY <1>8
      <4> QED BY <3>2, <3>3, <3>6, <4>1
    <3> QED BY <1>7, <3>1, <3>4, <3>5, <3>6
  \* The next round.
  <2>5. CASE s.since = Resend
    <3>1. s.age + Needed(r) * (Resend + 1) < Timeout + Resend
      <4>1. ~Coming(r)
        BY <1>4, <1>11, <2>5
      <4> QED BY <1>7, <1>8, <1>15, <2>5, <4>1 DEF Rounds
    <3>2. (Needed(r) - 1) * (Resend + 1) \in Nat
      BY <1>4, <1>8
    <3>3. s.age + (Needed(r) - 1) * (Resend + 1) + (Resend + 1) < Timeout + Resend
      <4>1. Needed(r) * (Resend + 1) = (Needed(r) - 1) * (Resend + 1) + (Resend + 1)
        BY <1>8, <1>12
      <4>2. Needed(r) * (Resend + 1) \in Nat
        BY <1>4, <1>8
      <4> QED BY <1>4, <3>1, <3>2, <4>1, <4>2
    <3>4. t.age + (Needed(r) - 1) * (Resend + 1) < Timeout /\ t.age \in Nat
      BY <1>2, <1>4, <2>3, <3>2, <3>3
    <3>5. CASE HasRoom
      <4>1. /\ t.state = "RUNNING" /\ t.since = 0 /\ faults' = faults
            /\ queue' = Append(queue, [type |-> "send", search |-> caller])
        BY <1>4, <1>7, <2>3, <2>5, <3>5, TickSearch
      <4>2. Needed(r)' = Needed(r)
        BY <1>3, <1>8, <1>9, <4>1
      <4>3. Coming(r)'
        BY <1>4, <1>13, <3>2, <3>4, <4>1
      <4>4. Rounds(Needed(r) - 1)'
        <5>1. t.age + (Needed(r) - 1) * (Resend + 1) < Timeout + t.since
          BY <1>4, <3>4, <4>1
        <5> HIDE DEF t
        <5> QED BY <1>1, <4>2, <5>1 DEF Rounds, t
      <4> QED BY <4>1, <4>3, <4>4
    <3>6. CASE ~HasRoom
      <4>1. /\ t.state = "RUNNING" /\ t.since = Resend
            /\ faults' = [faults EXCEPT !.missed = faults.missed + 1]
        BY <1>4, <1>7, <2>3, <2>5, <3>6, TickSearch
      <4>2. faults'.missed = faults.missed + 1
        BY <1>3, <4>1
      <4>3. Needed(r)' = Needed(r) - 1
        BY <1>3, <1>8, <1>9, <4>2
      <4>4. t.age + (Needed(r) - 1) * (Resend + 1) < Timeout + t.since
        BY <1>4, <3>2, <3>4, <4>1
      <4>5. Rounds(Needed(r))'
        <5> HIDE DEF t
        <5> QED BY <1>1, <4>3, <4>4 DEF Rounds, t
      <4> QED BY <4>1, <4>5
    <3> QED BY <3>5, <3>6
  <2> QED BY <1>4, <2>2, <2>4, <2>5
<1> QED BY <1>14, <1>15

-----------------------------------------------------------------------------
LEMMA InitFind == Init => FindInv
<1> SUFFICES ASSUME Init PROVE FindInv
  OBVIOUS
<1>1. caller = 0 /\ faults \in [queries : Nat, lost : Nat, noise : Nat, missed : Nat]
  BY DEF Init
<1> QED BY <1>1, InitQuery DEF FindInv, AgeInv, Waiting, RoundsInv

LEMMA NextFind == FindInv /\ [Next]_vars => FindInv'
<1> SUFFICES ASSUME FindInv, [Next]_vars PROVE AgeInv' /\ RoundsInv'
  BY NextQuery DEF FindInv
<1>1. CASE \E a \in Addresses : Query(a)
  BY <1>1, QueryFind
<1>2. CASE Return
  BY <1>2, ReturnFind
<1>3. CASE Tick
  BY <1>3, TickOutside, TickAge, TickRounds
<1>4. CASE Task
  BY <1>4, AddFind, SendFind, EndFind, AnswerFind, OtherFind DEF Task
<1>5. CASE \E r \in Responders : Answer(r)
  BY <1>5, ComeInFind
<1>6. CASE Noise
  BY <1>6, NoiseFind
<1>7. CASE UNCHANGED vars
  <2>1. QueryInv' /\ KeptFrom(0)
    BY <1>7, NextQuery, SameKept DEF FindInv, QueryInv, vars
  <2>2. FaultsOK /\ faults.missed <= faults'.missed
    BY <1>7 DEF vars, FaultsOK, FindInv, AgeInv
  <2>3. ASSUME NEW r \in present, Coming(r) PROVE Coming(r)'
    BY <1>7, <2>3 DEF vars, Coming, Queued
  <2> QED BY <1>7, <2>1, <2>2, <2>3, FrameFind DEF vars
<1> QED BY <1>1, <1>2, <1>3, <1>4, <1>5, <1>6, <1>7 DEF Next

(* One answer that is lost, dropped at the full queue, or one question     *)
(* that had to wait for room does not keep a search from its result: when  *)
(* it ends without being full it has found every controller that answers,  *)
(* with its address, for every number of them and every length of the      *)
(* queue (_mdns_search_run, mdns.c:5308-5335).  Three rounds are needed    *)
(* where the A record comes before the SRV record: there the first answer  *)
(* makes the row, the next one fills it, and one may be lost.              *)
THEOREM SearchFindsAll == Spec => []FindsAll
<1>1. FindInv => FindsAll
  <2> SUFFICES ASSUME FindInv, caller # 0, search[caller].done, ~Full(search[caller]),
                      faults.missed <= 1, NEW r \in present, r \notin search[caller].addressed
               PROVE  FALSE
    BY DEF FindsAll
  <2>1. search[caller].state = "OFF"
    BY DEF FindInv, AgeInv
  <2> QED BY <2>1 DEF FindInv, RoundsInv
<1> QED BY <1>1, InitFind, NextFind, PTL DEF Spec
=============================================================================
