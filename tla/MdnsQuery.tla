----------------------------- MODULE MdnsQuery -----------------------------
(***************************************************************************)
(* The search find_mdns starts (main/tools/smqmdns.cpp): the event loop    *)
(* waits in mdns_query_ptr for the controllers on the network, while the   *)
(* timer asks again and finally ends the search, and the mdns task         *)
(* collects the results (managed_components/espressif__mdns/mdns.c).       *)
(*                                                                         *)
(* A search is named by its address, which the next search may get again.  *)
(* Time is counted from the start of the search, in ticks of the timer.    *)
(* Responders are others: each announces one instance, and answers with an *)
(* authoritative response, as RFC 6762 demands.  The service is our own    *)
(* too, so that the PTR records count as ours and the results come from    *)
(* SRV and A records.  TXT records find their row or make it as SRV        *)
(* records do, and are left out.                                           *)
(***************************************************************************)
EXTENDS Naturals, Sequences, FiniteSets, SequencesExt

CONSTANTS Responders,     \* those that may offer the service
          AddressFirst,   \* those that send their A record before their SRV record
          Addresses,      \* where a search may be allocated
          MaxResults,     \* max_results of the query
          Resend,         \* ticks (of 100 ms) after which a search is sent again
          Timeout,        \* ticks after which it is ended
          QueueLength,    \* MDNS_ACTION_QUEUE_LEN
          MaxQueries,     \* bound: queries
          MaxLost,        \* bound: datagrams lost on the network
          MaxNoise        \* bound: datagrams nobody asked for

ASSUME MdnsQueryAssumption ==
    /\ AddressFirst \subseteq Responders
    /\ 0 \notin Addresses
    /\ {MaxResults, Resend, Timeout, QueueLength} \subseteq Nat \ {0}

(* There is time for three rounds of questions: 1000 ms of 3000 ms.        *)
ASSUME RoundsAssumption ==
    /\ IsFiniteSet(Responders)
    /\ Resend >= 2 /\ Timeout > 2 * Resend + 4

VARIABLES
    present,    \* the responders that answer
    caller,     \* the search the event loop waits for, or 0
    search,     \* search[a]: the search at address a, as long as it is allocated
    chain,      \* _mdns_server->search_once
    queue,      \* the action queue of the mdns task
    backlog,    \* how many of its actions were there at the last tick
    under_way,  \* the responders whose answer is under way
    faults      \* counts what went wrong, for the bounds and FindsAll

vars == <<present, caller, search, chain, queue, backlog, under_way, faults>>

Free == [state |-> "free", age |-> 0, since |-> 0, done |-> FALSE,
         found |-> {}, addressed |-> {}]

(* _mdns_search_init; a search not sent yet has no age of its last packet. *)
NewSearch == [Free EXCEPT !.state = "INIT"]

HasRoom == Len(queue) < QueueLength

(* Capped where the code no longer tells times apart. *)
Later(n, limit) == IF n > limit THEN n ELSE n + 1

(***************************************************************************)
(* The caller: query_mdns_service and mdns_query_generic.                  *)
(***************************************************************************)

(* Without room in the queue the query fails, and the search is freed.     *)
Query(a) ==
    /\ caller = 0 /\ search[a].state = "free"
    /\ faults.queries < MaxQueries
    /\ HasRoom
    /\ caller' = a
    /\ search' = [search EXCEPT ![a] = NewSearch]
    /\ queue' = Append(queue, [type |-> "add", search |-> a])
    /\ faults' = [faults EXCEPT !.queries = @ + 1, !.missed = 0]
    /\ UNCHANGED <<present, chain, backlog, under_way>>

(* The semaphore was given: the results are printed and all is freed. *)
Return ==
    /\ caller # 0 /\ search[caller].done
    /\ search' = [search EXCEPT ![caller] = Free]
    /\ caller' = 0
    /\ UNCHANGED <<present, chain, queue, backlog, under_way, faults>>

(***************************************************************************)
(* The timer: _mdns_search_run, with the mutex of the service.             *)
(***************************************************************************)
Aged(s) == [s EXCEPT !.age = Later(@, Timeout), !.since = Later(@, Resend)]

(* Faulty: the end of a search is queued once, with room or without. *)
TimedOnce(s) ==
    IF s.state # "OFF" /\ s.age > Timeout
    THEN [s |-> [s EXCEPT !.state = "OFF"], wants |-> "end"]
    ELSE IF s.state # "OFF" /\ (s.state = "INIT" \/ s.since > Resend)
    THEN [s |-> [s EXCEPT !.state = "RUNNING", !.since = IF HasRoom THEN 0 ELSE Resend],
          wants |-> "send"]
    ELSE [s |-> s, wants |-> "nothing"]

(* What the timer makes of a search, and the action it queues for it, if   *)
(* there is room.                                                          *)
Timed(s) ==
    IF s.state = "OFF" THEN [s |-> s, wants |-> "nothing"]
    ELSE IF s.age > Timeout
    THEN [s |-> [s EXCEPT !.state = IF HasRoom THEN "OFF" ELSE "RUNNING"], wants |-> "end"]
    ELSE IF s.state = "INIT" \/ s.since > Resend
    THEN [s |-> [s EXCEPT !.state = "RUNNING", !.since = IF HasRoom THEN 0 ELSE Resend],
          wants |-> "send"]
    ELSE [s |-> s, wants |-> "nothing"]

(* Answers come within a tick, and the task has handled by the next tick   *)
(* what was queued at this one.                                            *)
InTime == backlog = 0 /\ under_way = {}

Tick ==
    /\ caller # 0 /\ InTime
    /\ LET a == caller
           timed == Timed(Aged(search[a]))
       IN  IF a \in chain
           THEN /\ search' = [search EXCEPT ![a] = timed.s]
                /\ queue' = IF timed.wants # "nothing" /\ HasRoom
                            THEN Append(queue, [type |-> timed.wants, search |-> a])
                            ELSE queue
                /\ faults' = [faults EXCEPT !.missed =
                                  IF timed.wants = "send" /\ ~HasRoom THEN @ + 1 ELSE @]
           ELSE /\ search' = [search EXCEPT ![a] = Aged(@)]
                /\ UNCHANGED <<queue, faults>>
    /\ backlog' = Len(queue')
    /\ UNCHANGED <<present, caller, chain, under_way>>

(***************************************************************************)
(* The mdns task.                                                          *)
(***************************************************************************)
Is(type) == queue # <<>> /\ Head(queue).type = type

Taken == /\ queue' = Tail(queue)
         /\ backlog' = IF backlog > 0 THEN backlog - 1 ELSE 0

Add == /\ Is("add") /\ Taken
       /\ chain' = chain \cup {Head(queue).search}
       /\ UNCHANGED <<present, caller, search, under_way, faults>>

(* Faulty: whoever was found is named, with its address or without. *)
AskedNew(a) == IF a \in chain THEN present \ search[a].found ELSE {}

(* Those already found with their address are named in the question and   *)
(* keep silent; an action for a search that is no longer in the chain is   *)
(* skipped.                                                                *)
Asked(a) == IF a \in chain THEN present \ search[a].addressed ELSE {}

SendSearch ==
    /\ Is("send") /\ Taken
    /\ \E missing \in SUBSET Asked(Head(queue).search) :
           /\ faults.lost + Cardinality(missing) <= MaxLost
           /\ under_way' = under_way \cup (Asked(Head(queue).search) \ missing)
           /\ faults' = [faults EXCEPT !.lost = @ + Cardinality(missing),
                                       !.missed = @ + Cardinality(missing)]
    /\ UNCHANGED <<present, caller, search, chain>>

(* _mdns_search_finish: whoever waits for this search may go on. *)
Finished(s) == [s EXCEPT !.state = "OFF", !.done = TRUE]

EndSearch ==
    LET a == Head(queue).search IN
    /\ Is("end") /\ Taken
    /\ search' = [search EXCEPT ![a] = Finished(@)]
    /\ chain' = chain \ {a}
    /\ UNCHANGED <<present, caller, under_way, faults>>

(* Faulty: a search that is off still collects. *)
CollectsLate(a) == a \in chain

(* _mdns_search_find_from passes over a search that is off. *)
Collects(a) == a \in chain /\ search[a].state # "OFF"

Full(s) == Cardinality(s.found) >= MaxResults

(* An SRV record makes a row, if there is room for it; an A record finds   *)
(* its row by the host name of the SRV record.                             *)
OnSrv(s, r) == IF Full(s) THEN s ELSE [s EXCEPT !.found = @ \cup {r}]
OnA(s, r) == IF r \in s.found THEN [s EXCEPT !.addressed = @ \cup {r}] ELSE s

OnAnswer(s, r) == IF r \in AddressFirst THEN OnSrv(OnA(s, r), r) ELSE OnA(OnSrv(s, r), r)

(* mdns_parse_packet for an answer, ending in _mdns_search_finish_done. *)
ReceiveAnswer ==
    /\ Is("answer") /\ Taken
    /\ LET r == Head(queue).from
           got == [a \in Addresses |-> IF Collects(a) THEN OnAnswer(search[a], r)
                                                     ELSE search[a]]
           full == {a \in chain : Full(got[a])}
       IN  /\ search' = [a \in Addresses |-> IF a \in full THEN Finished(got[a]) ELSE got[a]]
           /\ chain' = chain \ full
    /\ UNCHANGED <<present, caller, under_way, faults>>

ReceiveOther ==
    /\ Is("other") /\ Taken
    /\ UNCHANGED <<present, caller, search, chain, under_way, faults>>

Task == Add \/ SendSearch \/ EndSearch \/ ReceiveAnswer \/ ReceiveOther

(***************************************************************************)
(* Datagrams come in: _udp_recv.  Without room they are dropped.           *)
(***************************************************************************)
Answer(r) ==
    /\ r \in under_way
    /\ under_way' = under_way \ {r}
    /\ queue' = IF HasRoom THEN Append(queue, [type |-> "answer", from |-> r]) ELSE queue
    /\ faults' = [faults EXCEPT !.missed = IF HasRoom THEN @ ELSE @ + 1]
    /\ UNCHANGED <<present, caller, search, chain, backlog>>

(* Unasked for: the announcement of a responder, perhaps one that has just *)
(* come, or anything else.                                                 *)
Noise ==
    /\ faults.noise < MaxNoise
    /\ HasRoom
    /\ \/ \E r \in Responders : queue' = Append(queue, [type |-> "answer", from |-> r])
       \/ queue' = Append(queue, [type |-> "other"])
    /\ faults' = [faults EXCEPT !.noise = @ + 1]
    /\ UNCHANGED <<present, caller, search, chain, backlog, under_way>>

Init ==
    /\ present \in SUBSET Responders
    /\ caller = 0
    /\ search = [a \in Addresses |-> Free]
    /\ chain = {}
    /\ queue = <<>> /\ backlog = 0
    /\ under_way = {}
    /\ faults = [queries |-> 0, lost |-> 0, noise |-> 0, missed |-> 0]

Next == \/ \E a \in Addresses : Query(a)
        \/ Return
        \/ Tick
        \/ Task
        \/ \E r \in Responders : Answer(r)
        \/ Noise

Spec == Init /\ [][Next]_vars

(* The tasks and the timer of the controller run; answers arrive. *)
FairSpec == /\ Spec
            /\ WF_vars(Return) /\ WF_vars(Tick) /\ WF_vars(Task)
            /\ \A r \in Responders : WF_vars(Answer(r))

(***************************************************************************)
(* Properties.                                                             *)
(***************************************************************************)

(* _mdns_search_finish is called without looking the search up             *)
(* (ACTION_SEARCH_END, mdns.c:5187), so the search of such an action must  *)
(* still wait for its end: it is in the chain, allocated, and not done.    *)
(* Otherwise freed memory is written, or the next search at the same       *)
(* address ends before its time.                                           *)
EndsItsSearch == \A i \in DOMAIN queue :
    queue[i].type = "end" =>
        /\ queue[i].search = caller /\ caller \in chain
        /\ search[caller].state = "OFF" /\ ~search[caller].done
        /\ \A j \in DOMAIN queue : queue[j] = queue[i] => j = i

(* Asking three times makes up for one loss: when a query ends without     *)
(* being full, it has found all that answer, with their addresses,         *)
(* although one datagram was lost, dropped at the full queue, or one       *)
(* question was late (_mdns_search_run, mdns.c:5308-5335).                 *)
FindsAll ==
    (caller # 0 /\ search[caller].done /\ ~Full(search[caller]) /\ faults.missed <= 1)
        => present \subseteq search[caller].addressed

(* The event loop, which waits without a limit (portMAX_DELAY), gets its   *)
(* answer, although the end of the search may not fit into the queue.      *)
QueryReturns == caller # 0 ~> caller = 0

(***************************************************************************)
(* The inductive invariant behind EndsItsSearch (MdnsQueryProofs).         *)
(***************************************************************************)
SearchRecord == [state : {"free", "INIT", "RUNNING", "OFF"}, age : Nat, since : Nat,
                 done : BOOLEAN, found : SUBSET Responders, addressed : SUBSET Responders]

Action == [type : {"add", "send", "end"}, search : Addresses]
          \cup [type : {"answer"}, from : Responders] \cup [type : {"other"}]

TypeOK == /\ present \in SUBSET Responders
          /\ caller \in Addresses \cup {0}
          /\ search \in [Addresses -> SearchRecord]
          /\ chain \in SUBSET Addresses
          /\ queue \in Seq(Action)
          /\ backlog \in Nat
          /\ under_way \in SUBSET Responders

(* A search in the chain is the one the event loop waits for; it is not    *)
(* done, and it still has room for a result.                               *)
ChainInv == /\ chain \subseteq {caller}
            /\ \A a \in chain : ~search[a].done /\ ~Full(search[a])

(* What is queued for a search is queued once: to add it, before it is in  *)
(* the chain, and to end it, when the timer has turned it off.             *)
Queued(type) == {i \in DOMAIN queue : queue[i].type = type}

AddInv == \A i \in Queued("add") :
    /\ queue[i].search = caller /\ caller \in Addresses /\ chain = {}
    /\ ~search[caller].done /\ ~Full(search[caller])
    /\ Queued("add") = {i}

EndInv == \A i \in Queued("end") :
    /\ queue[i].search = caller /\ chain = {caller}
    /\ search[caller].state = "OFF"
    /\ Queued("end") = {i}

QueryInv == TypeOK /\ ChainInv /\ AddInv /\ EndInv

(***************************************************************************)
(* The inductive invariant behind FindsAll: whatever is lost, the rounds   *)
(* of questions that are left are enough for every responder.              *)
(***************************************************************************)
Waiting == caller # 0 /\ ~search[caller].done

(* A search is added within two ticks, and asks at the next one; from then *)
(* on it asks every Resend + 1 ticks.                                      *)
AgeInv ==
    /\ faults \in [queries : Nat, lost : Nat, noise : Nat, missed : Nat]
    /\ caller # 0 /\ search[caller].done => search[caller].state = "OFF"
    /\ Waiting =>
        LET s == search[caller] IN
        /\ caller \notin chain => s.state = "INIT" /\ Queued("add") # {}
        /\ s.state = "INIT" =>
              /\ s.age \in {0, 1}
              /\ caller \notin chain /\ s.age = 1 => \E i \in Queued("add") : i <= backlog
        /\ s.since <= Resend + 1
        /\ s.state \notin {"INIT", "OFF"} /\ s.age <= Timeout => s.since <= Resend

(* The search will ask n times more, the last time early enough for the    *)
(* answers to come.                                                        *)
Rounds(n) ==
    LET s == search[caller]
    IN  n = 0 \/ s.state = "INIT" \/ s.age + n * (Resend + 1) < Timeout + s.since

(* An answer of r comes by the second tick after the question.             *)
Coming(r) ==
    /\ caller \in chain
    /\ search[caller].since <= 1 /\ search[caller].age < Timeout + search[caller].since
    /\ \/ /\ search[caller].since = 0
          /\ \/ r \in under_way
             \/ \E i \in Queued("send") : queue[i].search = caller /\ i <= backlog
             \/ \E i \in Queued("answer") : queue[i].from = r
       \/ \E i \in Queued("answer") : queue[i].from = r /\ i <= backlog

(* The answers it takes to get the address of r, and one that may get lost.*)
Needed(r) == 2 - faults.missed + IF r \in AddressFirst \ search[caller].found THEN 1 ELSE 0

RoundsInv ==
    (caller # 0 /\ ~Full(search[caller]) /\ faults.missed <= 1) =>
        \A r \in present \ search[caller].addressed :
            /\ search[caller].state # "OFF"
            /\ Rounds(Needed(r)) \/ (Coming(r) /\ Rounds(Needed(r) - 1))

FindInv == QueryInv /\ AgeInv /\ RoundsInv
=============================================================================
