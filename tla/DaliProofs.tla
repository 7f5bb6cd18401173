----------------------------- MODULE DaliProofs -----------------------------
(***************************************************************************)
(* The line and the commands that go over it.                              *)
(*                                                                         *)
(* DaliLink: as long as one task uses the line and asks with send_receive, *)
(* it gets the answer to its own question, however often it asks and       *)
(* however often the supply fails.  With a second task on the line this is *)
(* not so, and the theorems say so in their assumption.  For any number of *)
(* tasks the driver implements DaliCall.                                   *)
(*                                                                         *)
(* DeviceCommands: for any number of commands, faults and values, what a   *)
(* command leaves in the lamp and in its row, and what its reply says.     *)
(***************************************************************************)
EXTENDS DaliLink, DeviceCommands, SequenceTheorems, TLAPS

-----------------------------------------------------------------------------
(* DaliLink *)

LEMMA InitLink == LinkInit => LinkInv
BY DEF LinkInit, LinkInv, AskInv, Quiet, AnswerUnderWay, Places

-----------------------------------------------------------------------------
(* The steps of the caller *)

LEMMA CallLink ==
    ASSUME LinkInv, NEW c \in Caller, Caller = {c}, NEW o \in Op, Call(c, o)
    PROVE  LinkInv'
<1>1. /\ pc' = [pc EXCEPT ![c] = IF o = "send" THEN "off" ELSE "wait"]
      /\ op' = [op EXCEPT ![c] = o] /\ pc[c] = "idle"
      /\ mixed' = (mixed \/ o # "ask") /\ late' = late
  BY DEF Call, history
<1>2. /\ pc' \in [Caller -> Places] /\ DOMAIN op' = Caller /\ DOMAIN call' = Caller
      /\ DOMAIN answer' = Caller /\ mixed' \in BOOLEAN /\ late' \in BOOLEAN
  BY <1>1 DEF LinkInv, Places, Call
<1>3. ASSUME ~late', ~mixed' PROVE AskInv(c)'
  <2>1. o = "ask" /\ ~late /\ ~mixed /\ AskInv(c) /\ Quiet
    BY <1>1, <1>3 DEF LinkInv, AskInv
  <2>2. pc'[c] = "wait" /\ op'[c] = "ask"
    BY <1>1, <2>1 DEF LinkInv
  <2>3. ~Olcum_Ready' /\ Quiet'
    BY <2>1 DEF Call, Quiet, receiver
  <2> QED BY <2>2, <2>3 DEF AskInv
<1> QED BY <1>2, <1>3 DEF LinkInv

\* Steps of the caller between its call and its return.
LEMMA TaskTypes ==
    ASSUME LinkInv, NEW c \in Caller, Task(c)
    PROVE  /\ pc' \in [Caller -> Places]
           /\ DOMAIN op' = Caller /\ DOMAIN call' = Caller /\ DOMAIN answer' = Caller
           /\ late' \in BOOLEAN /\ mixed' \in BOOLEAN /\ mixed' = mixed
           /\ op' = op /\ call' = call /\ adc' = adc
           /\ (~late' => ~late)
<1> USE DEF LinkInv, Places, history, watch, receiver, callers
<1>1. CASE Waited(c)
  BY <1>1 DEF Waited
<1>2. CASE Begin(c)
  BY <1>2 DEF Begin
<1>3. CASE End(c)
  BY <1>3 DEF End
<1>4. CASE Enable(c)
  BY <1>4 DEF Enable
<1>5. CASE Take(c)
  BY <1>5 DEF Take
<1>6. CASE Read(c)
  BY <1>6 DEF Read
<1>7. CASE TimesOut(c)
  BY <1>7 DEF TimesOut
<1>8. CASE Return(c)
  BY <1>8 DEF Return
<1> QED BY <1>1, <1>2, <1>3, <1>4, <1>5, <1>6, <1>7, <1>8 DEF Task

LEMMA TaskLink ==
    ASSUME LinkInv, NEW c \in Caller, Caller = {c}, Task(c)
    PROVE  LinkInv'
<1> SUFFICES ASSUME ~late', ~mixed' PROVE AskInv(c)'
  BY TaskTypes DEF LinkInv
<1>0. /\ AskInv(c) /\ op' = op /\ call' = call /\ adc' = adc /\ ~late
      /\ pc \in [Caller -> Places] /\ DOMAIN answer = Caller
  BY TaskTypes DEF LinkInv
<1> USE DEF history, watch, receiver
<1>1. CASE Waited(c)
  <2>1. /\ pc'[c] = "off" /\ pc[c] = "wait" /\ adc # "measure"
        /\ UNCHANGED <<Olcum_Ready, air, receiver, back_sem>>
    BY <1>0, <1>1 DEF Waited
  <2> QED BY <1>0, <2>1 DEF AskInv, Quiet
<1>2. CASE Begin(c)
  <2>1. /\ pc'[c] = "tx" /\ pc[c] = "off" /\ ~rx'
        /\ UNCHANGED <<Olcum_Ready, air, receiver, back_sem>>
    BY <1>0, <1>2 DEF Begin
  <2> QED BY <1>0, <2>1 DEF AskInv, Quiet
<1>3. CASE End(c)
  <2>1. /\ pc'[c] = "on" /\ pc[c] = "tx" /\ ~rx /\ rx' = rx
        /\ paket_queue' = paket_queue /\ (air' = call[c] \/ air' = air)
        /\ UNCHANGED <<Olcum_Ready, paket, back_sem>>
    BY <1>0, <1>3 DEF End, AskInv
  <2> QED BY <1>0, <2>1 DEF AskInv, Quiet, AnswerUnderWay
<1>4. CASE Enable(c)
  <2>1. /\ op[c] = "ask" /\ pc[c] = "on" /\ ~Olcum_Ready
    BY <1>0, <1>4 DEF Enable, AskInv
  <2>2. /\ pc'[c] = "listen" /\ ~Olcum_Ready'
        /\ UNCHANGED <<air, receiver, back_sem>>
    BY <1>0, <1>4, <2>1 DEF Enable
  <2> QED BY <1>0, <2>1, <2>2 DEF AskInv, Quiet, AnswerUnderWay
<1>5. CASE Take(c)
  <2>1. /\ pc'[c] = "read" /\ pc[c] = "listen" /\ back_sem /\ ~back_sem'
        /\ UNCHANGED <<Olcum_Ready, air, receiver>>
    BY <1>0, <1>5 DEF Take
  <2>2. air = Nothing /\ paket_queue = <<>> /\ paket = "receive" /\ gelen = call[c]
    BY <1>0, <2>1 DEF AskInv, Quiet, AnswerUnderWay
  <2> QED BY <1>0, <2>1, <2>2 DEF AskInv, Quiet
<1>6. CASE Read(c)
  <2>1. /\ pc'[c] = "return" /\ pc[c] = "read" /\ answer'[c] = gelen
        /\ UNCHANGED <<Olcum_Ready, air, receiver, back_sem>>
    BY <1>0, <1>6 DEF Read
  <2> QED BY <1>0, <2>1 DEF AskInv, Quiet
<1>7. CASE TimesOut(c)
  <2>1. /\ pc[c] = "listen" /\ ~back_sem /\ air = Nothing
        /\ paket_queue = <<>> /\ paket = "receive"
        /\ UNCHANGED <<Olcum_Ready, air, receiver, back_sem>>
    BY <1>0, <1>7 DEF TimesOut
  <2>2. \/ pc'[c] = "wait"
        \/ pc'[c] = "return" /\ answer'[c] = TimedOut
    BY <1>0, <1>7 DEF TimesOut
  <2> QED BY <1>0, <2>1, <2>2 DEF AskInv, Quiet
<1>8. CASE Return(c)
  <2>1. /\ pc'[c] = "idle" /\ pc[c] = "return"
        /\ UNCHANGED <<air, receiver, back_sem>>
    BY <1>0, <1>8 DEF Return
  <2> QED BY <1>0, <2>1 DEF AskInv, Quiet
<1> QED BY <1>1, <1>2, <1>3, <1>4, <1>5, <1>6, <1>7, <1>8 DEF Task

-----------------------------------------------------------------------------
(* The steps of the others *)

\* A step that leaves the caller where it is keeps the types.
LEMMA OthersLink ==
    ASSUME LinkInv, NEW c \in Caller, Caller = {c}, UNCHANGED <<callers, history>>,
           ~late /\ ~mixed /\ AskInv(c) => AskInv(c)'
    PROVE  LinkInv'
BY DEF LinkInv, callers, history

\* An answer goes one place further, or is lost.
LEMMA ArriveLink ==
    ASSUME LinkInv, NEW c \in Caller, Caller = {c}, Arrive
    PROVE  LinkInv'
<1>1. ASSUME ~late, ~mixed, AskInv(c) PROVE AskInv(c)'
  <2>0. UNCHANGED <<pc, op, call, answer, Olcum_Ready, adc, rx, paket, gelen, back_sem>>
    BY DEF Arrive, callers, watch
  <2>1. pc[c] \in Places /\ pc[c] \in {"on", "listen"}
    BY <1>1 DEF LinkInv, AskInv, Quiet, Arrive, Places
  <2>2. /\ air' = Nothing /\ air = call[c]
        /\ paket_queue = <<>> /\ paket = "receive" /\ ~back_sem
    BY <1>1, <2>1 DEF AskInv, AnswerUnderWay, Quiet, Arrive
  <2>3. paket_queue' = <<>> \/ (paket_queue' = <<call[c]>> /\ pc[c] = "listen")
    <3>1. Append(<<>>, call[c]) = <<call[c]>>
      OBVIOUS
    <3> QED BY <1>1, <2>1, <2>2, <3>1 DEF Arrive, AskInv
  <2> QED BY <1>1, <2>0, <2>1, <2>2, <2>3 DEF AskInv, AnswerUnderWay, Quiet
<1> QED BY <1>1, OthersLink DEF Arrive

LEMMA PaketWriteLink ==
    ASSUME LinkInv, NEW c \in Caller, Caller = {c}, PaketWrite
    PROVE  LinkInv'
<1>1. ASSUME ~late, ~mixed, AskInv(c) PROVE AskInv(c)'
  <2>0. UNCHANGED <<pc, op, call, answer, Olcum_Ready, adc, rx, air, back_sem>>
    BY DEF PaketWrite, callers, watch
  <2>1. pc[c] \in Places /\ pc[c] = "listen"
    BY <1>1 DEF LinkInv, AskInv, Quiet, PaketWrite, Places
  <2>2. air = Nothing /\ paket_queue = <<call[c]>> /\ paket = "receive" /\ ~back_sem
    BY <1>1, <2>1 DEF AskInv, AnswerUnderWay, Quiet, PaketWrite
  <2>3. Head(<<call[c]>>) = call[c] /\ Tail(<<call[c]>>) = <<>>
    OBVIOUS
  <2>4. gelen' = call[c] /\ paket_queue' = <<>> /\ paket' \in {"give", "receive"}
    BY <2>2, <2>3 DEF PaketWrite
  <2> QED BY <1>1, <2>0, <2>1, <2>2, <2>4 DEF AskInv, AnswerUnderWay, Quiet
<1> QED BY <1>1, OthersLink DEF PaketWrite

LEMMA PaketGiveLink ==
    ASSUME LinkInv, NEW c \in Caller, Caller = {c}, PaketGive
    PROVE  LinkInv'
<1>1. ASSUME ~late, ~mixed, AskInv(c) PROVE AskInv(c)'
  <2>0. UNCHANGED <<pc, op, call, answer, Olcum_Ready, adc, rx, air, paket_queue, gelen>>
    BY DEF PaketGive, callers, watch
  <2>1. pc[c] \in Places /\ pc[c] = "listen"
    BY <1>1 DEF LinkInv, AskInv, Quiet, PaketGive, Places
  <2>2. air = Nothing /\ paket_queue = <<>> /\ gelen = call[c]
    BY <1>1, <2>1 DEF AskInv, AnswerUnderWay, Quiet, PaketGive
  <2>3. paket' = "receive" /\ back_sem'
    BY DEF PaketGive
  <2> QED BY <1>1, <2>0, <2>1, <2>2, <2>3 DEF AskInv, AnswerUnderWay, Quiet
<1> QED BY <1>1, OthersLink DEF PaketGive

\* adc_task finds Olcum_Ready withdrawn and leaves the receiver alone.
LEMMA AdcLink ==
    ASSUME LinkInv, NEW c \in Caller, Caller = {c}, AdcCheck \/ AdcMeasure \/ AdcAgain
    PROVE  LinkInv'
<1>1. ASSUME ~late, ~mixed, AskInv(c) PROVE AskInv(c)'
  <2>0. /\ UNCHANGED <<pc, op, call, answer, Olcum_Ready, air, paket_queue, paket, gelen,
                       back_sem>>
        /\ pc[c] \in Places
    BY DEF AdcCheck, AdcMeasure, AdcAgain, callers, receiver, LinkInv
  <2>1. adc' = "measure" => pc[c] = "idle"
    BY <1>1 DEF AdcCheck, AdcMeasure, AdcAgain, AskInv
  <2>2. rx' => rx \/ pc[c] \in {"idle", "wait"}
    BY <1>1, <2>0 DEF AdcCheck, AdcMeasure, AdcAgain, AskInv, Places
  <2> QED BY <1>1, <2>0, <2>1, <2>2 DEF AskInv, AnswerUnderWay, Quiet
<1> QED BY <1>1, OthersLink DEF AdcCheck, AdcMeasure, AdcAgain

LEMMA SupplyLink ==
    ASSUME LinkInv, NEW c \in Caller, Caller = {c}, SupplyChanges \/ UNCHANGED linkVars
    PROVE  LinkInv'
<1>0. UNCHANGED <<callers, history, receiver, rx, air, back_sem, Olcum_Ready, adc>>
  BY DEF SupplyChanges, linkVars, watch
<1>1. ASSUME ~late, ~mixed, AskInv(c) PROVE AskInv(c)'
  BY <1>0, <1>1 DEF AskInv, AnswerUnderWay, Quiet, callers, receiver
<1> QED BY <1>0, <1>1, OthersLink

-----------------------------------------------------------------------------
LEMMA NextLink ==
    ASSUME NEW c, Caller = {c}, LinkInv, [LinkNext]_linkVars
    PROVE  LinkInv'
<1>1. c \in Caller
  OBVIOUS
<1>2. ASSUME LinkNext PROVE LinkInv'
  <2>1. ASSUME NEW d \in Caller, Task(d) \/ \E o \in Op : Call(d, o) PROVE LinkInv'
    BY <2>1, TaskLink, CallLink
  <2> QED BY <1>1, <1>2, <2>1, ArriveLink, PaketWriteLink, PaketGiveLink, AdcLink,
             SupplyLink DEF LinkNext
<1> QED BY <1>1, <1>2, SupplyLink

AnswersTrue == \A c \in Caller : pc[c] = "return" => answer[c] \in {call[c], TimedOut}

AnswerIsTrue == ~late /\ ~mixed => AnswersTrue

\* With one task on the line a question asked with send_receive returns its own
\* answer or none, if paket_task hands answers over in time (dali.cpp:436-460,
\* 577-584; dali_tool.cpp:550-553).
THEOREM AnswersBelongToQuestions ==
    ASSUME NEW c, Caller = {c}
    PROVE  LinkSpec => []AnswerIsTrue
<1>1. LinkInv => AnswerIsTrue
  BY DEF LinkInv, AskInv, AnswerIsTrue, AnswersTrue
<1>2. LinkInv /\ [LinkNext]_linkVars => LinkInv'
  BY NextLink
<1> QED BY <1>1, <1>2, InitLink, PTL DEF LinkSpec

\* And nothing is left in the queue or the semaphore for the next question
\* (dali.cpp:448).
THEOREM NoStaleAnswer ==
    ASSUME NEW c, Caller = {c}
    PROVE  LinkSpec => []NothingLeftBehind
<1>1. LinkInv => NothingLeftBehind
  BY DEF LinkInv, AskInv, Quiet, NothingLeftBehind
<1>2. LinkInv /\ [LinkNext]_linkVars => LinkInv'
  BY NextLink
<1> QED BY <1>1, <1>2, InitLink, PTL DEF LinkSpec

-----------------------------------------------------------------------------
(* DaliLink implements DaliCall *)

LEMMA Verdicts ==
    /\ \A n \in Nat : Verdict(Nothing, n) = "open"
    /\ \A n \in Nat : Verdict(TimedOut, n) = "none"
    /\ \A a \in Nat \cup {Junk}, n \in Nat :
          Verdict(a, n) = IF a = n THEN "own" ELSE "stray"
    /\ \A a \in Nat \cup {Junk, TimedOut}, n \in Nat : Verdict(a, n) # "open"
<1>1. ASSUME NEW n \in Nat PROVE Verdict(Nothing, n) = "open"
  BY NamesAssumption DEF Verdict
<1>2. ASSUME NEW n \in Nat PROVE Verdict(TimedOut, n) = "none"
  BY NamesAssumption DEF Verdict
<1>3. ASSUME NEW a \in Nat \cup {Junk}, NEW n \in Nat
      PROVE  Verdict(a, n) = IF a = n THEN "own" ELSE "stray"
  <2>1. a # Nothing /\ a # TimedOut
    BY NamesAssumption
  <2> QED BY <2>1 DEF Verdict
<1> QED BY <1>1, <1>2, <1>3

LEMMA InitPromise == LinkInit => PromiseInv /\ Promise!Init
<1> SUFFICES ASSUME LinkInit PROVE PromiseInv /\ Promise!Init
  OBVIOUS
<1>1. <<>> \in Seq(Nat \cup {Junk})
  OBVIOUS
<1>2. PromiseInv
  BY <1>1 DEF LinkInit, PromiseInv, HeardInv, TriesInv, Places
<1>3. Trusted \in BOOLEAN
  BY DEF Trusted, Alone
<1>4. Place = [c \in Caller |-> "idle"]
  <2>1. \A c \in Caller : pc[c] = "idle"
    BY DEF LinkInit
  <2> QED BY <2>1 DEF Place
<1>5. Outcome = [c \in Caller |-> "open"]
  <2>1. \A c \in Caller : Verdict(answer[c], call[c]) = "open"
    BY Verdicts DEF LinkInit
  <2> QED BY <2>1 DEF Outcome
<1> QED BY <1>2, <1>3, <1>4, <1>5 DEF LinkInit, Promise!Init

\* What a step changes of one task changes the abstract functions there only.
LEMMA PlaceMoves ==
    ASSUME PromiseInv, NEW c \in Caller, NEW p \in Places, pc' = [pc EXCEPT ![c] = p]
    PROVE  Place' = [Place EXCEPT ![c] = Place'[c]]
BY DEF PromiseInv, Place

LEMMA OutcomeMoves ==
    ASSUME PromiseInv, NEW c \in Caller,
           \A d \in Caller \ {c} : answer'[d] = answer[d] /\ call'[d] = call[d]
    PROVE  Outcome' = [Outcome EXCEPT ![c] = Outcome'[c]]
BY DEF PromiseInv, Outcome

LEMMA OutcomeStays ==
    ASSUME answer' = answer, call' = call
    PROVE  Outcome' = Outcome
BY DEF Outcome

LEMMA PlaceStays ==
    ASSUME pc' = pc
    PROVE  Place' = Place
BY DEF Place

\* A step that leaves the tasks and what was heard to them as it is.
LEMMA HeardStep ==
    ASSUME PromiseInv, UNCHANGED callers, HeardInv', gelen # Nothing => gelen' # Nothing
    PROVE  PromiseInv'
BY DEF PromiseInv, TriesInv, callers

LEMMA OthersPromise ==
    ASSUME PromiseInv,
           Arrive \/ PaketWrite \/ PaketGive \/ AdcCheck \/ AdcMeasure \/ AdcAgain
           \/ SupplyChanges \/ UNCHANGED linkVars
    PROVE  PromiseInv' /\ UNCHANGED <<Place, op, tries, Outcome, Trusted>>
<1>0. UNCHANGED <<callers, history>>
  BY DEF Arrive, PaketWrite, PaketGive, AdcCheck, AdcMeasure, AdcAgain, SupplyChanges, linkVars
<1>1. UNCHANGED <<Place, op, tries, Outcome, Trusted>>
  BY <1>0, PlaceStays, OutcomeStays DEF callers, history, Trusted, Alone
<1>2. HeardInv
  BY DEF PromiseInv
<1>3. CASE Arrive
  <2>1. air \in Nat \cup {Junk}
    BY <1>2, <1>3 DEF HeardInv, Arrive
  <2>2. Append(paket_queue, air) \in Seq(Nat \cup {Junk})
    BY <1>2, <2>1 DEF HeardInv
  <2>3. HeardInv'
    BY <1>2, <1>3, <2>2 DEF HeardInv, Arrive
  <2> QED BY <1>0, <1>1, <1>3, <2>3, HeardStep DEF Arrive
<1>4. CASE PaketWrite
  <2>1. Head(paket_queue) \in Nat \cup {Junk} /\ Tail(paket_queue) \in Seq(Nat \cup {Junk})
    BY <1>2, <1>4 DEF HeardInv, PaketWrite
  <2>2. HeardInv' /\ gelen' # Nothing
    BY <1>2, <1>4, <2>1, NamesAssumption DEF HeardInv, PaketWrite
  <2> QED BY <1>0, <1>1, <2>2, HeardStep
<1>5. CASE PaketGive
  <2>1. HeardInv' /\ gelen' = gelen
    BY <1>2, <1>5 DEF HeardInv, PaketGive
  <2> QED BY <1>0, <1>1, <2>1, HeardStep
<1>6. CASE AdcCheck \/ AdcMeasure \/ AdcAgain \/ SupplyChanges \/ UNCHANGED linkVars
  <2>1. UNCHANGED <<air, receiver, back_sem>>
    BY <1>6 DEF AdcCheck, AdcMeasure, AdcAgain, SupplyChanges, linkVars
  <2>2. HeardInv' /\ gelen' = gelen
    BY <1>2, <2>1 DEF HeardInv, receiver
  <2> QED BY <1>0, <1>1, <2>2, HeardStep
<1> QED BY <1>3, <1>4, <1>5, <1>6

-----------------------------------------------------------------------------
(* The steps of a task *)

LEMMA CallPromise ==
    ASSUME PromiseInv, NEW c \in Caller, NEW o \in Op, Call(c, o)
    PROVE  PromiseInv' /\ Promise!Call(c, o) /\ (Trusted' => Trusted)
<1>0. o \in {"send", "query", "ask"}
  BY OpAssumption
<1>1. /\ pc[c] = "idle" /\ pc' = [pc EXCEPT ![c] = IF o = "send" THEN "off" ELSE "wait"]
      /\ call' = [call EXCEPT ![c] = calls + 1] /\ calls' = calls + 1
      /\ op' = [op EXCEPT ![c] = o] /\ tries' = [tries EXCEPT ![c] = 1]
      /\ answer' = [answer EXCEPT ![c] = Nothing]
      /\ UNCHANGED <<air, receiver, back_sem, late>> /\ mixed' = (mixed \/ o # "ask")
  BY DEF Call
<1>2. PromiseInv'
  <2>1. HeardInv' /\ gelen' = gelen
    BY <1>1 DEF PromiseInv, HeardInv, receiver
  <2>2. ASSUME NEW d \in Caller PROVE TriesInv(d)'
    BY <1>0, <1>1, <2>1 DEF PromiseInv, TriesInv
  <2> QED BY <1>0, <1>1, <2>1, <2>2 DEF PromiseInv, Places
<1>3. Place' = [Place EXCEPT ![c] = "asking"] /\ Place[c] = "idle"
  <2>1. Place[c] = "idle" /\ Place'[c] = "asking"
    BY <1>0, <1>1 DEF Place, PromiseInv
  <2> QED BY <1>1, <2>1, PlaceMoves DEF Places
<1>4. Outcome' = [Outcome EXCEPT ![c] = "open"]
  <2>1. answer'[c] = Nothing /\ call'[c] \in Nat
    BY <1>1 DEF PromiseInv
  <2>2. Outcome'[c] = "open"
    BY <2>1, Verdicts DEF Outcome
  <2> QED BY <1>1, <2>2, OutcomeMoves DEF PromiseInv
<1>5. Trusted' => Trusted
  BY <1>1 DEF Trusted, Alone
<1> QED BY <1>1, <1>2, <1>3, <1>4, <1>5 DEF Promise!Call, Promise!Move

\* The steps that nobody sees, and the transmission.
LEMMA QuietPromise ==
    ASSUME PromiseInv, NEW c \in Caller, Waited(c) \/ Begin(c) \/ Take(c)
    PROVE  PromiseInv' /\ UNCHANGED <<Place, op, tries, Outcome, Trusted>>
<1>1. /\ UNCHANGED <<op, tries, call, answer, calls, air, receiver, history>>
      /\ back_sem' => back_sem
  BY DEF Waited, Begin, Take
<1>2. \/ pc[c] = "wait" /\ pc' = [pc EXCEPT ![c] = "off"]
      \/ pc[c] = "off" /\ pc' = [pc EXCEPT ![c] = "tx"]
      \/ pc[c] = "listen" /\ back_sem /\ pc' = [pc EXCEPT ![c] = "read"]
  BY DEF Waited, Begin, Take
<1>3. PromiseInv'
  <2>1. HeardInv' /\ gelen' = gelen
    BY <1>1 DEF PromiseInv, HeardInv, receiver
  <2>2. ASSUME NEW d \in Caller PROVE TriesInv(d)'
    BY <1>1, <1>2, <2>1 DEF PromiseInv, TriesInv, HeardInv
  <2> QED BY <1>1, <1>2, <2>1, <2>2 DEF PromiseInv, Places
<1>4. Place' = Place
  BY <1>2 DEF Place, PromiseInv
<1> QED BY <1>1, <1>3, <1>4, OutcomeStays DEF history, Trusted, Alone

LEMMA EndPromise ==
    ASSUME PromiseInv, NEW c \in Caller, End(c)
    PROVE  PromiseInv' /\ Promise!Transmit(c) /\ Trusted' = Trusted
<1>1. /\ UNCHANGED <<op, tries, call, answer, calls, paket, gelen, back_sem, history>>
      /\ pc[c] = "tx" /\ pc' = [pc EXCEPT ![c] = "on"]
      /\ air' \in {air, call[c]} /\ paket_queue' \in {paket_queue, Append(paket_queue, Junk)}
  BY DEF End
<1>2. PromiseInv'
  <2>1. Append(paket_queue, Junk) \in Seq(Nat \cup {Junk})
    BY DEF PromiseInv, HeardInv
  <2>2. HeardInv' /\ gelen' = gelen
    BY <1>1, <2>1 DEF PromiseInv, HeardInv
  <2>3. ASSUME NEW d \in Caller PROVE TriesInv(d)'
    BY <1>1 DEF PromiseInv, TriesInv
  <2> QED BY <1>1, <2>2, <2>3 DEF PromiseInv, Places
<1>3. Place[c] = "asking" /\ Place' = [Place EXCEPT ![c] = "asked"]
  <2>1. Place[c] = "asking" /\ Place'[c] = "asked"
    BY <1>1 DEF Place, PromiseInv
  <2> QED BY <1>1, <2>1, PlaceMoves DEF Places
<1>4. Trusted' = Trusted
  BY <1>1 DEF history, Trusted, Alone
<1> QED BY <1>1, <1>2, <1>3, <1>4, OutcomeStays DEF Promise!Transmit, Promise!Move

\* Enable ends a command; a question goes on.
LEMMA EnablePromise ==
    ASSUME PromiseInv, NEW c \in Caller, Enable(c)
    PROVE  /\ PromiseInv' /\ Trusted' = Trusted
           /\ Promise!Sent(c) \/ UNCHANGED <<Place, op, tries, Outcome>>
<1>1. /\ UNCHANGED <<op, tries, call, answer, calls, air, receiver, back_sem, history>>
      /\ pc[c] = "on" /\ pc' = [pc EXCEPT ![c] = IF op[c] = "send" THEN "idle" ELSE "listen"]
  BY DEF Enable
<1>2. PromiseInv'
  <2>1. HeardInv' /\ gelen' = gelen
    BY <1>1 DEF PromiseInv, HeardInv, receiver
  <2>2. ASSUME NEW d \in Caller PROVE TriesInv(d)'
    BY <1>1, <2>1 DEF PromiseInv, TriesInv
  <2> QED BY <1>1, <2>1, <2>2 DEF PromiseInv, Places
<1>3. Trusted' = Trusted
  BY <1>1 DEF history, Trusted, Alone
<1>4. CASE op[c] = "send"
  <2>1. Place[c] = "asked" /\ Place'[c] = "idle"
    BY <1>1, <1>4 DEF Place, PromiseInv
  <2>2. Place' = [Place EXCEPT ![c] = "idle"]
    BY <1>1, <1>4, <2>1, PlaceMoves DEF Places
  <2> QED BY <1>1, <1>2, <1>3, <1>4, <2>1, <2>2, OutcomeStays DEF Promise!Sent, Promise!Move
<1>5. CASE op[c] # "send"
  <2>1. Place' = Place
    BY <1>1, <1>5 DEF Place, PromiseInv
  <2> QED BY <1>1, <1>2, <1>3, <2>1, OutcomeStays
<1> QED BY <1>4, <1>5

\* The packet in gelen is an answer, and of a call that can be trusted the own one.
LEMMA ReadPromise ==
    ASSUME PromiseInv, NEW c \in Caller, Read(c), Trusted => LinkInv
    PROVE  PromiseInv' /\ Promise!Answered(c) /\ Trusted' = Trusted
<1>1. /\ UNCHANGED <<op, tries, call, calls, air, receiver, back_sem, history>>
      /\ pc[c] = "read" /\ pc' = [pc EXCEPT ![c] = "return"]
      /\ answer' = [answer EXCEPT ![c] = gelen]
  BY DEF Read
<1>2. op[c] # "send" /\ gelen # Nothing /\ gelen \in Nat \cup {Junk}
  BY <1>1 DEF PromiseInv, TriesInv, HeardInv
<1>3. PromiseInv'
  <2>1. HeardInv' /\ gelen' = gelen
    BY <1>1 DEF PromiseInv, HeardInv, receiver
  <2>2. ASSUME NEW d \in Caller PROVE TriesInv(d)'
    BY <1>1, <1>2, <2>1 DEF PromiseInv, TriesInv
  <2> QED BY <1>1, <1>2, <2>1, <2>2 DEF PromiseInv, Places
<1>4. Trusted' = Trusted
  BY <1>1 DEF history, Trusted, Alone
<1>5. Place[c] = "asked" /\ Place' = [Place EXCEPT ![c] = "done"]
  <2>1. Place[c] = "asked" /\ Place'[c] = "done"
    BY <1>1 DEF Place, PromiseInv
  <2> QED BY <1>1, <2>1, PlaceMoves DEF Places
<1>6. Outcome' = [Outcome EXCEPT ![c] = Outcome'[c]]
  BY <1>1, OutcomeMoves DEF PromiseInv
<1>7. Outcome'[c] = IF gelen = call[c] THEN "own" ELSE "stray"
  <2>1. answer'[c] = gelen /\ call'[c] = call[c] /\ call[c] \in Nat
    BY <1>1 DEF PromiseInv
  <2> QED BY <1>2, <2>1, Verdicts DEF Outcome
<1>8. Trusted => gelen = call[c]
  BY <1>1 DEF Trusted, LinkInv, AskInv
<1>9. \E o \in IF Trusted THEN {"own"} ELSE {"own", "stray"} :
         Outcome' = [Outcome EXCEPT ![c] = o]
  BY <1>6, <1>7, <1>8
<1> QED BY <1>1, <1>2, <1>3, <1>4, <1>5, <1>9 DEF Promise!Answered, Promise!Move

\* A question is asked again while a try is left and given up after the last.
LEMMA TimesOutPromise ==
    ASSUME PromiseInv, NEW c \in Caller, TimesOut(c)
    PROVE  /\ PromiseInv' /\ (Trusted' => Trusted)
           /\ Promise!AskAgain(c) \/ Promise!GiveUp(c)
<1>1. /\ UNCHANGED <<op, call, calls, air, receiver, back_sem, mixed>>
      /\ pc[c] = "listen" /\ (~late' => ~late)
  BY DEF TimesOut
<1>2. op[c] # "send" /\ tries[c] \in 1 .. Promise!Tries(op[c])
  BY <1>1 DEF PromiseInv, TriesInv, Promise!Tries
<1>3. HeardInv' /\ gelen' = gelen
  BY <1>1 DEF PromiseInv, HeardInv, receiver
<1>4. Trusted' => Trusted
  BY <1>1 DEF Trusted, Alone
<1>5. Place[c] = "asked"
  BY <1>1 DEF Place, PromiseInv
<1>6. CASE op[c] = "ask" /\ tries[c] < 3
  <2>1. /\ tries' = [tries EXCEPT ![c] = @ + 1] /\ pc' = [pc EXCEPT ![c] = "wait"]
        /\ answer' = answer
    BY <1>6 DEF TimesOut
  <2>2. ASSUME NEW d \in Caller PROVE TriesInv(d)'
    BY <1>1, <1>2, <1>3, <1>6, <2>1 DEF PromiseInv, TriesInv
  <2>3. PromiseInv'
    BY <1>1, <1>2, <1>3, <1>6, <2>1, <2>2 DEF PromiseInv, Places
  <2>4. Place'[c] = "asking"
    BY <2>1 DEF Place, PromiseInv
  <2>5. Place' = [Place EXCEPT ![c] = "asking"]
    BY <2>1, <2>4, PlaceMoves DEF Places
  <2>6. Promise!AskAgain(c)
    BY <1>1, <1>5, <1>6, <2>1, <2>5, OutcomeStays
       DEF Promise!AskAgain, Promise!Move, Promise!Tries
  <2> QED BY <1>4, <2>3, <2>6
<1>7. CASE ~(op[c] = "ask" /\ tries[c] < 3)
  <2>1. /\ tries' = tries /\ pc' = [pc EXCEPT ![c] = "return"]
        /\ answer' = [answer EXCEPT ![c] = TimedOut]
    BY <1>7 DEF TimesOut
  <2>2. ASSUME NEW d \in Caller PROVE TriesInv(d)'
    BY <1>1, <1>2, <1>3, <2>1, NamesAssumption DEF PromiseInv, TriesInv
  <2>3. PromiseInv'
    BY <1>1, <1>3, <2>1, <2>2 DEF PromiseInv, Places
  <2>4. Place'[c] = "done"
    BY <2>1 DEF Place, PromiseInv
  <2>5. Place' = [Place EXCEPT ![c] = "done"]
    BY <2>1, <2>4, PlaceMoves DEF Places
  <2>6. Outcome'[c] = "none"
    <3>1. answer'[c] = TimedOut /\ call'[c] \in Nat
      BY <1>1, <2>1 DEF PromiseInv
    <3> QED BY <3>1, Verdicts DEF Outcome
  <2>7. Outcome' = [Outcome EXCEPT ![c] = "none"]
    BY <1>1, <2>1, <2>6, OutcomeMoves DEF PromiseInv
  <2>8. tries[c] = Promise!Tries(op[c])
    BY <1>2, <1>7 DEF Promise!Tries
  <2>9. Promise!GiveUp(c)
    BY <1>1, <1>2, <1>5, <2>1, <2>5, <2>7, <2>8 DEF Promise!GiveUp, Promise!Move
  <2> QED BY <1>4, <2>3, <2>9
<1> QED BY <1>6, <1>7

LEMMA ReturnPromise ==
    ASSUME PromiseInv, NEW c \in Caller, Return(c)
    PROVE  PromiseInv' /\ Promise!Return(c) /\ Trusted' = Trusted
<1>1. /\ UNCHANGED <<op, tries, call, answer, calls, air, receiver, back_sem, history>>
      /\ pc[c] = "return" /\ pc' = [pc EXCEPT ![c] = "idle"]
  BY DEF Return
<1>2. PromiseInv'
  <2>1. HeardInv' /\ gelen' = gelen
    BY <1>1 DEF PromiseInv, HeardInv, receiver
  <2>2. ASSUME NEW d \in Caller PROVE TriesInv(d)'
    BY <1>1, <2>1 DEF PromiseInv, TriesInv
  <2> QED BY <1>1, <2>1, <2>2 DEF PromiseInv, Places
<1>3. Trusted' = Trusted
  BY <1>1 DEF history, Trusted, Alone
<1>4. Place[c] = "done" /\ Place' = [Place EXCEPT ![c] = "idle"]
  <2>1. Place[c] = "done" /\ Place'[c] = "idle"
    BY <1>1 DEF Place, PromiseInv
  <2> QED BY <1>1, <2>1, PlaceMoves DEF Places
<1>5. Outcome[c] # "open"
  <2>1. answer[c] \in Nat \cup {Junk, TimedOut} /\ call[c] \in Nat
    BY <1>1 DEF PromiseInv, TriesInv
  <2> QED BY <2>1, Verdicts DEF Outcome
<1> QED BY <1>1, <1>2, <1>3, <1>4, <1>5, OutcomeStays DEF Promise!Return, Promise!Move

-----------------------------------------------------------------------------
\* LinkInv is an invariant of a task that is alone; of the others nothing is said.
AloneInv == \A c \in Caller : Caller = {c} => LinkInv

LEMMA PromiseSteps ==
    ASSUME PromiseInv, AloneInv, [LinkNext]_linkVars
    PROVE  PromiseInv' /\ [Promise!Next]_<<Place, op, tries, Outcome, Trusted>>
<1>1. ASSUME NEW c \in Caller, NEW o \in Op, Call(c, o)
      PROVE  PromiseInv' /\ Promise!Next
  BY <1>1, CallPromise, OpAssumption DEF Promise!Next, Promise!Step
<1>2. ASSUME NEW c \in Caller, Task(c)
      PROVE  PromiseInv' /\ [Promise!Next]_<<Place, op, tries, Outcome, Trusted>>
  <2>1. Trusted => LinkInv
    <3>1. Alone => Caller = {c}
      BY DEF Alone
    <3> QED BY <3>1 DEF Trusted, AloneInv
  <2>2. CASE Waited(c) \/ Begin(c) \/ Take(c)
    BY <2>2, QuietPromise
  <2>3. CASE End(c)
    BY <2>3, EndPromise DEF Promise!Next, Promise!Step
  <2>4. CASE Enable(c)
    BY <2>4, EnablePromise DEF Promise!Next, Promise!Step
  <2>5. CASE Read(c)
    BY <2>1, <2>5, ReadPromise DEF Promise!Next, Promise!Step
  <2>6. CASE TimesOut(c)
    BY <2>6, TimesOutPromise DEF Promise!Next, Promise!Step
  <2>7. CASE Return(c)
    BY <2>7, ReturnPromise DEF Promise!Next, Promise!Step
  <2> QED BY <1>2, <2>2, <2>3, <2>4, <2>5, <2>6, <2>7 DEF Task
<1> QED BY <1>1, <1>2, OthersPromise DEF LinkNext

\* Every behaviour of the driver is one of DaliCall, for any number of tasks that
\* make calls of any kind (dali.cpp:421-612): frames before answers, no more than
\* three tries and no fewer before giving up, and for a task alone with
\* send_receive the answer to its own question.
THEOREM LinkKeepsPromise == LinkSpec => KeepsPromise
<1>1. LinkInit => PromiseInv /\ AloneInv /\ Promise!Init
  BY InitPromise, InitLink DEF AloneInv
<1>2. PromiseInv /\ AloneInv /\ [LinkNext]_linkVars
         => PromiseInv' /\ [Promise!Next]_<<Place, op, tries, Outcome, Trusted>>
  BY PromiseSteps
<1>3. AloneInv /\ [LinkNext]_linkVars => AloneInv'
  BY NextLink DEF AloneInv
<1> QED BY <1>1, <1>2, <1>3, PTL DEF LinkSpec, KeepsPromise, Promise!Spec

-----------------------------------------------------------------------------
(* DeviceCommands: the lamp *)

LEMMA QueryExecuted ==
    ASSUME NEW l, NEW f, f.kind \in Queries
    PROVE  Executed(l, f) = l
<1>1. f.kind \in {"get_scene", "get_group", "get_level", "get_fade", "get_dtr", "type", "ext_type"}
  BY DEF Queries
<1> QED BY <1>1, Zenon DEF Executed

\* A frame for all lamps or for a group changes the level only.
LEMMA SwitchExecuted ==
    ASSUME NEW l \in LampOf, NEW f \in Switching
    PROVE  /\ f.kind \notin Twice /\ f # None
           /\ \E v \in 0 .. 254 : Executed(l, f) = [l EXCEPT !.level = v]
<1>1. f # None
  BY NoneAssumption
<1>2. l.level \in 0 .. 254 /\ l = [l EXCEPT !.level = l.level]
  BY DEF LampOf
<1>3. CASE f = Frame("goto", 0)
  <2>1. f.kind = "goto"
    BY <1>3 DEF Frame
  <2>2. CASE l.scene = MASK
    <3>1. Executed(l, f) = l
      BY <2>1, <2>2, Zenon DEF Executed
    <3> QED BY <1>1, <1>2, <2>1, <3>1 DEF Twice
  <2>3. CASE l.scene # MASK
    <3>1. Executed(l, f) = [l EXCEPT !.level = l.scene]
      BY <2>1, <2>3, Zenon DEF Executed
    <3>2. l.scene \in 0 .. 254
      BY <2>3 DEF LampOf, MASK
    <3> QED BY <1>1, <2>1, <3>1, <3>2 DEF Twice
  <2> QED BY <2>2, <2>3
<1>4. CASE f = Frame("arc", 0)
  <2>1. f.kind = "arc" /\ f.val = 0
    BY <1>4 DEF Frame
  <2>2. Executed(l, f) = [l EXCEPT !.level = f.val]
    BY <2>1, Zenon DEF Executed
  <2> QED BY <1>1, <2>1, <2>2 DEF Twice
<1>5. ASSUME NEW v \in Val, f = Frame("arc_group", v)
      PROVE  f.kind \notin Twice /\ \E w \in 0 .. 254 : Executed(l, f) = [l EXCEPT !.level = w]
  <2>1. f.kind = "arc_group" /\ f.val = v /\ v \in 0 .. 254
    BY <1>5, ValAssumption DEF Frame
  <2>2. CASE 1 \in l.groups
    <3>1. Executed(l, f) = [l EXCEPT !.level = f.val]
      BY <2>1, <2>2, Zenon DEF Executed
    <3> QED BY <2>1, <3>1 DEF Twice
  <2>3. CASE 1 \notin l.groups
    <3>1. Executed(l, f) = l
      BY <2>1, <2>3, Zenon DEF Executed
    <3> QED BY <1>2, <2>1, <3>1 DEF Twice
  <2> QED BY <2>2, <2>3
<1> QED BY <1>1, <1>3, <1>4, <1>5 DEF Switching

LEMMA ResetType ==
    ASSUME NEW l \in LampOf
    PROVE  Reset(l) \in LampOf
<1> DEFINE m1 == [l EXCEPT !.level = 254]
           m2 == [m1 EXCEPT !.scene = MASK]
           m3 == [m2 EXCEPT !.groups = {}]
           m4 == [m3 EXCEPT !.fade = 0]
<1>1. Reset(l) = m4
  BY Zenon DEF Reset
<1>2. {} \in SUBSET (0 .. 254)
  OBVIOUS
<1>3. m1 \in LampOf
  BY DEF LampOf
<1> HIDE DEF m1
<1>4. m2 \in LampOf
  BY <1>3 DEF LampOf, MASK
<1> HIDE DEF m2
<1>5. m3 \in LampOf
  BY <1>2, <1>4 DEF LampOf
<1> HIDE DEF m3
<1>6. m4 \in LampOf
  BY <1>5 DEF LampOf
<1> QED BY <1>1, <1>6

LEMMA ExecutedType ==
    ASSUME NEW l \in LampOf, NEW f \in FrameOf
    PROVE  Executed(l, f) \in LampOf
<1> DEFINE g == f.val
<1>1. /\ l.level \in 0 .. 254 /\ l.dtr \in 0 .. 254 /\ l.scene \in 0 .. 255
      /\ l.groups \subseteq 0 .. 254 /\ f.val \in 0 .. 254
  BY DEF LampOf, FrameOf
<1>2. \/ Executed(l, f) = l
      \/ Executed(l, f) = [l EXCEPT !.dtr = f.val]
      \/ Executed(l, f) = [l EXCEPT !.level = f.val]
      \/ l.scene # MASK /\ Executed(l, f) = [l EXCEPT !.level = l.scene]
      \/ Executed(l, f) = [l EXCEPT !.scene = l.dtr]
      \/ Executed(l, f) = [l EXCEPT !.scene = MASK]
      \/ Executed(l, f) = [l EXCEPT !.groups = @ \cup {f.val}]
      \/ Executed(l, f) = [l EXCEPT !.groups = @ \ {f.val}]
      \/ Executed(l, f) = [l EXCEPT !.fade = l.dtr]
      \/ Executed(l, f) = [l EXCEPT !.dtr = l.level]
      \/ Executed(l, f) = Reset(l)
  BY Zenon DEF Executed
<1>3. \A v \in 0 .. 254 : /\ [l EXCEPT !.dtr = v] \in LampOf /\ [l EXCEPT !.level = v] \in LampOf
                          /\ [l EXCEPT !.scene = v] \in LampOf /\ [l EXCEPT !.fade = v] \in LampOf
  BY DEF LampOf
<1>4. [l EXCEPT !.scene = MASK] \in LampOf
  BY DEF LampOf, MASK
<1>5. \A S \in SUBSET (0 .. 254) : [l EXCEPT !.groups = S] \in LampOf
  BY DEF LampOf
<1>6. Reset(l) \in LampOf
  BY ResetType
<1>7. l.scene # MASK => l.scene \in 0 .. 254
  BY <1>1 DEF MASK
<1>8. /\ [l EXCEPT !.groups = @ \cup {f.val}] \in LampOf
      /\ [l EXCEPT !.groups = @ \ {f.val}] \in LampOf
  <2>1. l.groups \cup {f.val} \in SUBSET (0 .. 254) /\ l.groups \ {f.val} \in SUBSET (0 .. 254)
    BY <1>1
  <2> QED BY <2>1, <1>5
<1>9. /\ [l EXCEPT !.dtr = f.val] \in LampOf /\ [l EXCEPT !.level = f.val] \in LampOf
      /\ [l EXCEPT !.scene = l.dtr] \in LampOf /\ [l EXCEPT !.fade = l.dtr] \in LampOf
      /\ [l EXCEPT !.dtr = l.level] \in LampOf
      /\ l.scene # MASK => [l EXCEPT !.level = l.scene] \in LampOf
  BY <1>1, <1>3, <1>7
<1> HIDE DEF g
<1> QED BY <1>2, <1>4, <1>6, <1>8, <1>9

\* What is stored does not depend on the level.
LEMMA LevelStored ==
    ASSUME NEW l \in LampOf, NEW v \in 0 .. 254
    PROVE  LET m == [l EXCEPT !.level = v] IN
           /\ m \in LampOf /\ m.level = v /\ m.dtr = l.dtr /\ m.scene = l.scene
           /\ m.groups = l.groups /\ m.fade = l.fade
           /\ Stored(m) = Stored(l)
BY DEF LampOf, Stored

LEMMA HeardFrame ==
    ASSUME TypeOK, NEW f \in FrameOf, Hears(f)
    PROVE  /\ lamp' \in LampOf /\ once' \in FrameOf \cup {None}
           /\ \/ f.kind \in Twice /\ once # f /\ once' = f /\ lamp' = lamp
              \/ f.kind \notin Twice /\ once' = None /\ lamp' = Executed(lamp, f)
              \/ f.kind \in Twice /\ once = f /\ once' = None /\ lamp' = Executed(lamp, f)
BY ExecutedType DEF Hears, TypeOK

LEMMA HeardQuery ==
    ASSUME TypeOK, NEW f \in FrameOf, f.kind \in Queries, Hears(f)
    PROVE  lamp' = lamp /\ once' = None
<1>1. f.kind \notin Twice
  BY DEF Queries, Twice
<1> QED BY <1>1, QueryExecuted, HeardFrame

LEMMA HeardSwitch ==
    ASSUME TypeOK, NEW f \in Switching, Hears(f)
    PROVE  /\ once' = None
           /\ \E v \in 0 .. 254 : lamp' = [lamp EXCEPT !.level = v]
BY SwitchExecuted DEF Hears, TypeOK
-----------------------------------------------------------------------------
(* The frames of the commands *)

LEMMA CommandType ==
    ASSUME NEW c \in Command
    PROVE  /\ c.val \in 0 .. 254
           /\ \/ c.name \in {"set_scene", "set_fade", "arc_power", "arc_power_group"}
              \/ c.name \in {"set_group", "unset_group"} /\ c.val \in {0, 1}
              \/ c.name = "search" /\ c.val \in 0 .. 2
              \/ c.name = "search_unsaved" /\ c.val = 2
              \/ c.name \in {"clear_scene", "gear_reset", "full_reset", "s_reset", "off",
                             "action", "get_scene", "get_group", "get_level", "s_refresh",
                             "refresh", "get_rapor", "get_detail", "clear_number"}
<1>1. CASE c \in [name : {"set_scene", "set_fade", "arc_power", "arc_power_group"}, val : Val]
  BY <1>1, ValAssumption
<1>2. CASE c \in [name : {"set_group", "unset_group"}, val : {0, 1}]
  BY <1>2
<1>3. CASE c \in [name : {"search"}, val : 0 .. 2]
  BY <1>3
<1>4. CASE c \in [name : {"search_unsaved"}, val : {2}]
  BY <1>4
<1>5. CASE c \in [name : {"clear_scene", "gear_reset", "full_reset", "s_reset", "off", "action",
                          "get_scene", "get_group", "get_level", "s_refresh", "refresh",
                          "get_rapor", "get_detail", "clear_number"}, val : {0}]
  BY <1>5
<1> QED BY <1>1, <1>2, <1>3, <1>4, <1>5 DEF Command

\* The frames of the commands that have more than one, sent the way w.
LEMMA Tuples ==
    ASSUME NEW w, NEW v, NEW k
    PROVE  /\ On(w, set_scene(v)) =
                <<To(w, "dtr", v), To(w, "dtr", v), To(w, "scene", 0), To(w, "scene", 0),
                  To(w, "get_scene", 0)>>
           /\ On(w, set_fade(v)) =
                <<To(w, "dtr", v), To(w, "dtr", v), To(w, "fade", 0), To(w, "fade", 0)>>
           /\ On(w, set_group(k, v)) =
                <<To(w, k, v), To(w, k, v), To(w, "get_group", 0), To(w, "get_group", 1)>>
           /\ On(w, clear_scene) =
                <<To(w, "unscene", 0), To(w, "unscene", 0), To(w, "get_scene", 0)>>
           /\ On(w, gear_reset) = <<To(w, "reset", 0), To(w, "reset", 0)>>
           /\ On(w, get_group) = <<To(w, "get_group", 0), To(w, "get_group", 1)>>
           /\ On(w, get_rapor) =
                <<To(w, "store", 0), To(w, "store", 0), To(w, "get_dtr", 0)>>
           /\ On(w, get_level_stored) =
                <<To(w, "store", 0), To(w, "store", 0), To(w, "get_dtr", 0)>>
           /\ On(w, <<Frame("shutter", 0), Frame("shutter", 0)>>) =
                <<To(w, "shutter", 0), To(w, "shutter", 0)>>
           /\ On(w, <<Frame(k, v)>>) = <<To(w, k, v)>>
<1> USE DEF On, Frame, To
<1>1. On(w, set_scene(v)) =
        <<To(w, "dtr", v), To(w, "dtr", v), To(w, "scene", 0), To(w, "scene", 0),
          To(w, "get_scene", 0)>>
  BY SMT DEF set_scene
<1>2. On(w, set_fade(v)) =
        <<To(w, "dtr", v), To(w, "dtr", v), To(w, "fade", 0), To(w, "fade", 0)>>
  BY SMT DEF set_fade
<1>3. On(w, set_group(k, v)) =
        <<To(w, k, v), To(w, k, v), To(w, "get_group", 0), To(w, "get_group", 1)>>
  BY SMT DEF set_group
<1>4. On(w, clear_scene) =
        <<To(w, "unscene", 0), To(w, "unscene", 0), To(w, "get_scene", 0)>>
  BY SMT DEF clear_scene
<1>5. On(w, gear_reset) = <<To(w, "reset", 0), To(w, "reset", 0)>>
  BY SMT DEF gear_reset
<1>6. On(w, get_group) = <<To(w, "get_group", 0), To(w, "get_group", 1)>>
  BY SMT DEF get_group
<1>7. /\ On(w, get_rapor) = <<To(w, "store", 0), To(w, "store", 0), To(w, "get_dtr", 0)>>
      /\ On(w, get_level_stored) =
            <<To(w, "store", 0), To(w, "store", 0), To(w, "get_dtr", 0)>>
  BY SMT DEF get_rapor, get_level_stored
<1>8. On(w, <<Frame("shutter", 0), Frame("shutter", 0)>>) =
        <<To(w, "shutter", 0), To(w, "shutter", 0)>>
  BY SMT
<1>9. On(w, <<Frame(k, v)>>) = <<To(w, k, v)>>
  BY SMT
<1> QED BY <1>1, <1>2, <1>3, <1>4, <1>5, <1>6, <1>7, <1>8, <1>9

LEMMA SingleOf ==
    ASSUME NEW c \in Command
    PROVE  /\ c.name = "set_scene" => Single(c) = set_scene(c.val)
           /\ c.name = "set_fade" => Single(c) = set_fade(c.val)
           /\ c.name = "set_group" => Single(c) = set_group("group", c.val)
           /\ c.name = "unset_group" => Single(c) = set_group("ungroup", c.val)
           /\ c.name = "clear_scene" => Single(c) = clear_scene
           /\ c.name \in {"gear_reset", "full_reset"} => Single(c) = gear_reset
           /\ c.name = "get_group" => Single(c) = get_group
           /\ c.name = "s_reset" => Single(c) = <<Frame("shutter", 0), Frame("shutter", 0)>>
           /\ c.name = "get_detail" => Single(c) = <<Frame("get_fade", 0)>>
           /\ c.name \in LevelNames => Single(c) = <<Frame("get_level", 0)>>
           /\ c.name = "get_scene" => Single(c) = <<Frame("get_scene", 0)>>
BY SMT DEF Single, LevelNames

LEMMA FramesOf ==
    ASSUME NEW c \in Command
    PROVE  /\ c.name \in Searches => Frames(c) = search(c.val)
           /\ c.name = "arc_power" => Frames(c) = On("both", <<Frame("arc", c.val)>>)
           /\ c.name = "arc_power_group" => Frames(c) = On("both", <<Frame("arc_group", c.val)>>)
           /\ c.name = "off" => Frames(c) = On("both", <<Frame("arc", 0)>>)
           /\ c.name = "action" => Frames(c) = On("both", <<Frame("goto", 0)>>)
           /\ c.name = "get_rapor" => Frames(c) = On("cable", get_rapor)
           /\ c.name = "clear_number" => Frames(c) = <<>>
           /\ c.name \in {"refresh", "full_reset"} /\ row = None => Frames(c) = <<>>
           /\ c.name \in {"refresh", "full_reset"} /\ row # None =>
                Frames(c) = On(Way(RowType), Single(c))
           /\ c.name \in {"set_scene", "set_fade", "set_group", "unset_group", "clear_scene",
                          "gear_reset", "get_group", "s_reset", "get_detail", "get_scene",
                          "get_level", "s_refresh"} =>
                Frames(c) = On(Way(RowType), Single(c))
BY SMT DEF Frames, Searches

\* The frames of every command, as tuples.
LEMMA Programs ==
    ASSUME NEW c \in Command
    PROVE  LET w == Way(RowType) IN
           /\ c.name = "set_scene" =>
                Frames(c) = <<To(w, "dtr", c.val), To(w, "dtr", c.val), To(w, "scene", 0),
                              To(w, "scene", 0), To(w, "get_scene", 0)>>
           /\ c.name = "set_fade" =>
                Frames(c) = <<To(w, "dtr", c.val), To(w, "dtr", c.val), To(w, "fade", 0),
                              To(w, "fade", 0)>>
           /\ c.name = "set_group" =>
                Frames(c) = <<To(w, "group", c.val), To(w, "group", c.val),
                              To(w, "get_group", 0), To(w, "get_group", 1)>>
           /\ c.name = "unset_group" =>
                Frames(c) = <<To(w, "ungroup", c.val), To(w, "ungroup", c.val),
                              To(w, "get_group", 0), To(w, "get_group", 1)>>
           /\ c.name = "clear_scene" =>
                Frames(c) = <<To(w, "unscene", 0), To(w, "unscene", 0), To(w, "get_scene", 0)>>
           /\ c.name = "gear_reset" \/ (c.name = "full_reset" /\ row # None) =>
                Frames(c) = <<To(w, "reset", 0), To(w, "reset", 0)>>
           /\ c.name = "get_group" => Frames(c) = <<To(w, "get_group", 0), To(w, "get_group", 1)>>
           /\ c.name = "s_reset" => Frames(c) = <<To(w, "shutter", 0), To(w, "shutter", 0)>>
           /\ c.name = "get_detail" => Frames(c) = <<To(w, "get_fade", 0)>>
           /\ c.name = "get_scene" => Frames(c) = <<To(w, "get_scene", 0)>>
           /\ c.name \in {"get_level", "s_refresh"} \/ (c.name = "refresh" /\ row # None) =>
                Frames(c) = <<To(w, "get_level", 0)>>
           /\ c.name = "arc_power" => Frames(c) = <<To("both", "arc", c.val)>>
           /\ c.name = "arc_power_group" => Frames(c) = <<To("both", "arc_group", c.val)>>
           /\ c.name = "off" => Frames(c) = <<To("both", "arc", 0)>>
           /\ c.name = "action" => Frames(c) = <<To("both", "goto", 0)>>
           /\ c.name = "get_rapor" =>
                Frames(c) = <<To("cable", "store", 0), To("cable", "store", 0), To("cable", "get_dtr", 0)>>
<1> DEFINE w == Way(RowType)
<1>1. c.name = "set_scene" =>
         Frames(c) = <<To(w, "dtr", c.val), To(w, "dtr", c.val), To(w, "scene", 0),
                       To(w, "scene", 0), To(w, "get_scene", 0)>>
  BY Tuples, SingleOf, FramesOf
<1>2. c.name = "set_fade" =>
         Frames(c) = <<To(w, "dtr", c.val), To(w, "dtr", c.val), To(w, "fade", 0),
                       To(w, "fade", 0)>>
  BY Tuples, SingleOf, FramesOf
<1>3. c.name \in {"set_group", "unset_group"} =>
        /\ Frames(c) = On(w, Single(c))
        /\ Single(c) = set_group(IF c.name = "set_group" THEN "group" ELSE "ungroup", c.val)
  BY SingleOf, FramesOf
<1>4. c.name = "set_group" =>
         Frames(c) = <<To(w, "group", c.val), To(w, "group", c.val),
                       To(w, "get_group", 0), To(w, "get_group", 1)>>
  BY <1>3, Tuples
<1>5. c.name = "unset_group" =>
         Frames(c) = <<To(w, "ungroup", c.val), To(w, "ungroup", c.val),
                       To(w, "get_group", 0), To(w, "get_group", 1)>>
  BY <1>3, Tuples
<1>6. c.name = "clear_scene" =>
        Frames(c) = <<To(w, "unscene", 0), To(w, "unscene", 0), To(w, "get_scene", 0)>>
  BY SingleOf, FramesOf, Tuples
<1>7. c.name = "gear_reset" \/ (c.name = "full_reset" /\ row # None) =>
        Frames(c) = <<To(w, "reset", 0), To(w, "reset", 0)>>
  BY SingleOf, FramesOf, Tuples
<1>8. /\ c.name = "get_group" => Frames(c) = <<To(w, "get_group", 0), To(w, "get_group", 1)>>
      /\ c.name = "s_reset" => Frames(c) = <<To(w, "shutter", 0), To(w, "shutter", 0)>>
  BY SingleOf, FramesOf, Tuples
<1>9. /\ c.name = "get_detail" => Frames(c) = <<To(w, "get_fade", 0)>>
      /\ c.name = "get_scene" => Frames(c) = <<To(w, "get_scene", 0)>>
      /\ c.name \in {"get_level", "s_refresh"} \/ (c.name = "refresh" /\ row # None) =>
                Frames(c) = <<To(w, "get_level", 0)>>
  <2>1. /\ On(w, <<Frame("get_fade", 0)>>) = <<To(w, "get_fade", 0)>>
        /\ On(w, <<Frame("get_scene", 0)>>) = <<To(w, "get_scene", 0)>>
        /\ On(w, <<Frame("get_level", 0)>>) = <<To(w, "get_level", 0)>>
    BY Tuples
  <2> QED BY <2>1, SingleOf, FramesOf DEF LevelNames
<1>10. /\ c.name = "arc_power" => Frames(c) = <<To("both", "arc", c.val)>>
       /\ c.name = "arc_power_group" => Frames(c) = <<To("both", "arc_group", c.val)>>
       /\ c.name = "off" => Frames(c) = <<To("both", "arc", 0)>>
       /\ c.name = "action" => Frames(c) = <<To("both", "goto", 0)>>
  BY FramesOf, Tuples
<1>11. c.name = "get_rapor" =>
        Frames(c) = <<To("cable", "store", 0), To("cable", "store", 0), To("cable", "get_dtr", 0)>>
  BY FramesOf, Tuples
<1> QED BY <1>1, <1>2, <1>4, <1>5, <1>6, <1>7, <1>8, <1>9, <1>10, <1>11

LEMMA FrameType ==
    ASSUME NEW w \in Via, NEW k \in Kinds, NEW v \in 0 .. 254
    PROVE  /\ To(w, k, v) \in FrameOf
           /\ To(w, k, v).kind = k /\ To(w, k, v).val = v /\ To(w, k, v).via = w
BY DEF To, FrameOf

LEMMA Ways ==
    /\ Way(RowType) \in Via /\ Own \in Via
    /\ Way(RowType) \in {"cable", "wifi"} /\ Own \in {"cable", "wifi"}
BY DEF Way, Own, Via

\* A frame that neither asks nor belongs to a search or to get_level.
LEMMA PlainFrames ==
    ASSUME NEW c \in Command, c.name \notin LevelNames \cup Searches
    PROVE  /\ Frames(c) \in Seq(FrameOf)
           /\ \A i \in 1 .. Len(Frames(c)) :
                 /\ Frames(c)[i].kind \notin {"get_level", "type", "ext_type"}
                 /\ Frames(c)[i].kind = "get_dtr" => c.name = "get_rapor"
<1> DEFINE w == Way(RowType)
<1> DEFINE Fits(f) == /\ f \in FrameOf /\ f.kind \notin {"get_level", "type", "ext_type"}
                      /\ f.kind = "get_dtr" => c.name = "get_rapor"
<1> DEFINE Good(F) == F \in Seq(FrameOf) /\ \A i \in 1 .. Len(F) : Fits(F[i])
<1>1. c.val \in 0 .. 254 /\ w \in Via /\ "both" \in Via /\ "cable" \in Via
  BY CommandType, Ways DEF Via
<1>2. \A v \in 0 .. 254, x \in Via :
        \A k \in {"dtr", "arc", "arc_group", "goto", "scene", "unscene", "group", "ungroup", "fade",
                  "reset", "store", "shutter", "get_scene", "get_group", "get_fade"} :
           Fits(To(x, k, v))
  <2>1. SUFFICES ASSUME NEW v \in 0 .. 254, NEW x \in Via,
                        NEW k \in {"dtr", "arc", "arc_group", "goto", "scene", "unscene", "group",
                                   "ungroup", "fade", "reset", "store", "shutter", "get_scene",
                                   "get_group", "get_fade"}
                 PROVE  Fits(To(x, k, v))
    OBVIOUS
  <2>2. k \in Kinds
    BY DEF Kinds, Twice, Queries
  <2>3. To(x, k, v) \in FrameOf /\ To(x, k, v).kind = k
    BY <2>2 DEF To, FrameOf
  <2> QED BY <2>3
<1>3. c.name = "get_rapor" => Fits(To("cable", "get_dtr", 0))
  <2>1. "get_dtr" \in Kinds
    BY DEF Kinds, Queries
  <2>2. To("cable", "get_dtr", 0) \in FrameOf /\ To("cable", "get_dtr", 0).kind = "get_dtr"
    BY <2>1, <1>1, FrameType
  <2> QED BY <2>2
<1> HIDE DEF Fits
<1>4. /\ Good(<<>>)
      /\ \A a : Fits(a) => Good(<<a>>)
      /\ \A a, b : Fits(a) /\ Fits(b) => Good(<<a, b>>)
      /\ \A a, b, d : Fits(a) /\ Fits(b) /\ Fits(d) => Good(<<a, b, d>>)
      /\ \A a, b, d, e : Fits(a) /\ Fits(b) /\ Fits(d) /\ Fits(e) => Good(<<a, b, d, e>>)
      /\ \A a, b, d, e, f : Fits(a) /\ Fits(b) /\ Fits(d) /\ Fits(e) /\ Fits(f)
            => Good(<<a, b, d, e, f>>)
  <2> \A a : Fits(a) => a \in FrameOf
    BY DEF Fits
  <2> QED OBVIOUS
<1> HIDE DEF Good
<1>5. CASE c.name \in {"set_scene", "set_fade", "clear_scene"}
  <2>1. /\ Fits(To(w, "dtr", c.val)) /\ Fits(To(w, "scene", 0)) /\ Fits(To(w, "fade", 0))
        /\ Fits(To(w, "unscene", 0)) /\ Fits(To(w, "get_scene", 0))
    BY <1>1, <1>2
  <2>2. /\ Good(<<To(w, "dtr", c.val), To(w, "dtr", c.val), To(w, "scene", 0),
                  To(w, "scene", 0), To(w, "get_scene", 0)>>)
        /\ Good(<<To(w, "dtr", c.val), To(w, "dtr", c.val), To(w, "fade", 0), To(w, "fade", 0)>>)
        /\ Good(<<To(w, "unscene", 0), To(w, "unscene", 0), To(w, "get_scene", 0)>>)
    BY <1>4, <2>1
  <2>3. Good(Frames(c))
    BY <1>5, <2>2, Programs
  <2> QED BY <2>3 DEF Good, Fits
<1>6. CASE c.name \in {"set_group", "unset_group", "get_group"}
  <2>1. /\ Fits(To(w, "group", c.val)) /\ Fits(To(w, "ungroup", c.val))
        /\ Fits(To(w, "get_group", 0)) /\ Fits(To(w, "get_group", 1))
    BY <1>1, <1>2
  <2>2. /\ Good(<<To(w, "group", c.val), To(w, "group", c.val), To(w, "get_group", 0),
                  To(w, "get_group", 1)>>)
        /\ Good(<<To(w, "ungroup", c.val), To(w, "ungroup", c.val), To(w, "get_group", 0),
                  To(w, "get_group", 1)>>)
        /\ Good(<<To(w, "get_group", 0), To(w, "get_group", 1)>>)
    BY <1>4, <2>1
  <2>3. Good(Frames(c))
    BY <1>6, <2>2, Programs
  <2> QED BY <2>3 DEF Good, Fits
<1>7. CASE c.name \in {"gear_reset", "full_reset", "s_reset", "get_detail", "get_scene", "clear_number"}
  <2>1. /\ Fits(To(w, "reset", 0)) /\ Fits(To(w, "shutter", 0)) /\ Fits(To(w, "get_fade", 0))
        /\ Fits(To(w, "get_scene", 0))
    BY <1>1, <1>2
  <2>2. /\ Good(<<To(w, "reset", 0), To(w, "reset", 0)>>)
        /\ Good(<<To(w, "shutter", 0), To(w, "shutter", 0)>>)
        /\ Good(<<To(w, "get_fade", 0)>>) /\ Good(<<To(w, "get_scene", 0)>>)
    BY <1>4, <2>1
  <2>3. Good(Frames(c))
    BY <1>4, <1>7, <2>2, Programs, FramesOf
  <2> QED BY <2>3 DEF Good, Fits
<1>8. CASE c.name \in {"arc_power", "arc_power_group", "off", "action", "get_rapor"}
  <2>1. /\ Fits(To("both", "arc", c.val)) /\ Fits(To("both", "arc_group", c.val))
        /\ Fits(To("both", "arc", 0)) /\ Fits(To("both", "goto", 0))
        /\ Fits(To("cable", "store", 0))
    BY <1>1, <1>2
  <2>2. /\ Good(<<To("both", "arc", c.val)>>) /\ Good(<<To("both", "arc_group", c.val)>>)
        /\ Good(<<To("both", "arc", 0)>>) /\ Good(<<To("both", "goto", 0)>>)
        /\ c.name = "get_rapor" =>
             Good(<<To("cable", "store", 0), To("cable", "store", 0), To("cable", "get_dtr", 0)>>)
    BY <1>3, <1>4, <2>1
  <2>3. Good(Frames(c))
    BY <1>8, <2>2, Programs
  <2> QED BY <2>3 DEF Good, Fits
<1> QED BY <1>5, <1>6, <1>7, <1>8, CommandType DEF LevelNames, Searches

\* A frame that changes nothing of what is stored.
Harmless(f) == f.kind \in Queries \cup {"arc", "arc_group", "goto", "store", "shutter"}

LEMMA HarmlessExecuted ==
    ASSUME NEW l \in LampOf, NEW f \in FrameOf, Harmless(f)
    PROVE  Stored(Executed(l, f)) = Stored(l)
<1>1. CASE f.kind \in Queries
  BY <1>1, QueryExecuted
<1>2. CASE f.kind \in {"arc", "arc_group", "goto", "store", "shutter"}
  <2>1. \/ Executed(l, f) = l
        \/ Executed(l, f) = [l EXCEPT !.level = f.val]
        \/ Executed(l, f) = [l EXCEPT !.level = l.scene]
        \/ Executed(l, f) = [l EXCEPT !.dtr = l.level]
    <3>1. CASE f.kind = "arc"
      BY <3>1, Zenon DEF Executed
    <3>2. CASE f.kind = "arc_group"
      BY <3>2, Zenon DEF Executed
    <3>3. CASE f.kind = "goto"
      BY <3>3, Zenon DEF Executed
    <3>4. CASE f.kind = "store"
      BY <3>4, Zenon DEF Executed
    <3>5. CASE f.kind = "shutter"
      BY <3>5, Zenon DEF Executed
    <3> QED BY <1>2, <3>1, <3>2, <3>3, <3>4, <3>5
  <2> QED BY <2>1 DEF LampOf, Stored
<1> QED BY <1>1, <1>2 DEF Harmless

\* What remains of a program: its head, and what remains after it.
LEMMA Remaining ==
    ASSUME NEW F \in Seq(FrameOf), todo \in Seq(FrameOf), EndOf(F), todo # <<>>
    PROVE  /\ Len(todo) \in 1 .. Len(F) /\ Len(F) \in Nat
           /\ Len(F) - Len(todo) + 1 \in 1 .. Len(F)
           /\ Head(todo) = F[Len(F) - Len(todo) + 1] /\ Head(todo) \in FrameOf
           /\ Tail(todo) \in Seq(FrameOf) /\ Len(Tail(todo)) = Len(todo) - 1
           /\ \A i \in DOMAIN Tail(todo) :
                 Tail(todo)[i] = F[Len(F) - Len(Tail(todo)) + i]
<1>1. /\ Len(todo) \in 1 .. Len(F) /\ Len(F) \in Nat
      /\ Len(F) - Len(todo) + 1 \in 1 .. Len(F)
  BY DEF EndOf
<1>2. Head(todo) = todo[1] /\ 1 \in DOMAIN todo /\ Head(todo) \in FrameOf
  OBVIOUS
<1>3. Head(todo) = F[Len(F) - Len(todo) + 1]
  BY <1>2 DEF EndOf
<1>4. Tail(todo) \in Seq(FrameOf) /\ Len(Tail(todo)) = Len(todo) - 1
  OBVIOUS
<1>5. ASSUME NEW i \in DOMAIN Tail(todo)
      PROVE  Tail(todo)[i] = F[Len(F) - Len(Tail(todo)) + i]
  <2>1. i \in 1 .. Len(todo) - 1 /\ i + 1 \in DOMAIN todo /\ Tail(todo)[i] = todo[i + 1]
    BY <1>4
  <2>2. todo[i + 1] = F[Len(F) - Len(todo) + (i + 1)]
    BY <2>1 DEF EndOf
  <2>3. Len(F) - Len(todo) + (i + 1) = Len(F) - Len(Tail(todo)) + i
    BY <1>1, <1>4, <2>1
  <2> QED BY <2>1, <2>2, <2>3
<1> QED BY <1>1, <1>2, <1>3, <1>4, <1>5

LEMMA AfterHead ==
    ASSUME NEW F \in Seq(FrameOf), todo \in Seq(FrameOf), EndOf(F), todo # <<>>,
           todo' = Tail(todo)
    PROVE  EndOf(F)'
BY Remaining DEF EndOf

\* A command that stores sends the value for DTR0 twice, if it has one, then its
\* setting twice, and then it asks.
LEMMA StoringFrames ==
    ASSUME cmd \in Command, Stores
    PROVE  LET n == Len(Frames(cmd)) - Asks IN
           /\ Len(Frames(cmd)) \in Nat /\ n = IF cmd.name \in Loading THEN 4 ELSE 2
           /\ cmd.name \in Loading => /\ Frames(cmd)[1] = To(Own, "dtr", cmd.val)
                                      /\ Frames(cmd)[2] = To(Own, "dtr", cmd.val)
           /\ Frames(cmd)[n - 1] = Setting /\ Frames(cmd)[n] = Setting
           /\ \A i \in n + 1 .. Len(Frames(cmd)) : Frames(cmd)[i].kind \in Queries
           /\ Setting = To(Own, CASE cmd.name = "set_scene" -> "scene"
                                  [] cmd.name = "set_fade" -> "fade"
                                  [] cmd.name = "clear_scene" -> "unscene"
                                  [] cmd.name = "set_group" -> "group"
                                  [] cmd.name = "unset_group" -> "ungroup"
                                  [] cmd.name \in {"gear_reset", "full_reset"} -> "reset",
                           IF cmd.name \in {"set_group", "unset_group"} THEN cmd.val ELSE 0)
<1> DEFINE F == Frames(cmd)
<1>1. Way(RowType) = Own /\ F # <<>>
  BY DEF Stores, Leads
<1>2. CASE cmd.name = "set_scene"
  <2>1. F = <<To(Own, "dtr", cmd.val), To(Own, "dtr", cmd.val), To(Own, "scene", 0),
              To(Own, "scene", 0), To(Own, "get_scene", 0)>>
    BY <1>1, <1>2, Programs
  <2>2. Asks = 1 /\ cmd.name \in Loading
    BY <1>2 DEF Asks, Loading
  <2>3. To(Own, "get_scene", 0).kind \in Queries
    BY DEF To, Queries
  <2>4. Setting = To(Own, "scene", 0)
    BY <2>1, <2>2 DEF Setting
  <2> QED BY <1>2, <2>1, <2>2, <2>3, <2>4
<1>3. CASE cmd.name = "set_fade"
  <2>1. F = <<To(Own, "dtr", cmd.val), To(Own, "dtr", cmd.val), To(Own, "fade", 0),
              To(Own, "fade", 0)>>
    BY <1>1, <1>3, Programs DEF Stores
  <2>2. Asks = 0 /\ cmd.name \in Loading
    BY <1>3 DEF Asks, Loading
  <2>4. Setting = To(Own, "fade", 0)
    BY <2>1, <2>2 DEF Setting
  <2> QED BY <1>3, <2>1, <2>2, <2>4
<1>4. CASE cmd.name = "clear_scene"
  <2>1. F = <<To(Own, "unscene", 0), To(Own, "unscene", 0), To(Own, "get_scene", 0)>>
    BY <1>1, <1>4, Programs DEF Stores
  <2>2. Asks = 1 /\ cmd.name \notin Loading
    BY <1>4 DEF Asks, Loading
  <2>3. To(Own, "get_scene", 0).kind \in Queries
    BY DEF To, Queries
  <2>4. Setting = To(Own, "unscene", 0)
    BY <2>1, <2>2 DEF Setting
  <2> QED BY <1>4, <2>1, <2>2, <2>3, <2>4
<1>5. CASE cmd.name = "set_group"
  <2>1. F = <<To(Own, "group", cmd.val), To(Own, "group", cmd.val),
              To(Own, "get_group", 0), To(Own, "get_group", 1)>>
    BY <1>1, <1>5, Programs DEF Stores
  <2>2. Asks = 2 /\ cmd.name \notin Loading
    BY <1>5 DEF Asks, Loading
  <2>3. /\ To(Own, "get_group", 0).kind \in Queries
        /\ To(Own, "get_group", 1).kind \in Queries
    BY DEF To, Queries
  <2>4. Setting = To(Own, "group", cmd.val)
    BY <2>1, <2>2 DEF Setting
  <2> QED BY <1>5, <2>1, <2>2, <2>3, <2>4
<1>6. CASE cmd.name = "unset_group"
  <2>1. F = <<To(Own, "ungroup", cmd.val), To(Own, "ungroup", cmd.val),
              To(Own, "get_group", 0), To(Own, "get_group", 1)>>
    BY <1>1, <1>6, Programs DEF Stores
  <2>2. Asks = 2 /\ cmd.name \notin Loading
    BY <1>6 DEF Asks, Loading
  <2>3. /\ To(Own, "get_group", 0).kind \in Queries
        /\ To(Own, "get_group", 1).kind \in Queries
    BY DEF To, Queries
  <2>4. Setting = To(Own, "ungroup", cmd.val)
    BY <2>1, <2>2 DEF Setting
  <2> QED BY <1>6, <2>1, <2>2, <2>3, <2>4
<1>7. CASE cmd.name \in {"gear_reset", "full_reset"}
  <2>1. F = <<To(Own, "reset", 0), To(Own, "reset", 0)>>
    BY <1>1, <1>7, Programs, FramesOf
  <2>2. Asks = 0 /\ cmd.name \notin Loading
    BY <1>7 DEF Asks, Loading
  <2>4. Setting = To(Own, "reset", 0)
    BY <2>1, <2>2 DEF Setting
  <2> QED BY <1>7, <2>1, <2>2, <2>4
<1> QED BY <1>2, <1>3, <1>4, <1>5, <1>6, <1>7 DEF Stores, Storing, Loading

\* Every other command changes nothing of what is stored, or does not reach the lamp.
LEMMA OtherFrames ==
    ASSUME cmd \in Command, cmd.name \notin LevelNames \cup Searches, ~Stores
    PROVE  \A i \in 1 .. Len(Frames(cmd)) :
              Reached(Frames(cmd)[i]) => Harmless(Frames(cmd)[i])
<1> DEFINE F == Frames(cmd)
           w == Way(RowType)
           Passes(f) == Reached(f) => Harmless(f)
<1> SUFFICES \A i \in 1 .. Len(F) : Passes(F[i])
  OBVIOUS
<1>1. CASE cmd.name \in Storing
  <2>1. w # Own \/ F = <<>>
    BY <1>1 DEF Stores, Leads
  <2>2. ASSUME w # Own, NEW k, NEW v
        PROVE  Passes(To(w, k, v))
    BY <2>2, Ways DEF Reached, To
  <2> HIDE DEF Passes
  <2>3. CASE cmd.name \in {"set_scene", "set_fade", "clear_scene"}
    BY <2>1, <2>2, <2>3, Programs
  <2>4. CASE cmd.name \in {"set_group", "unset_group"}
    BY <2>1, <2>2, <2>4, Programs
  <2>5. CASE cmd.name \in {"gear_reset", "full_reset"}
    <3>1. F = <<>> \/ F = <<To(w, "reset", 0), To(w, "reset", 0)>>
      BY <2>5, Programs, FramesOf
    <3> QED BY <2>1, <2>2, <3>1
  <2> QED BY <1>1, <2>3, <2>4, <2>5 DEF Storing, Loading
<1>2. CASE cmd.name \notin Storing
  <2>1. ASSUME NEW x, NEW v,
               NEW k \in {"get_group", "get_scene", "get_fade", "get_dtr", "arc", "arc_group",
                          "goto", "store", "shutter"}
        PROVE  Passes(To(x, k, v))
    BY DEF Harmless, To, Queries
  <2> HIDE DEF Passes
  <2>2. CASE cmd.name \in {"get_group", "s_reset", "get_detail", "get_scene", "clear_number"}
    <3>1. \/ F = <<>> \/ F = <<To(w, "get_group", 0), To(w, "get_group", 1)>>
          \/ F = <<To(w, "shutter", 0), To(w, "shutter", 0)>>
          \/ F = <<To(w, "get_fade", 0)>> \/ F = <<To(w, "get_scene", 0)>>
      BY <2>2, Programs, FramesOf
    <3> QED BY <2>1, <3>1
  <2>3. CASE cmd.name \in {"arc_power", "arc_power_group", "off", "action", "get_rapor"}
    BY <2>1, <2>3, Programs
  <2> QED BY <1>2, <2>2, <2>3, CommandType DEF Storing, Loading, LevelNames, Searches
<1> QED BY <1>1, <1>2

LEMMA ResetStores ==
    ASSUME NEW l \in LampOf
    PROVE  Stored(Reset(l)) = [scene |-> MASK, groups |-> {}, fade |-> 0]
BY DEF Stored, Reset, LampOf

\* The setting makes the lamp store what the command wants, a second time too.
LEMMA SettingExecuted ==
    ASSUME TypeOK, cmd \in Command, Stores, NEW l \in LampOf,
           Stored(l) \in {Wanted, Stored(before)},
           cmd.name \in Loading => l.dtr = cmd.val
    PROVE  Stored(Executed(l, Setting)) = Wanted
<1>1. Leads /\ cmd.name \in Storing /\ before \in LampOf
  BY DEF Stores, TypeOK
<1>2. cmd.name = "full_reset" => row # None
  BY FramesOf DEF Stores
<1>3. CASE cmd.name = "set_scene"
  <2>1. Wanted = [Stored(before) EXCEPT !.scene = cmd.val]
    BY <1>1, <1>3, SMT DEF Wanted
  <2>2. Setting.kind = "scene"
    BY <1>3, StoringFrames DEF To
  <2>3. Executed(l, Setting) = [l EXCEPT !.scene = l.dtr]
    BY <2>2, Zenon DEF Executed
  <2>4. l.dtr = cmd.val
    BY <1>3 DEF Loading
  <2> QED BY <1>1, <2>1, <2>3, <2>4 DEF Stored, LampOf
<1>4. CASE cmd.name = "set_fade"
  <2>1. Wanted = [Stored(before) EXCEPT !.fade = cmd.val]
    BY <1>1, <1>4, SMT DEF Wanted
  <2>2. Setting.kind = "fade"
    BY <1>4, StoringFrames DEF To
  <2>3. Executed(l, Setting) = [l EXCEPT !.fade = l.dtr]
    BY <2>2, Zenon DEF Executed
  <2>4. l.dtr = cmd.val
    BY <1>4 DEF Loading
  <2> QED BY <1>1, <2>1, <2>3, <2>4 DEF Stored, LampOf
<1>5. CASE cmd.name = "clear_scene"
  <2>1. Wanted = [Stored(before) EXCEPT !.scene = MASK]
    BY <1>1, <1>5, SMT DEF Wanted
  <2>2. Setting.kind = "unscene"
    BY <1>5, StoringFrames DEF To
  <2>3. Executed(l, Setting) = [l EXCEPT !.scene = MASK]
    BY <2>2, Zenon DEF Executed
  <2> QED BY <1>1, <2>1, <2>3 DEF Stored, LampOf
<1>6. CASE cmd.name = "set_group"
  <2>1. Wanted = [Stored(before) EXCEPT !.groups = @ \cup {cmd.val}]
    BY <1>1, <1>6, SMT DEF Wanted
  <2>2. Setting.kind = "group" /\ Setting.val = cmd.val
    BY <1>6, StoringFrames DEF To
  <2>3. Executed(l, Setting) = [l EXCEPT !.groups = @ \cup {cmd.val}]
    BY <2>2, Zenon DEF Executed
  <2> QED BY <1>1, <2>1, <2>3 DEF Stored, LampOf
<1>7. CASE cmd.name = "unset_group"
  <2>1. Wanted = [Stored(before) EXCEPT !.groups = @ \ {cmd.val}]
    BY <1>1, <1>7, SMT DEF Wanted
  <2>2. Setting.kind = "ungroup" /\ Setting.val = cmd.val
    BY <1>7, StoringFrames DEF To
  <2>3. Executed(l, Setting) = [l EXCEPT !.groups = @ \ {cmd.val}]
    BY <2>2, Zenon DEF Executed
  <2> QED BY <1>1, <2>1, <2>3 DEF Stored, LampOf
<1>8. CASE cmd.name \in {"gear_reset", "full_reset"}
  <2>1. Wanted = Stored(Reset(before))
    BY <1>1, <1>2, <1>8, SMT DEF Wanted
  <2>2. Setting.kind = "reset"
    BY <1>8, StoringFrames DEF To
  <2>3. Executed(l, Setting) = Reset(l)
    BY <2>2, Zenon DEF Executed
  <2> QED BY <1>1, <2>1, <2>3, ResetStores
<1> QED BY <1>1, <1>3, <1>4, <1>5, <1>6, <1>7, <1>8 DEF Storing, Loading
-----------------------------------------------------------------------------
(* What an answer leads to *)

LEMMA SpecialFrames ==
    /\ {Ask, Store, Fetch, CableType, WifiType, CableNext, WifiNext} \subseteq FrameOf
    /\ Ask.kind = "get_level" /\ Store.kind = "store" /\ Fetch.kind = "get_dtr"
    /\ Ask.via = Way(RowType) /\ Store.via = Way(RowType) /\ Fetch.via = Way(RowType)
    /\ CableType.kind = "type" /\ CableType.via = "cable"
    /\ WifiType.kind = "type" /\ WifiType.via = "wifi"
    /\ CableNext.kind = "ext_type" /\ CableNext.via = "cable"
    /\ WifiNext.kind = "ext_type" /\ WifiNext.via = "wifi"
<1>1. {"get_level", "store", "get_dtr", "type", "ext_type"} \subseteq Kinds
  BY DEF Kinds, Twice, Queries
<1>2. Way(RowType) \in Via /\ {"cable", "wifi"} \subseteq Via /\ 0 \in 0 .. 254
  BY Ways DEF Via
<1>3. \A w \in Via, k \in Kinds : To(w, k, 0) \in FrameOf
  BY FrameType
<1> QED BY <1>1, <1>2, <1>3 DEF Ask, Store, Fetch, CableType, WifiType, CableNext, WifiNext, To

LEMMA LevelTodo ==
    ASSUME ProgramInv, cmd # None, cmd.name \in LevelNames
    PROVE  todo \in {<<Ask>>, <<Store, Store, Fetch>>, <<Store, Fetch>>, <<Fetch>>, <<>>}
BY DEF ProgramInv, LevelPrograms

LEMMA SearchTodo ==
    ASSUME ProgramInv, cmd # None, cmd.name \in Searches
    PROVE  todo \in {<<CableType, WifiType>>, <<CableType>>, <<WifiType>>, <<>>,
                     <<CableNext, WifiType>>, <<CableNext>>, <<WifiNext>>}
<1>1. cmd.name \notin LevelNames
  BY DEF LevelNames, Searches
<1> QED BY <1>1 DEF ProgramInv, SearchPrograms

LEMMA PlainTodo ==
    ASSUME TypeOK, ProgramInv, cmd # None, cmd.name \notin LevelNames \cup Searches, todo # <<>>
    PROVE  /\ cmd \in Command /\ Frames(cmd) \in Seq(FrameOf) /\ EndOf(Frames(cmd))
           /\ Head(todo) \in FrameOf /\ Tail(todo) \in Seq(FrameOf)
           /\ Head(todo).kind \notin {"get_level", "type", "ext_type"}
           /\ Head(todo).kind = "get_dtr" => cmd.name = "get_rapor"
<1>1. cmd \in Command /\ EndOf(Frames(cmd)) /\ todo \in Seq(FrameOf)
  BY DEF TypeOK, ProgramInv
<1>2. Frames(cmd) \in Seq(FrameOf)
  BY <1>1, PlainFrames
<1>3. /\ Len(Frames(cmd)) - Len(todo) + 1 \in 1 .. Len(Frames(cmd))
      /\ Head(todo) = Frames(cmd)[Len(Frames(cmd)) - Len(todo) + 1] /\ Head(todo) \in FrameOf
      /\ Tail(todo) \in Seq(FrameOf)
  BY <1>1, <1>2, Remaining
<1> QED BY <1>1, <1>2, <1>3, PlainFrames

LEMMA PlainResult ==
    ASSUME TypeOK, ProgramInv, cmd # None, cmd.name \notin LevelNames \cup Searches, todo # <<>>,
           NEW a, Result(a)
    PROVE  /\ todo' = Tail(todo) /\ kk' = Append(kk, a) /\ row' = row
           /\ try' = [udp |-> 1, level |-> try.level]
<1>1. /\ Head(todo).kind \notin {"get_level", "type", "ext_type"}
      /\ Head(todo).kind = "get_dtr" => cmd.name = "get_rapor"
  BY PlainTodo
<1>2. todo' = Tail(todo) /\ try' = [udp |-> 1, level |-> try.level]
  BY <1>1, SMT DEF Result, AfterAnswer, Once
<1> QED BY <1>1, <1>2 DEF Result, Keep, SaveRow

LEMMA LevelResult ==
    ASSUME TypeOK, ProgramInv, cmd # None, cmd.name \in LevelNames, todo # <<>>,
           Head(todo).kind \in Queries, NEW a \in AnswerOf, Result(a)
    PROVE  /\ kk' = <<a>> /\ row' = row
           /\ try' = [udp |-> 1, level |-> IF todo' = <<Ask>> THEN 2 ELSE try.level]
           /\ \/ todo = <<Ask>> /\ (a = Timeout \/ a.data = 255) /\ todo' = <<Store, Store, Fetch>>
              \/ todo = <<Ask>> /\ a # Timeout /\ a.data # 255 /\ todo' = <<>>
              \/ todo = <<Fetch>> /\ a = Timeout /\ try.level = 1 /\ todo' = <<Ask>>
              \/ todo = <<Fetch>> /\ (a # Timeout \/ try.level # 1) /\ todo' = <<>>
<1>1. cmd.name \notin {"search", "get_rapor"}
  BY DEF LevelNames
<1>2. kk' = <<a>> /\ row' = row
  BY <1>1 DEF Result, Keep, SaveRow
<1>3. CASE todo = <<Ask>>
  <2>1. Head(todo) = Ask /\ Tail(todo) = <<>>
    BY <1>3
  <2>2. CASE a = Timeout \/ a.data = 255
    <3>1. todo' = On(Ask.via, get_level_stored) /\ Once(try.level)
      BY <2>1, <2>2, SpecialFrames, SMT DEF Result, AfterAnswer, MASK
    <3>2. todo' = <<Store, Store, Fetch>>
      BY <3>1, SpecialFrames, Tuples DEF Store, Fetch
    <3> QED BY <1>2, <1>3, <2>2, <3>1, <3>2 DEF Once
  <2>3. CASE a # Timeout /\ a.data # 255
    <3>1. todo' = <<>> /\ Once(try.level)
      BY <2>1, <2>3, SpecialFrames, SMT DEF Result, AfterAnswer, MASK
    <3> QED BY <1>2, <1>3, <2>3, <3>1 DEF Once
  <2> QED BY <2>2, <2>3
<1>4. CASE todo = <<Fetch>>
  <2>1. Head(todo) = Fetch /\ Tail(todo) = <<>>
    BY <1>4
  <2>2. CASE a = Timeout /\ try.level = 1
    <3>1. todo' = On(Fetch.via, <<Frame("get_level", 0)>>) /\ Once(2)
      BY <1>1, <2>1, <2>2, SpecialFrames, SMT DEF Result, AfterAnswer, MASK
    <3>2. todo' = <<Ask>>
      BY <3>1, SpecialFrames, Tuples DEF Ask
    <3> QED BY <1>2, <1>4, <2>2, <3>1, <3>2 DEF Once
  <2>3. CASE a # Timeout \/ try.level # 1
    <3>1. todo' = <<>> /\ Once(try.level)
      BY <2>1, <2>3, SpecialFrames, Zenon DEF Result, AfterAnswer
    <3> QED BY <1>2, <1>4, <2>3, <3>1 DEF Once
  <2> QED BY <2>2, <2>3
<1>5. todo # <<Store, Store, Fetch>> /\ todo # <<Store, Fetch>>
  BY SpecialFrames DEF Queries
<1> QED BY <1>3, <1>4, <1>5, LevelTodo

LEMMA ShortConcat ==
    ASSUME NEW a, NEW b
    PROVE  <<a>> \o <<b>> = <<a, b>> /\ <<a>> \o <<>> = <<a>>
<1> DEFINE S == {a, b}
<1>1. <<a>> \in Seq(S) /\ <<b>> \in Seq(S) /\ <<a, b>> \in Seq(S)
  OBVIOUS
<1>2. /\ <<a>> \o <<b>> \in Seq(S) /\ Len(<<a>> \o <<b>>) = 2
      /\ (<<a>> \o <<b>>)[1] = a /\ (<<a>> \o <<b>>)[2] = b
  <2>1. Len(<<a>>) = 1 /\ Len(<<b>>) = 1 /\ <<a>>[1] = a /\ <<b>>[1] = b
    OBVIOUS
  <2> QED BY <1>1, <2>1, ConcatProperties
<1>3. <<a>> \o <<b>> = <<a, b>>
  <2> DEFINE s == <<a>> \o <<b>>
             t == <<a, b>>
  <2>1. Len(t) = 2 /\ t[1] = a /\ t[2] = b
    OBVIOUS
  <2>2. s \in Seq(S) /\ t \in Seq(S) /\ Len(s) = 2 /\ s[1] = a /\ s[2] = b
    BY <1>1, <1>2
  <2> HIDE DEF s, t, S
  <2>3. Len(s) = Len(t) /\ \A i \in 1 .. Len(s) : s[i] = t[i]
    BY <2>1, <2>2
  <2>4. s = t
    BY <2>2, <2>3, SeqEqual, Zenon
  <2> QED BY <2>4 DEF s, t
<1> QED BY <1>1, <1>3, ConcatEmptySeq

LEMMA ShortAppend ==
    ASSUME NEW a, NEW b
    PROVE  Append(<<a>>, b) = <<a, b>>
<1> DEFINE S == {a, b}
           s == Append(<<a>>, b)
           t == <<a, b>>
<1>1. <<a>> \in Seq(S) /\ Len(<<a>>) = 1 /\ <<a>>[1] = a /\ b \in S
  OBVIOUS
<1>2. t \in Seq(S) /\ Len(t) = 2 /\ t[1] = a /\ t[2] = b
  OBVIOUS
<1>3. s \in Seq(S) /\ Len(s) = 2 /\ s[1] = a /\ s[2] = b
  BY <1>1, AppendProperties
<1> HIDE DEF s, t, S
<1>4. Len(s) = Len(t) /\ \A i \in 1 .. Len(s) : s[i] = t[i]
  BY <1>2, <1>3
<1>5. s = t
  BY <1>2, <1>3, <1>4, SeqEqual, Zenon
<1> QED BY <1>5 DEF s, t

LEMMA SearchResult ==
    ASSUME TypeOK, ProgramInv, cmd # None, cmd.name \in Searches, todo # <<>>,
           NEW a, Result(a)
    PROVE  /\ kk' = Append(kk, a) /\ try' = [udp |-> 1, level |-> try.level]
           /\ \/ /\ Head(todo).kind = "type" /\ a # Timeout /\ row' = row
                 /\ \/ todo = <<CableType, WifiType>> /\ todo' = <<CableNext, WifiType>>
                    \/ todo = <<CableType>> /\ todo' = <<CableNext>>
                    \/ todo = <<WifiType>> /\ todo' = <<WifiNext>>
              \/ Head(todo).kind = "type" /\ a = Timeout /\ todo' = Tail(todo) /\ row' = row
              \/ /\ Head(todo).kind = "ext_type" /\ todo' = Tail(todo)
                 /\ row' = IF cmd.name = "search"
                           THEN Row(Last(kk).data, IF a = Timeout THEN Last(kk).data ELSE a.data)
                           ELSE row
<1>1. cmd.name \notin LevelNames
  BY DEF LevelNames, Searches
<1>2. kk' = Append(kk, a)
  BY <1>1 DEF Result, Keep
<1>3. CASE Head(todo).kind = "type"
  <2>1. row' = row
    BY <1>3 DEF Result, SaveRow
  <2>2. CASE a = Timeout
    <3>1. todo' = Tail(todo) /\ Once(try.level)
      BY <1>3, <2>2, SMT DEF Result, AfterAnswer
    <3> QED BY <1>2, <1>3, <2>1, <2>2, <3>1 DEF Once
  <2>3. CASE a # Timeout
    <3>1. /\ todo' = On(Head(todo).via, <<Frame("ext_type", 0)>>) \o Tail(todo)
          /\ Once(try.level)
      BY <1>3, <2>3, Zenon DEF Result, AfterAnswer
    <3>2. todo' = <<To(Head(todo).via, "ext_type", 0)>> \o Tail(todo)
      BY <3>1, Tuples
    <3>3. CASE todo = <<CableType, WifiType>>
      <4>1. Head(todo).via = "cable" /\ Tail(todo) = <<WifiType>>
        BY <3>3, SpecialFrames
      <4>2. todo' = <<CableNext>> \o <<WifiType>>
        BY <3>2, <4>1 DEF CableNext
      <4>3. todo' = <<CableNext, WifiType>>
        BY <4>2, SpecialFrames, ShortConcat
      <4> QED BY <1>2, <1>3, <2>1, <2>3, <3>1, <3>3, <4>3 DEF Once
    <3>4. CASE todo = <<CableType>>
      <4>1. Head(todo).via = "cable" /\ Tail(todo) = <<>>
        BY <3>4, SpecialFrames
      <4>2. todo' = <<CableNext>> \o <<>>
        BY <3>2, <4>1 DEF CableNext
      <4>3. todo' = <<CableNext>>
        BY <4>2, SpecialFrames, ShortConcat
      <4> QED BY <1>2, <1>3, <2>1, <2>3, <3>1, <3>4, <4>3 DEF Once
    <3>5. CASE todo = <<WifiType>>
      <4>1. Head(todo).via = "wifi" /\ Tail(todo) = <<>>
        BY <3>5, SpecialFrames
      <4>2. todo' = <<WifiNext>> \o <<>>
        BY <3>2, <4>1 DEF WifiNext
      <4>3. todo' = <<WifiNext>>
        BY <4>2, SpecialFrames, ShortConcat
      <4> QED BY <1>2, <1>3, <2>1, <2>3, <3>1, <3>5, <4>3 DEF Once
    <3>6. /\ todo # <<CableNext, WifiType>> /\ todo # <<CableNext>> /\ todo # <<WifiNext>>
      BY <1>3, SpecialFrames
    <3> QED BY <3>3, <3>4, <3>5, <3>6, SearchTodo
  <2> QED BY <2>2, <2>3
<1>4. CASE Head(todo).kind # "type"
  <2>1. Head(todo).kind = "ext_type"
    BY <1>4, SearchTodo, SpecialFrames
  <2>2. todo' = Tail(todo) /\ Once(try.level)
    BY <2>1, SMT DEF Result, AfterAnswer
  <2>3. row' = IF cmd.name = "search"
               THEN Row(Last(kk).data, IF a = Timeout THEN Last(kk).data ELSE a.data)
               ELSE row
    BY <2>1 DEF Result, SaveRow
  <2> QED BY <1>2, <2>1, <2>2, <2>3 DEF Once
<1> QED BY <1>3, <1>4
-----------------------------------------------------------------------------
(* The steps *)

LEMMA AnswerType ==
    ASSUME TypeOK, NEW f
    PROVE  /\ Received(Answer(f)) \in AnswerOf /\ Timeout \in AnswerOf /\ Back(MASK) \in AnswerOf
           /\ Timeout # Back(MASK)
<1>1. Answer(f) \in 0 .. 255
  <2>1. /\ lamp.scene \in 0 .. 255 /\ lamp.fade \in 0 .. 255 /\ lamp.level \in 0 .. 255
        /\ lamp.dtr \in 0 .. 255 /\ type \in 0 .. 255
    BY DEF TypeOK, LampOf, WIFI_LAMP, LAMP, SEVERAL
  <2>2. Answer(f) \in {lamp.scene, lamp.fade, type, NEXT_TYPE, 0, 1, lamp.level, lamp.dtr}
    BY SMT DEF Answer
  <2> QED BY <2>1, <2>2 DEF NEXT_TYPE
<1> QED BY <1>1 DEF Received, Timeout, Back, AnswerOf, MASK

\* A question ends with the answer a.
Closes(a) ==
    /\ cmd # None /\ todo # <<>> /\ Head(todo).kind \in Queries
    /\ a \in AnswerOf /\ Result(a)
    /\ mm' = None /\ UNCHANGED <<device, command>>
    /\ lamp' \in LampOf /\ lamp'.dtr = lamp.dtr /\ Stored(lamp') = Stored(lamp)
    /\ once' \in {once, None}
    /\ \/ /\ Reached(Head(todo)) /\ a = Received(Answer(Head(todo)))
          /\ UNCHANGED <<lamp, hits, seen, spoiled>>
       \/ /\ a = Timeout /\ Head(todo).via = "wifi" /\ wireless /\ hits >= 1
          /\ seen' = seen \cup {lamp'.level} /\ hits' = hits /\ spoiled' = TRUE
       \/ /\ Reached(Head(todo)) /\ a = Back(MASK) /\ Head(todo).kind = "get_level"
          /\ hits' = hits + 1 /\ UNCHANGED <<lamp, seen, spoiled>>
       \/ /\ a = Timeout /\ hits' = IF Reached(Head(todo)) THEN hits + 1 ELSE hits
          /\ Reached(Head(todo)) \/ once' = once
          /\ ~(/\ Head(todo).via = "wifi" /\ Head(todo).kind \notin {"type", "ext_type"}
               /\ try.udp < 3)
          /\ UNCHANGED <<lamp, seen, spoiled>>

\* Or it is asked again.
Retried ==
    /\ cmd # None /\ todo # <<>> /\ Head(todo).kind \in Queries \ {"type", "ext_type"}
    /\ Head(todo).via = "wifi" /\ try.udp < 3 /\ try' = [try EXCEPT !.udp = @ + 1]
    /\ hits' = (IF Reached(Head(todo)) THEN hits + 1 ELSE hits) /\ once' \in {once, None}
    /\ Reached(Head(todo)) \/ once' = once
    /\ UNCHANGED <<device, row, lamp, command, todo, kk, buffer, seen>>

\* A task puts a frame for all lamps in between.
Switched ==
    /\ cmd # None /\ hits' = hits + 1 /\ once' = None
    /\ lamp' \in LampOf /\ lamp'.dtr = lamp.dtr /\ Stored(lamp') = Stored(lamp)
    /\ seen' = seen \cup {lamp'.level}
    /\ mm' \in Switching \cup {None} /\ (mm' # None => UdpQuestion /\ wireless)
    /\ UNCHANGED <<device, row, command, todo, kk, try, spoiled>>

LEMMA SwitchedBy ==
    ASSUME TypeOK, NEW f \in Switching, Between(f)
    PROVE  Switched
<1>1. PICK v \in 0 .. 254 : lamp' = [lamp EXCEPT !.level = v]
  BY HeardSwitch DEF Between
<1>2. lamp' \in LampOf /\ lamp'.dtr = lamp.dtr /\ Stored(lamp') = Stored(lamp)
  BY <1>1, LevelStored DEF TypeOK
<1>3. once' = None
  BY HeardSwitch DEF Between
<1>4. mm' \in Switching \cup {None} /\ (mm' # None => UdpQuestion /\ wireless)
  BY DEF Between, TypeOK
<1> QED BY <1>2, <1>3, <1>4 DEF Between, Fault, Switched

LEMMA Questions ==
    ASSUME TypeOK, BufferInv, ProgramInv, Answered \/ Overwritten \/ Masked \/ Unanswered
    PROVE  Retried \/ \E a : Closes(a)
<1>1. todo # <<>> => cmd # None /\ Head(todo) \in FrameOf
  BY DEF ProgramInv, TypeOK
<1>2. lamp \in LampOf /\ hits \in Nat
  BY DEF TypeOK
<1>3. CASE Answered
  <2>1. todo # <<>> /\ Head(todo).kind \in Queries /\ Head(todo) \in FrameOf
    BY <1>1, <1>3 DEF Answered
  <2>2. lamp' = lamp /\ once' = None
    BY <1>3, <2>1, HeardQuery DEF Answered
  <2>3. Closes(Received(Answer(Head(todo))))
    BY <1>1, <1>2, <1>3, <2>1, <2>2, AnswerType DEF Answered, Closes, buffer
  <2> QED BY <2>3
<1>4. CASE Overwritten
  <2>1. /\ todo # <<>> /\ Head(todo).kind \in Queries /\ Head(todo).via = "wifi"
        /\ wireless /\ hits >= 1 /\ mm \in Switching
    BY <1>4 DEF Overwritten, BufferInv, UdpQuestion, TypeOK
  <2>2. once' = None
    BY <1>4, <2>1, HeardSwitch DEF Overwritten
  <2>3. PICK v \in 0 .. 254 : lamp' = [lamp EXCEPT !.level = v]
    BY <1>4, <2>1, HeardSwitch DEF Overwritten
  <2>4. lamp' \in LampOf /\ lamp'.dtr = lamp.dtr /\ Stored(lamp') = Stored(lamp)
    BY <1>2, <2>3, LevelStored
  <2>5. Closes(Timeout)
    BY <1>1, <1>4, <2>1, <2>2, <2>4, AnswerType DEF Overwritten, Closes
  <2> QED BY <2>5
<1>5. CASE Masked
  <2>1. todo # <<>> /\ Head(todo).kind \in Queries /\ Head(todo) \in FrameOf
    BY <1>1, <1>5 DEF Masked, Queries
  <2>2. lamp' = lamp /\ once' = None
    BY <1>5, <2>1, HeardQuery DEF Masked
  <2>3. Closes(Back(MASK))
    BY <1>1, <1>2, <1>5, <2>1, <2>2, AnswerType DEF Masked, Closes, Fault, buffer
  <2> QED BY <2>3
<1>6. CASE Unanswered
  <2>1. /\ todo # <<>> /\ Head(todo).kind \in Queries /\ cmd # None
        /\ UNCHANGED <<device, lamp, command, spoiled, seen>>
    BY <1>1, <1>6 DEF Unanswered
  <2>2. /\ hits' = (IF Reached(Head(todo)) THEN hits + 1 ELSE hits) /\ once' \in {once, None}
        /\ Reached(Head(todo)) \/ once' = once
    BY <1>6 DEF Unanswered, Lost, Fault
  <2>3. CASE /\ Head(todo).via = "wifi" /\ Head(todo).kind \notin {"type", "ext_type"}
             /\ try.udp < 3
    <3>1. try' = [try EXCEPT !.udp = @ + 1] /\ UNCHANGED <<todo, kk, row, mm>>
      BY <1>6, <2>3 DEF Unanswered
    <3> QED BY <2>1, <2>2, <2>3, <3>1 DEF Retried, buffer
  <2>4. CASE ~(/\ Head(todo).via = "wifi" /\ Head(todo).kind \notin {"type", "ext_type"}
               /\ try.udp < 3)
    <3>1. Result(Timeout) /\ mm' = None
      BY <1>6, <2>4 DEF Unanswered
    <3>2. Closes(Timeout)
      BY <1>2, <2>1, <2>2, <2>4, <3>1, AnswerType DEF Closes
    <3> QED BY <3>2
  <2> QED BY <2>3, <2>4
<1> QED BY <1>3, <1>4, <1>5, <1>6

\* Every step of the specification is one of these.
LEMMA Steps ==
    ASSUME TypeOK, BufferInv, ProgramInv, [Next]_vars
    PROVE  \/ UNCHANGED vars \/ (\E c \in Command : Start(c)) \/ DaliSend \/ Retried
           \/ (\E a : Closes(a)) \/ Switched \/ Reply
BY Questions, SwitchedBy DEF Next

LEMMA SameFrames ==
    ASSUME cmd' = cmd, row' = row
    PROVE  Frames(cmd)' = Frames(cmd) /\ Way(RowType)' = Way(RowType)
<1>1. Way(RowType)' = Way(RowType)
  BY DEF RowType
<1>2. Frames(cmd)' = Frames(cmd)
  BY <1>1, Zenon DEF Frames, RowType
<1> QED BY <1>1, <1>2

LEMMA AnyFrames ==
    ASSUME NEW c \in Command
    PROVE  /\ Frames(c) \in Seq(FrameOf)
           /\ c.name \in LevelNames => Frames(c) \in {<<Ask>>, <<>>}
           /\ c.name \in Searches =>
                 \/ c.val = 0 /\ Frames(c) = <<WifiType>>
                 \/ c.val = 1 /\ Frames(c) = <<CableType>>
                 \/ c.val = 2 /\ Frames(c) = <<CableType, WifiType>>
<1>1. c.name \in LevelNames => Frames(c) \in {<<Ask>>, <<>>}
  BY Programs, FramesOf DEF LevelNames, Ask
<1>2. c.name \in Searches => \/ c.val = 0 /\ Frames(c) = <<WifiType>>
                             \/ c.val = 1 /\ Frames(c) = <<CableType>>
                             \/ c.val = 2 /\ Frames(c) = <<CableType, WifiType>>
  <2>1. /\ On("cable", <<Frame("type", 0)>>) = <<CableType>>
        /\ On("wifi", <<Frame("type", 0)>>) = <<WifiType>>
    BY Tuples DEF CableType, WifiType
  <2>2. /\ <<CableType>> \o <<WifiType>> = <<CableType, WifiType>>
        /\ <<CableType>> \o <<>> = <<CableType>>
        /\ <<>> \o <<WifiType>> = <<WifiType>>
    <3>1. <<WifiType>> \in Seq({WifiType})
      OBVIOUS
    <3> QED BY <3>1, ShortConcat, ConcatEmptySeq
  <2>3. c.name \in Searches => c.val \in 0 .. 2
    BY CommandType DEF Searches
  <2>4. c.name \in Searches => Frames(c) = search(c.val)
    BY FramesOf
  <2>5. search(0) = <<WifiType>> /\ search(1) = <<CableType>> /\ search(2) = <<CableType, WifiType>>
    <3>1. /\ search(0) = <<>> \o <<WifiType>>
          /\ search(1) = <<CableType>> \o <<>>
          /\ search(2) = <<CableType>> \o <<WifiType>>
      <4>1. /\ 0 # 1 /\ 1 # 0 /\ 2 # 0 /\ 2 # 1
        OBVIOUS
      <4> QED BY <2>1, <4>1, Zenon DEF search
    <3> QED BY <2>2, <3>1
  <2> QED BY <2>3, <2>4, <2>5
<1>3. Frames(c) \in Seq(FrameOf)
  <2> Ask \in FrameOf /\ CableType \in FrameOf /\ WifiType \in FrameOf
    BY SpecialFrames
  <2> /\ <<>> \in Seq(FrameOf) /\ <<Ask>> \in Seq(FrameOf) /\ <<CableType>> \in Seq(FrameOf)
      /\ <<WifiType>> \in Seq(FrameOf) /\ <<CableType, WifiType>> \in Seq(FrameOf)
    OBVIOUS
  <2>1. CASE c.name \in LevelNames
    BY <2>1, <1>1
  <2>2. CASE c.name \in Searches
    BY <2>2, <1>2
  <2>3. CASE c.name \notin LevelNames \cup Searches
    BY <2>3, PlainFrames
  <2> QED BY <2>1, <2>2, <2>3
<1> QED BY <1>1, <1>2, <1>3

LEMMA StartsIdle ==
    ASSUME ProgramInv, BufferInv, cmd = None \/ todo = <<>>
    PROVE  todo = <<>> /\ mm = None
BY DEF ProgramInv, BufferInv, UdpQuestion

\* The programs go on as they should.
LEMMA ProgramStep ==
    ASSUME TypeOK, BufferInv, ProgramInv, [Next]_vars
    PROVE  ProgramInv'
<1> USE DEF device, command, buffer
<1>0. LevelPrograms = {<<Ask>>, <<Store, Store, Fetch>>, <<Store, Fetch>>, <<Fetch>>, <<>>}
  BY DEF LevelPrograms
<1>1. SearchPrograms = {<<CableType, WifiType>>, <<CableType>>, <<WifiType>>, <<>>,
                        <<CableNext, WifiType>>, <<CableNext>>, <<WifiNext>>}
  BY DEF SearchPrograms
<1>2. ASSUME cmd' = cmd, row' = row
      PROVE  LevelPrograms' = LevelPrograms
  BY <1>2, SameFrames DEF LevelPrograms, Ask, Store, Fetch
<1>3. CASE UNCHANGED vars
  BY <1>2, <1>3, SameFrames DEF ProgramInv, EndOf, vars
<1>4. ASSUME NEW c \in Command, Start(c)
      PROVE  ProgramInv'
  <2>1. /\ cmd' = c /\ todo' = Frames(c) /\ c # None
        /\ row' = IF c.name = "clear_number" THEN None ELSE row
    BY <1>4, NoneAssumption DEF Start
  <2>2. CASE c.name \in LevelNames
    <3>1. row' = row
      BY <2>1, <2>2 DEF LevelNames
    <3>2. LevelPrograms' = LevelPrograms
      BY <3>1 DEF LevelPrograms, RowType, Ask, Store, Fetch
    <3> QED BY <1>0, <2>1, <2>2, <3>2, AnyFrames DEF ProgramInv
  <2>3. CASE c.name \in Searches
    <3>1. c.name \notin LevelNames
      BY <2>3 DEF Searches, LevelNames
    <3> QED BY <1>1, <2>1, <2>3, <3>1, AnyFrames DEF ProgramInv
  <2>4. CASE c.name \notin LevelNames \cup Searches
    <3>1. todo' = Frames(cmd)'
      <4>1. CASE c.name = "clear_number"
        BY <2>1, <4>1, FramesOf, Zenon DEF Frames
      <4>2. CASE c.name # "clear_number"
        BY <2>1, <4>2, Zenon DEF Frames, RowType
      <4> QED BY <4>1, <4>2
    <3>2. todo' \in Seq(FrameOf)
      BY <2>1, AnyFrames
    <3>3. EndOf(Frames(cmd))'
      BY <3>1, <3>2 DEF EndOf
    <3> QED BY <2>1, <2>4, <3>3 DEF ProgramInv
  <2> QED BY <2>2, <2>3, <2>4
<1>5. CASE DaliSend
  <2>1. /\ todo # <<>> /\ Head(todo).kind \notin Queries /\ todo' = Tail(todo)
        /\ cmd' = cmd /\ row' = row /\ cmd # None
    BY <1>5 DEF DaliSend, ProgramInv
  <2>2. CASE cmd.name \in LevelNames
    <3>1. todo \in {<<Store, Store, Fetch>>, <<Store, Fetch>>}
      BY <2>1, <2>2, LevelTodo, SpecialFrames DEF Queries
    <3>2. todo' \in LevelPrograms
      <4>1. todo' \in {<<Store, Fetch>>, <<Fetch>>}
        <5>1. CASE todo = <<Store, Store, Fetch>>
          BY <2>1, <5>1
        <5>2. CASE todo = <<Store, Fetch>>
          BY <2>1, <5>2
        <5> QED BY <3>1, <5>1, <5>2
      <4> QED BY <1>0, <4>1
    <3> QED BY <1>2, <2>1, <2>2, <3>2 DEF ProgramInv
  <2>3. CASE cmd.name \in Searches
    BY <2>1, <2>3, SearchTodo, SpecialFrames DEF Queries
  <2>4. CASE cmd.name \notin LevelNames \cup Searches
    BY <2>1, <2>4, PlainTodo, AfterHead, SameFrames DEF ProgramInv, EndOf, TypeOK
  <2> QED BY <2>2, <2>3, <2>4
<1>6. CASE Retried \/ Switched
  <2>1. cmd' = cmd /\ row' = row /\ todo' = todo
    BY <1>6 DEF Retried, Switched
  <2> QED BY <1>2, <2>1, SameFrames DEF ProgramInv, EndOf
<1>7. ASSUME NEW a, Closes(a)
      PROVE  ProgramInv'
  <2>1. /\ cmd # None /\ todo # <<>> /\ Head(todo).kind \in Queries /\ cmd' = cmd
        /\ a \in AnswerOf /\ Result(a)
    BY <1>7 DEF Closes
  <2>2. CASE cmd.name \in LevelNames
    <3>1. todo' \in LevelPrograms /\ row' = row
      BY <1>0, <2>1, <2>2, LevelResult
    <3> QED BY <1>2, <2>1, <2>2, <3>1 DEF ProgramInv
  <2>3. CASE cmd.name \in Searches
    <3>1. todo' \in SearchPrograms
      <4>1. todo' \in SearchPrograms \/ todo' = Tail(todo)
        BY <1>1, <2>1, <2>3, SearchResult
      <4>2. Tail(todo) \in SearchPrograms
        <5>1. Tail(todo) \in {<<WifiType>>, <<>>}
          <6>1. CASE todo = <<CableType, WifiType>>
            BY <6>1
          <6>2. CASE todo = <<CableNext, WifiType>>
            BY <6>2
          <6>3. CASE todo = <<CableType>>
            BY <6>3
          <6>4. CASE todo = <<WifiType>>
            BY <6>4
          <6>5. CASE todo = <<CableNext>>
            BY <6>5
          <6>6. CASE todo = <<WifiNext>>
            BY <6>6
          <6> QED BY <2>1, <2>3, <6>1, <6>2, <6>3, <6>4, <6>5, <6>6, SearchTodo
        <5> QED BY <1>1, <5>1
      <4> QED BY <4>1, <4>2
    <3>2. cmd.name \notin LevelNames /\ SearchPrograms' = SearchPrograms
      BY <2>3 DEF LevelNames, Searches, SearchPrograms, CableType, WifiType, CableNext, WifiNext
    <3> QED BY <2>1, <2>3, <3>1, <3>2 DEF ProgramInv
  <2>4. CASE cmd.name \notin LevelNames \cup Searches
    <3>1. todo' = Tail(todo) /\ row' = row
      BY <2>1, <2>4, PlainResult
    <3> QED BY <2>1, <2>4, <3>1, PlainTodo, AfterHead, SameFrames DEF ProgramInv, EndOf, TypeOK
  <2> QED BY <2>2, <2>3, <2>4
<1>8. CASE Reply
  BY <1>8 DEF Reply, Done, ProgramInv
<1> QED BY <1>3, <1>4, <1>5, <1>6, <1>7, <1>8, Steps

LEMMA HeadType ==
    ASSUME TypeOK, todo # <<>>
    PROVE  Head(todo) \in FrameOf /\ Tail(todo) \in Seq(FrameOf) /\ todo[1] = Head(todo)
BY DEF TypeOK

LEMMA TypeStep ==
    ASSUME TypeOK, BufferInv, ProgramInv, RowInv, [Next]_vars
    PROVE  TypeOK'
<1> USE DEF device, command, buffer
<1>1. CASE UNCHANGED vars
  BY <1>1 DEF TypeOK, vars
<1>2. ASSUME NEW c \in Command, Start(c)
      PROVE  TypeOK'
  <2>1. Frames(c) \in Seq(FrameOf)
    BY AnyFrames
  <2>2. lamp.level \in 0 .. 254
    BY DEF TypeOK, LampOf
  <2> QED BY <1>2, <2>1, <2>2 DEF Start, TypeOK
<1>3. CASE DaliSend
  <2>1. todo # <<>> /\ todo' = Tail(todo)
    BY <1>3 DEF DaliSend
  <2>2. lamp' \in LampOf /\ once' \in FrameOf \cup {None} /\ hits' \in Nat
    <3>1. CASE Hears(Head(todo)) /\ UNCHANGED <<faults, hits>>
      BY <2>1, <3>1, HeadType, HeardFrame DEF TypeOK
    <3>2. CASE Fault /\ UNCHANGED <<lamp, once>>
      BY <3>2 DEF Fault, TypeOK
    <3>3. CASE UNCHANGED <<lamp, once, faults, hits>>
      BY <3>3 DEF TypeOK
    <3> QED BY <1>3, <3>1, <3>2, <3>3 DEF DaliSend
  <2>3. UNCHANGED <<device, row, command, kk, try, buffer, seen>>
    BY <1>3 DEF DaliSend
  <2> QED BY <2>1, <2>2, <2>3, HeadType DEF TypeOK
<1>4. CASE Retried
  <2>1. try' \in [udp : 1 .. 3, level : 1 .. 2]
    BY <1>4 DEF Retried, TypeOK
  <2>2. hits' \in Nat /\ once' \in FrameOf \cup {None}
    BY <1>4 DEF Retried, TypeOK
  <2> QED BY <1>4, <2>1, <2>2 DEF Retried, TypeOK
<1>5. ASSUME NEW a, Closes(a)
      PROVE  TypeOK'
  <2>1. /\ cmd # None /\ todo # <<>> /\ Head(todo).kind \in Queries
        /\ a \in AnswerOf /\ Result(a)
    BY <1>5 DEF Closes
  <2>2. /\ <<a>> \in Seq(AnswerOf) /\ Append(kk, a) \in Seq(AnswerOf)
        /\ Tail(todo) \in Seq(FrameOf)
    BY <2>1, HeadType DEF TypeOK
  <2>3. /\ [udp |-> 1, level |-> try.level] \in [udp : 1 .. 3, level : 1 .. 2]
        /\ [udp |-> 1, level |-> 2] \in [udp : 1 .. 3, level : 1 .. 2]
    BY DEF TypeOK
  <2>4. /\ Ask \in FrameOf /\ Store \in FrameOf /\ Fetch \in FrameOf
        /\ CableNext \in FrameOf /\ WifiNext \in FrameOf /\ WifiType \in FrameOf
    BY SpecialFrames
  <2>5. /\ kk' \in Seq(AnswerOf) /\ todo' \in Seq(FrameOf)
        /\ try' \in [udp : 1 .. 3, level : 1 .. 2] /\ row' \in Device \cup {None}
    <3>1. CASE cmd.name \in LevelNames
      <4>1. todo' \in Seq(FrameOf)
        <5>1. /\ <<Store, Store, Fetch>> \in Seq(FrameOf) /\ <<Ask>> \in Seq(FrameOf)
              /\ <<>> \in Seq(FrameOf)
          BY <2>4
        <5>2. todo' \in {<<Store, Store, Fetch>>, <<Ask>>, <<>>}
          BY <2>1, <3>1, LevelResult
        <5> QED BY <5>1, <5>2
      <4>2. kk' = <<a>> /\ row' = row
            /\ try' = [udp |-> 1, level |-> IF todo' = <<Ask>> THEN 2 ELSE try.level]
        BY <2>1, <3>1, LevelResult
      <4> QED BY <2>2, <2>3, <4>1, <4>2 DEF TypeOK
    <3>2. CASE cmd.name \in Searches
      <4>1. kk' = Append(kk, a) /\ try' = [udp |-> 1, level |-> try.level]
        BY <2>1, <3>2, SearchResult
      <4>2. \/ row' = row /\ (todo' = Tail(todo) \/ todo' = <<CableNext, WifiType>>
                                \/ todo' = <<CableNext>> \/ todo' = <<WifiNext>>)
            \/ /\ Head(todo).kind = "ext_type" /\ todo' = Tail(todo)
               /\ row' = IF cmd.name = "search"
                         THEN Row(Last(kk).data, IF a = Timeout THEN Last(kk).data ELSE a.data)
                         ELSE row
        BY <2>1, <3>2, SearchResult
      <4>3. todo' \in Seq(FrameOf)
        <5>1. /\ <<CableNext, WifiType>> \in Seq(FrameOf) /\ <<CableNext>> \in Seq(FrameOf)
              /\ <<WifiNext>> \in Seq(FrameOf)
          BY <2>4
        <5> QED BY <2>2, <4>2, <5>1
      <4>4. row' \in Device \cup {None}
        <5>1. CASE row' = row
          BY <5>1 DEF TypeOK
        <5>2. CASE /\ Head(todo).kind = "ext_type"
                   /\ row' = Row(Last(kk).data, IF a = Timeout THEN Last(kk).data ELSE a.data)
          <6>1. kk # <<>>
            BY <2>1, <3>2, <5>2, HeadType DEF RowInv, TypeOK
          <6>2. Last(kk) \in AnswerOf
            BY <6>1 DEF TypeOK, Last
          <6> QED BY <2>1, <5>2, <6>2 DEF Row, Device, AnswerOf
        <5> QED BY <4>2, <5>1, <5>2
      <4> QED BY <2>2, <2>3, <4>1, <4>3, <4>4
    <3>3. CASE cmd.name \notin LevelNames \cup Searches
      BY <2>1, <2>2, <2>3, <3>3, PlainResult DEF TypeOK
    <3> QED BY <3>1, <3>2, <3>3
  <2>6. /\ hits' \in Nat /\ seen' \subseteq 0 .. 254 /\ spoiled' \in BOOLEAN
        /\ lamp' \in LampOf /\ once' \in FrameOf \cup {None} /\ mm' = None
    <3>1. lamp' \in LampOf /\ once' \in {once, None} /\ mm' = None
      BY <1>5 DEF Closes
    <3>2. lamp'.level \in 0 .. 254
      BY <3>1 DEF LampOf
    <3>3. hits' \in {hits, hits + 1} /\ spoiled' \in {spoiled, TRUE}
          /\ seen' \in {seen, seen \cup {lamp'.level}}
      BY <1>5 DEF Closes
    <3>4. spoiled' \in BOOLEAN
      BY <3>3, Zenon DEF TypeOK
    <3>5. hits' \in Nat /\ seen' \subseteq 0 .. 254 /\ once' \in FrameOf \cup {None}
      <4>1. seen \subseteq 0 .. 254 /\ hits \in Nat /\ once \in FrameOf \cup {None}
        BY DEF TypeOK
      <4>2. seen \cup {lamp'.level} \subseteq 0 .. 254
        BY <3>2, <4>1
      <4> QED BY <3>1, <3>3, <4>1, <4>2
    <3> QED BY <3>1, <3>4, <3>5
  <2> QED BY <1>5, <2>5, <2>6 DEF Closes, TypeOK
<1>6. CASE Switched
  <2>1. lamp'.level \in 0 .. 254
    BY <1>6 DEF Switched, LampOf
  <2>2. seen' \subseteq 0 .. 254 /\ hits' \in Nat
    <3>1. seen \subseteq 0 .. 254 /\ hits \in Nat
      BY DEF TypeOK
    <3>2. seen' = seen \cup {lamp'.level} /\ hits' = hits + 1
      BY <1>6 DEF Switched
    <3>3. seen \cup {lamp'.level} \subseteq 0 .. 254
      BY <2>1, <3>1
    <3> QED BY <3>1, <3>2, <3>3
  <2>3. /\ UNCHANGED <<device, row, command, todo, kk, try, spoiled>>
        /\ lamp' \in LampOf /\ once' = None /\ mm' \in Switching \cup {None}
    BY <1>6 DEF Switched
  <2> QED BY <2>2, <2>3 DEF TypeOK
<1>7. CASE Reply
  <2>1. lamp.level \in 0 .. 254
    BY DEF TypeOK, LampOf
  <2>2. try' = [udp |-> 1, level |-> 1] /\ kk' = <<>> /\ hits' = 0 /\ seen' = {lamp.level}
        /\ spoiled' = FALSE
    BY <1>7 DEF Reply
  <2>3. UNCHANGED <<device, row, lamp, once, todo, mm>> /\ cmd' = None /\ before' = lamp
        /\ rowBefore' = row
    BY <1>7 DEF Reply
  <2>4. seen' \subseteq 0 .. 254 /\ spoiled' \in BOOLEAN /\ kk' \in Seq(AnswerOf)
        /\ try' \in [udp : 1 .. 3, level : 1 .. 2]
    <3>1. {lamp.level} \subseteq 0 .. 254
      BY <2>1
    <3>2. /\ <<>> \in Seq(AnswerOf) /\ FALSE \in BOOLEAN
          /\ [udp |-> 1, level |-> 1] \in [udp : 1 .. 3, level : 1 .. 2]
      OBVIOUS
    <3> QED BY <2>2, <3>1, <3>2
  <2> QED BY <2>2, <2>3, <2>4 DEF TypeOK
<1> QED BY <1>1, <1>2, <1>3, <1>4, <1>5, <1>6, <1>7, Steps

LEMMA BufferStep ==
    ASSUME TypeOK, BufferInv, ProgramInv, [Next]_vars
    PROVE  BufferInv'
<1> USE DEF device, command, buffer
<1>1. CASE UNCHANGED vars
  BY <1>1 DEF BufferInv, UdpQuestion, vars
<1>2. ASSUME NEW c \in Command, Start(c)
      PROVE  BufferInv'
  BY <1>2, StartsIdle DEF Start, BufferInv
<1>3. CASE DaliSend
  BY <1>3 DEF DaliSend, BufferInv, UdpQuestion
<1>4. CASE Retried
  <2>1. hits' >= hits
    BY <1>4 DEF Retried, TypeOK
  <2> QED BY <1>4, <2>1 DEF Retried, BufferInv, UdpQuestion, TypeOK
<1>5. ASSUME NEW a, Closes(a)
      PROVE  BufferInv'
  BY <1>5 DEF Closes, BufferInv
<1>6. CASE Switched
  <2>1. hits' >= 1
    BY <1>6 DEF Switched, TypeOK
  <2> QED BY <1>6, <2>1 DEF Switched, BufferInv, UdpQuestion
<1>7. CASE Reply
  BY <1>7, StartsIdle DEF Reply, Done, BufferInv
<1> QED BY <1>1, <1>2, <1>3, <1>4, <1>5, <1>6, <1>7, Steps

\* No frame of these commands changes the level.
LEMMA SeenStep ==
    ASSUME TypeOK, BufferInv, ProgramInv, SeenInv, [Next]_vars
    PROVE  SeenInv'
<1> USE DEF device, command, buffer
<1>1. CASE UNCHANGED vars
  BY <1>1 DEF SeenInv, vars
<1>2. ASSUME NEW c \in Command, Start(c)
      PROVE  SeenInv'
  BY <1>2 DEF Start, SeenInv
<1>3. CASE DaliSend
  <2>1. cmd' = cmd /\ seen' = seen /\ todo # <<>> /\ Head(todo).kind \notin Queries
    BY <1>3 DEF DaliSend
  <2>2. ASSUME cmd # None, cmd.name \in LevelNames \cup {"get_rapor"}
        PROVE  lamp'.level = lamp.level
    <3>1. Head(todo).kind = "store"
      <4>1. CASE cmd.name \in LevelNames
        BY <2>1, <2>2, <4>1, LevelTodo, SpecialFrames DEF Queries
      <4>2. CASE cmd.name = "get_rapor"
        <5>1. cmd.name \notin LevelNames \cup Searches /\ cmd \in Command
          BY <2>2, <4>2 DEF LevelNames, Searches, TypeOK
        <5>2. Frames(cmd) = <<To("cable", "store", 0), To("cable", "store", 0),
                              To("cable", "get_dtr", 0)>>
          BY <4>2, <5>1, Programs
        <5>3. /\ Len(Frames(cmd)) - Len(todo) + 1 \in 1 .. Len(Frames(cmd))
              /\ Head(todo) = Frames(cmd)[Len(Frames(cmd)) - Len(todo) + 1]
          BY <2>1, <2>2, <5>1, PlainTodo, Remaining DEF TypeOK
        <5>4. Head(todo) \in {To("cable", "store", 0), To("cable", "get_dtr", 0)}
          BY <5>2, <5>3
        <5> QED BY <2>1, <5>4 DEF To, Queries
      <4> QED BY <2>2, <4>1, <4>2
    <3>2. Executed(lamp, Head(todo)) = [lamp EXCEPT !.dtr = lamp.level]
      BY <3>1, Zenon DEF Executed
    <3>3. lamp' \in {lamp, [lamp EXCEPT !.dtr = lamp.level]}
      BY <1>3, <3>2 DEF DaliSend, Hears
    <3> QED BY <3>3 DEF TypeOK, LampOf
  <2> QED BY <2>1, <2>2 DEF SeenInv
<1>4. CASE Retried
  BY <1>4 DEF Retried, SeenInv
<1>5. ASSUME NEW a, Closes(a)
      PROVE  SeenInv'
  BY <1>5 DEF Closes, SeenInv
<1>6. CASE Switched
  BY <1>6 DEF Switched, SeenInv
<1>7. CASE Reply
  BY <1>7 DEF Reply, SeenInv
<1> QED BY <1>1, <1>2, <1>3, <1>4, <1>5, <1>6, <1>7, Steps
-----------------------------------------------------------------------------
(* What the lamp stores *)

LEMMA SameTerms ==
    ASSUME cmd' = cmd, row' = row, wireless' = wireless, before' = before
    PROVE  /\ Leads' <=> Leads
           /\ Stores' <=> Stores
           /\ Wanted' = Wanted /\ Asks' = Asks /\ Setting' = Setting
<1>1. Frames(cmd)' = Frames(cmd) /\ Way(RowType)' = Way(RowType)
  BY SameFrames
<1>2. Leads' <=> Leads
  BY <1>1 DEF Leads, Own
<1>3. Asks' = Asks
  BY DEF Asks
<1>4. Wanted' = Wanted
  BY <1>2, Zenon DEF Wanted
<1> QED BY <1>1, <1>2, <1>3, <1>4 DEF Stores, Setting

LEMMA StoringLength ==
    ASSUME NEW c \in Command, c.name \in Storing, Frames(c) # <<>>
    PROVE  Len(Frames(c)) = CASE c.name = "set_scene" -> 5
                              [] c.name \in {"set_fade", "set_group", "unset_group"} -> 4
                              [] c.name = "clear_scene" -> 3
                              [] c.name \in {"gear_reset", "full_reset"} -> 2
<1>1. CASE c.name \in {"gear_reset", "full_reset"}
  <2>1. Frames(c) = <<To(Way(RowType), "reset", 0), To(Way(RowType), "reset", 0)>>
    BY <1>1, Programs, FramesOf
  <2> QED BY <1>1, <2>1
<1>2. CASE c.name \in {"set_group", "unset_group"}
  BY <1>2, Programs
<1>3. CASE c.name \in {"set_scene", "set_fade", "clear_scene"}
  BY <1>3, Programs
<1> QED BY <1>1, <1>2, <1>3 DEF Storing, Loading

LEMMA DtrExecuted ==
    ASSUME NEW l \in LampOf, NEW v \in 0 .. 254
    PROVE  LET m == Executed(l, To(Own, "dtr", v)) IN Stored(m) = Stored(l) /\ m.dtr = v
<1>1. Executed(l, To(Own, "dtr", v)) = [l EXCEPT !.dtr = v]
  <2>1. To(Own, "dtr", v).kind = "dtr" /\ To(Own, "dtr", v).val = v
    BY DEF To
  <2> QED BY <2>1, Zenon DEF Executed
<1> QED BY <1>1 DEF LampOf, Stored

LEMMA SettingKeepsDtr ==
    ASSUME NEW l \in LampOf, cmd \in Command, Stores
    PROVE  Executed(l, Setting).dtr = l.dtr /\ Setting.kind \in Twice
<1> DEFINE f == Setting
<1>1. Setting.kind \in {"scene", "fade", "unscene", "group", "ungroup", "reset"}
  BY StoringFrames DEF To, Stores, Storing, Loading
<1> HIDE DEF f
<1>2. CASE f.kind = "scene"
  <2>1. Executed(l, f) = [l EXCEPT !.scene = l.dtr]
    BY <1>2, Zenon DEF Executed
  <2> QED BY <1>1, <2>1 DEF LampOf, Twice, f
<1>3. CASE f.kind = "fade"
  <2>1. Executed(l, f) = [l EXCEPT !.fade = l.dtr]
    BY <1>3, Zenon DEF Executed
  <2> QED BY <1>1, <2>1 DEF LampOf, Twice, f
<1>4. CASE f.kind = "unscene"
  <2>1. Executed(l, f) = [l EXCEPT !.scene = MASK]
    BY <1>4, Zenon DEF Executed
  <2> QED BY <1>1, <2>1 DEF LampOf, Twice, f
<1>5. CASE f.kind = "group"
  <2>1. Executed(l, f) = [l EXCEPT !.groups = @ \cup {f.val}]
    BY <1>5, Zenon DEF Executed
  <2> QED BY <1>1, <2>1 DEF LampOf, Twice, f
<1>6. CASE f.kind = "ungroup"
  <2>1. Executed(l, f) = [l EXCEPT !.groups = @ \ {f.val}]
    BY <1>6, Zenon DEF Executed
  <2> QED BY <1>1, <2>1 DEF LampOf, Twice, f
<1>7. CASE f.kind = "reset"
  <2>1. Executed(l, f) = Reset(l)
    BY <1>7, Zenon DEF Executed
  <2> QED BY <1>1, <2>1 DEF LampOf, Twice, Reset, f
<1> QED BY <1>1, <1>2, <1>3, <1>4, <1>5, <1>6, <1>7 DEF f

\* What is sent next by a command that stores.
LEMMA StoringHead ==
    ASSUME TypeOK, ProgramInv, cmd # None, Stores, todo # <<>>
    PROVE  LET left == Len(todo) - Asks IN
           /\ left \in Int /\ left <= IF cmd.name \in Loading THEN 4 ELSE 2
           /\ left \in {3, 4} => Head(todo) = To(Own, "dtr", cmd.val)
           /\ left \in {1, 2} => Head(todo) = Setting
           /\ left <= 0 <=> Head(todo).kind \in Queries
<1> DEFINE F == Frames(cmd)
           left == Len(todo) - Asks
           n == Len(F) - Asks
<1> SUFFICES /\ left \in Int /\ left <= (IF cmd.name \in Loading THEN 4 ELSE 2)
             /\ left \in {3, 4} => Head(todo) = To(Own, "dtr", cmd.val)
             /\ left \in {1, 2} => Head(todo) = Setting
             /\ left <= 0 <=> Head(todo).kind \in Queries
  OBVIOUS
<1>1. cmd \in Command /\ cmd.name \notin LevelNames \cup Searches
  BY DEF TypeOK, Stores, Storing, Loading, LevelNames, Searches
<1>2. /\ Len(todo) \in 1 .. Len(F) /\ Len(F) \in Nat
      /\ Head(todo) = F[Len(F) - Len(todo) + 1]
  BY <1>1, PlainTodo, Remaining DEF TypeOK
<1>3. /\ n = (IF cmd.name \in Loading THEN 4 ELSE 2)
      /\ cmd.name \in Loading => F[1] = To(Own, "dtr", cmd.val) /\ F[2] = To(Own, "dtr", cmd.val)
      /\ F[n - 1] = Setting /\ F[n] = Setting
      /\ \A i \in n + 1 .. Len(F) : F[i].kind \in Queries
  BY <1>1, StoringFrames
<1>4. Asks \in 0 .. 2
  BY DEF Asks
<1>5. Setting.kind \notin Queries
  <2>1. lamp \in LampOf
    BY DEF TypeOK
  <2> QED BY <1>1, <2>1, SettingKeepsDtr DEF Twice, Queries
<1>6. To(Own, "dtr", cmd.val).kind \notin Queries
  BY DEF To, Queries
<1>7. Len(F) - Len(todo) + 1 = n - left + 1
  BY <1>2, <1>4
<1>8. left \in Int /\ left <= n /\ n \in {2, 4} /\ n - left + 1 \in 1 .. Len(F)
  BY <1>2, <1>3, <1>4
<1>9. Head(todo) = F[n - left + 1]
  BY <1>2, <1>7
<1> HIDE DEF F, left, n
<1>10. CASE left <= 0
  <2>1. n - left + 1 \in n + 1 .. Len(F)
    BY <1>8, <1>10
  <2>2. Head(todo).kind \in Queries
    BY <1>3, <1>9, <2>1
  <2> QED BY <1>3, <1>8, <1>10, <2>2
<1>11. CASE left = 1
  BY <1>3, <1>5, <1>8, <1>9, <1>11
<1>12. CASE left = 2
  BY <1>3, <1>5, <1>8, <1>9, <1>12
<1>13. CASE left = 3
  <2>1. n = 4 /\ cmd.name \in Loading /\ Head(todo) = F[2]
    BY <1>3, <1>8, <1>9, <1>13
  <2> QED BY <1>3, <1>6, <1>8, <1>13, <2>1
<1>14. CASE left = 4
  <2>1. n = 4 /\ cmd.name \in Loading /\ Head(todo) = F[1]
    BY <1>3, <1>8, <1>9, <1>14
  <2> QED BY <1>3, <1>6, <1>8, <1>14, <2>1
<1> QED BY <1>8, <1>10, <1>11, <1>12, <1>13, <1>14

\* What a frame that is sent does to a command that does not store.
LEMMA SentHarmless ==
    ASSUME TypeOK, ProgramInv, cmd # None, ~Stores, DaliSend
    PROVE  Stored(lamp') = Stored(lamp)
<1>1. todo # <<>> /\ Head(todo).kind \notin Queries /\ Head(todo) \in FrameOf /\ lamp \in LampOf
  BY HeadType DEF DaliSend, TypeOK
<1>2. Reached(Head(todo)) => Harmless(Head(todo))
  <2>1. CASE cmd.name \in LevelNames
    BY <1>1, <2>1, LevelTodo, SpecialFrames DEF Harmless, Queries
  <2>2. CASE cmd.name \in Searches
    BY <1>1, <2>2, SearchTodo, SpecialFrames DEF Harmless, Queries
  <2>3. CASE cmd.name \notin LevelNames \cup Searches
    <3>1. cmd \in Command /\ Frames(cmd) \in Seq(FrameOf) /\ EndOf(Frames(cmd))
      BY <1>1, <2>3, PlainTodo
    <3>2. /\ Len(Frames(cmd)) - Len(todo) + 1 \in 1 .. Len(Frames(cmd))
          /\ Head(todo) = Frames(cmd)[Len(Frames(cmd)) - Len(todo) + 1]
      BY <1>1, <3>1, Remaining DEF TypeOK
    <3> QED BY <2>3, <3>1, <3>2, OtherFrames
  <2> QED BY <2>1, <2>2, <2>3
<1>3. CASE Reached(Head(todo)) /\ Hears(Head(todo))
  BY <1>1, <1>2, <1>3, HeardFrame, HarmlessExecuted
<1>4. CASE lamp' = lamp
  BY <1>4
<1> QED BY <1>3, <1>4 DEF DaliSend

\* The named parts of StoreInv, for a command that stores.
Kept == Stored(lamp) = Stored(before)
Loaded == LET left == Len(todo) - Asks IN
    hits <= 1 => /\ Stored(lamp) \in {Wanted, Stored(before)}
                 /\ cmd.name \in Loading /\ left <= 3 =>
                        lamp.dtr = cmd.val \/ (left = 3 /\ hits = 1)
Settled == LET left == Len(todo) - Asks IN
    hits = 0 => /\ left = 1 => Stored(lamp) = Wanted \/ once = Setting
                /\ left <= 0 => Stored(lamp) = Wanted

LEMMA StoreInvParts ==
    StoreInv <=> (cmd # None => (~Stores => Kept) /\ (Stores => Loaded /\ Settled))
BY DEF StoreInv, Kept, Loaded, Settled

LEMMA StoreSent ==
    ASSUME TypeOK, ProgramInv, StoreInv, cmd # None, Stores, DaliSend
    PROVE  Loaded' /\ Settled'
<1> DEFINE left == Len(todo) - Asks
           after == Len(todo') - Asks
<1>1. /\ todo # <<>> /\ Head(todo).kind \notin Queries /\ todo' = Tail(todo)
      /\ UNCHANGED <<device, row, command, seen>> /\ cmd \in Command
      /\ lamp \in LampOf /\ hits \in Nat /\ Head(todo) \in FrameOf
  BY HeadType DEF DaliSend, TypeOK
<1>2. /\ Wanted' = Wanted /\ Asks' = Asks /\ Setting' = Setting /\ cmd' = cmd
      /\ before' = before
  BY <1>1, SameTerms DEF device, command
<1>3. /\ left \in Int /\ left \in 1 .. IF cmd.name \in Loading THEN 4 ELSE 2
      /\ left \in {3, 4} => Head(todo) = To(Own, "dtr", cmd.val)
      /\ left \in {1, 2} => Head(todo) = Setting
  BY <1>1, StoringHead
<1>4. after = left - 1
  <2>1. Len(todo') = Len(todo) - 1 /\ Len(todo) \in Nat
    BY <1>1 DEF TypeOK
  <2>2. Asks \in 0 .. 2
    BY DEF Asks
  <2> QED BY <2>1, <2>2
<1>5. Loaded /\ Settled
  BY StoreInvParts
<1> HIDE DEF left, after
<1>6. SUFFICES /\ hits' <= 1 => /\ Stored(lamp') \in {Wanted, Stored(before)}
                                /\ cmd.name \in Loading /\ after <= 3 =>
                                      lamp'.dtr = cmd.val \/ (after = 3 /\ hits' = 1)
               /\ hits' = 0 => /\ after = 1 => Stored(lamp') = Wanted \/ once' = Setting
                               /\ after <= 0 => Stored(lamp') = Wanted
  BY <1>2 DEF Loaded, Settled, after
<1>7. /\ hits <= 1 => /\ Stored(lamp) \in {Wanted, Stored(before)}
                      /\ cmd.name \in Loading /\ left <= 3 =>
                            lamp.dtr = cmd.val \/ (left = 3 /\ hits = 1)
      /\ hits = 0 => /\ left = 1 => Stored(lamp) = Wanted \/ once = Setting
                     /\ left <= 0 => Stored(lamp) = Wanted
  BY <1>5 DEF Loaded, Settled, left
<1>8. CASE hits' = hits + 1 /\ UNCHANGED <<lamp, once>>
  BY <1>1, <1>3, <1>4, <1>7, <1>8
<1>9. CASE hits' = hits /\ Hears(Head(todo))
  <2>1. CASE left \in {3, 4}
    <3>1. Head(todo).kind = "dtr"
      BY <1>3, <2>1 DEF To
    <3>2. lamp' = Executed(lamp, Head(todo))
      BY <1>1, <1>9, <3>1, HeardFrame DEF Twice
    <3>3. cmd.val \in 0 .. 254
      BY <1>1, CommandType
    <3>4. Stored(lamp') = Stored(lamp) /\ lamp'.dtr = cmd.val
      <4>1. /\ Stored(Executed(lamp, To(Own, "dtr", cmd.val))) = Stored(lamp)
            /\ Executed(lamp, To(Own, "dtr", cmd.val)).dtr = cmd.val
        BY <1>1, <3>3, DtrExecuted
      <4>2. lamp' = Executed(lamp, To(Own, "dtr", cmd.val))
        BY <1>3, <2>1, <3>2
      <4> QED BY <4>1, <4>2
    <3> QED BY <1>1, <1>4, <1>7, <1>9, <2>1, <3>4
  <2>2. CASE left \in {1, 2}
    <3>1. Head(todo) = Setting /\ Setting.kind \in Twice
      BY <1>1, <1>3, <2>2, SettingKeepsDtr
    <3>2. CASE once # Setting /\ once' = Setting /\ lamp' = lamp
      BY <1>3, <1>4, <1>7, <1>9, <2>2, <3>2
    <3>3. CASE lamp' = Executed(lamp, Setting)
      <4>1. lamp'.dtr = lamp.dtr
        BY <1>1, <3>3, SettingKeepsDtr
      <4>2. hits <= 1 => Stored(lamp') = Wanted
        BY <1>1, <1>7, <2>2, <3>3, SettingExecuted
      <4> QED BY <1>1, <1>3, <1>4, <1>7, <1>9, <2>2, <4>1, <4>2
    <3> QED BY <1>1, <1>9, <3>1, <3>2, <3>3, HeardFrame
  <2> QED BY <1>3, <2>1, <2>2
<1>10. ~Reached(Head(todo)) => FALSE
  <2>1. Head(todo).via = Own
    BY <1>1, <1>3, StoringFrames DEF To
  <2> QED BY <2>1 DEF Reached
<1> QED BY <1>8, <1>9, <1>10 DEF DaliSend, Fault

LEMMA StoreStep ==
    ASSUME TypeOK, BufferInv, ProgramInv, StoreInv, [Next]_vars
    PROVE  StoreInv'
<1> USE DEF device, command, buffer
<1>1. CASE UNCHANGED vars
  BY <1>1, SameTerms DEF StoreInv, vars
<1>2. ASSUME NEW c \in Command, Start(c)
      PROVE  StoreInv'
  <2>1. /\ cmd' = c /\ lamp' = lamp /\ before' = lamp /\ hits' = 0 /\ todo' = Frames(c)
        /\ row' = IF c.name = "clear_number" THEN None ELSE row
    BY <1>2 DEF Start
  <2>2. Stored(lamp') = Stored(before')
    BY <2>1
  <2>3. ASSUME Stores'
        PROVE  Len(todo') - Asks' = IF c.name \in Loading THEN 4 ELSE 2
    <3>1. c.name \in Storing /\ row' = row /\ Frames(cmd)' # <<>>
      BY <2>1, <2>3 DEF Stores, Storing, Loading
    <3>2. Frames(cmd)' = Frames(c)
      BY <2>1, <3>1, Zenon DEF Frames, RowType
    <3>3. Asks' = IF c.name \in {"set_group", "unset_group"} THEN 2
                  ELSE IF c.name \in {"set_scene", "clear_scene"} THEN 1 ELSE 0
      BY <2>1 DEF Asks
    <3>4. Len(todo') = CASE c.name = "set_scene" -> 5
                         [] c.name \in {"set_fade", "set_group", "unset_group"} -> 4
                         [] c.name = "clear_scene" -> 3
                         [] c.name \in {"gear_reset", "full_reset"} -> 2
      BY <2>1, <3>1, <3>2, StoringLength
    <3>5. CASE c.name \in {"set_scene", "set_fade"}
      BY <3>3, <3>4, <3>5 DEF Loading
    <3>6. CASE c.name \in {"set_group", "unset_group"}
      BY <3>3, <3>4, <3>6 DEF Loading
    <3>7. CASE c.name \in {"clear_scene", "gear_reset", "full_reset"}
      BY <3>3, <3>4, <3>7 DEF Loading
    <3> QED BY <3>1, <3>5, <3>6, <3>7 DEF Storing, Loading
  <2>4. Stores' => Loaded' /\ Settled'
    BY <2>1, <2>2, <2>3 DEF Loaded, Settled
  <2>5. ~Stores' => Kept'
    BY <2>2 DEF Kept
  <2> QED BY <2>4, <2>5, StoreInvParts DEF StoreInv, Kept, Loaded, Settled
<1>3. CASE DaliSend
  <2>1. UNCHANGED <<device, row, command>> /\ cmd # None
    BY <1>3 DEF DaliSend, ProgramInv
  <2>2. CASE Stores
    <3>1. Loaded' /\ Settled'
      BY <1>3, <2>1, <2>2, StoreSent
    <3> QED BY <2>1, <2>2, <3>1, SameTerms DEF StoreInv, Loaded, Settled
  <2>3. CASE ~Stores
    <3>1. Stored(lamp') = Stored(lamp)
      BY <1>3, <2>1, <2>3, SentHarmless
    <3> QED BY <2>1, <2>3, <3>1, SameTerms DEF StoreInv
  <2> QED BY <2>2, <2>3
<1>4. CASE Retried
  <2>1. /\ UNCHANGED <<device, row, lamp, command, todo>> /\ cmd # None /\ todo # <<>>
        /\ Head(todo).kind \in Queries /\ hits' \in {hits, hits + 1} /\ hits \in Nat
    BY <1>4 DEF Retried, TypeOK
  <2>2. Stores => Len(todo) - Asks \in Int /\ Len(todo) - Asks <= 0
    BY <2>1, StoringHead
  <2> QED BY <2>1, <2>2, SameTerms DEF StoreInv
<1>5. ASSUME NEW a, Closes(a)
      PROVE  StoreInv'
  <2>1. /\ UNCHANGED <<device, command>> /\ cmd # None /\ todo # <<>>
        /\ Head(todo).kind \in Queries /\ hits' \in {hits, hits + 1} /\ hits \in Nat
        /\ Stored(lamp') = Stored(lamp) /\ lamp'.dtr = lamp.dtr /\ Result(a) /\ a \in AnswerOf
    BY <1>5 DEF Closes, TypeOK
  <2>2. CASE Stores
    <3>1. cmd.name \notin LevelNames \cup Searches
      BY <2>2 DEF Stores, Storing, Loading, LevelNames, Searches
    <3>2. todo' = Tail(todo) /\ row' = row
      BY <2>1, <3>1, PlainResult
    <3>3. Len(todo) - Asks \in Int /\ Len(todo) - Asks <= 0
      BY <2>1, <2>2, StoringHead
    <3>4. Len(todo') = Len(todo) - 1 /\ Len(todo) \in Nat /\ Asks \in 0 .. 2
      BY <2>1, <3>2 DEF TypeOK, Asks
    <3>5. Len(todo') - Asks <= 0 /\ Len(todo') - Asks # 3
      BY <3>3, <3>4
    <3> QED BY <2>1, <2>2, <3>2, <3>3, <3>5, SameTerms DEF StoreInv
  <2>3. CASE ~Stores
    <3>1. Stored(lamp') = Stored(before)
      BY <2>1, <2>3 DEF StoreInv
    <3>2. ~Stores'
      <4>1. CASE row' = row
        BY <2>1, <2>3, <4>1, SameTerms
      <4>2. CASE row' # row
        <5>1. cmd.name \in Searches
          BY <2>1, <4>2, LevelResult, PlainResult
        <5> QED BY <2>1, <5>1 DEF Stores, Searches, Storing, Loading
      <4> QED BY <4>1, <4>2
    <3> QED BY <2>1, <3>1, <3>2 DEF StoreInv
  <2> QED BY <2>2, <2>3
<1>6. CASE Switched
  <2>1. /\ UNCHANGED <<device, row, command, todo>> /\ hits' = hits + 1 /\ hits \in Nat
        /\ Stored(lamp') = Stored(lamp) /\ lamp'.dtr = lamp.dtr
    BY <1>6 DEF Switched, TypeOK
  <2> QED BY <2>1, SameTerms DEF StoreInv
<1>7. CASE Reply
  BY <1>7 DEF Reply, StoreInv
<1> QED BY <1>1, <1>2, <1>3, <1>4, <1>5, <1>6, <1>7, Steps
-----------------------------------------------------------------------------
(* The row *)

LEMMA DeviceTypes ==
    ASSUME TypeOK
    PROVE  /\ type \in {6, 16, 255} /\ Back(type) # Timeout /\ Back(type).data = type
           /\ Received(type) = Back(type) /\ Received(NEXT_TYPE) = Back(NEXT_TYPE)
           /\ Back(NEXT_TYPE) # Timeout /\ Back(NEXT_TYPE).data = 7
<1>1. type \in {6, 16, 255}
  BY DEF TypeOK, LAMP, WIFI_LAMP, SEVERAL
<1>2. wireless => type = 16
  BY DEF TypeOK, WIFI_LAMP
<1> QED BY <1>1, <1>2 DEF Back, Timeout, Received, NEXT_TYPE, BACK_TIMEOUT

\* How a question of a search may end.
LEMMA SearchAnswers ==
    ASSUME TypeOK, ProgramInv, cmd # None, cmd.name \in Searches, NEW a, Closes(a)
    PROVE  /\ Head(todo).kind = "type" =>
                a = Timeout \/ (a = Back(type) /\ Head(todo).via = Own /\ hits' = hits)
           /\ Head(todo).kind = "ext_type" => a \in {Timeout, Back(NEXT_TYPE)}
           /\ a = Timeout /\ Head(todo).via = Own => hits' >= 1
           /\ hits' = 0 => hits = 0
<1>1. /\ todo # <<>> /\ Head(todo).kind \in {"type", "ext_type"}
      /\ Head(todo).via \in {"cable", "wifi"} /\ hits \in Nat
  BY SearchTodo, SpecialFrames DEF Closes, TypeOK
<1>2. /\ Head(todo).kind = "type" => Received(Answer(Head(todo))) = Back(type)
      /\ Head(todo).kind = "ext_type" => Received(Answer(Head(todo))) = Back(NEXT_TYPE)
  <2>1. /\ Head(todo).kind = "type" => Answer(Head(todo)) = type
        /\ Head(todo).kind = "ext_type" => Answer(Head(todo)) = NEXT_TYPE
    BY SMT DEF Answer
  <2> QED BY <2>1, DeviceTypes
<1>3. Back(type) # Timeout /\ Back(NEXT_TYPE) # Timeout
  BY DeviceTypes
<1>4. Reached(Head(todo)) <=> Head(todo).via = Own
  BY <1>1, Ways DEF Reached
<1> QED BY <1>1, <1>2, <1>3, <1>4 DEF Closes

LEMMA RowClosed ==
    ASSUME TypeOK, ProgramInv, RowInv, NEW a, Closes(a), cmd.name \in Searches
    PROVE  RowInv'
<1>1. /\ cmd # None /\ todo # <<>> /\ Result(a) /\ UNCHANGED <<wireless, type, cmd, rowBefore>>
      /\ kk \in Seq(AnswerOf) /\ a \in AnswerOf
  BY DEF Closes, device, command, TypeOK
<1>2. kk' = Append(kk, a)
  BY <1>1, SearchResult
<1>3. /\ Own' = Own /\ (Searched' <=> Searched) /\ Back(type)' = Back(type)
      /\ To(Own, "ext_type", 0)' = To(Own, "ext_type", 0)
  BY <1>1 DEF Own, Searched
<1>4. /\ kk' # <<>> /\ Last(kk') = a /\ kk'[1] = IF kk = <<>> THEN a ELSE kk[1]
      /\ Told' <=> Told \/ a = Back(type)
  <2>1. /\ DOMAIN kk' = 1 .. Len(kk) + 1 /\ DOMAIN kk = 1 .. Len(kk) /\ Len(kk) \in Nat
        /\ kk'[Len(kk) + 1] = a /\ \A i \in 1 .. Len(kk) : kk'[i] = kk[i]
        /\ Len(kk') = Len(kk) + 1
    BY <1>1, <1>2
  <2>2. Last(kk') = a /\ kk' # <<>>
    BY <2>1 DEF Last
  <2>3. kk'[1] = IF kk = <<>> THEN a ELSE kk[1]
    BY <1>1, <1>2, <2>1
  <2>4. Told' <=> Told \/ a = Back(type)
    BY <1>3, <2>1 DEF Told
  <2> QED BY <2>2, <2>3, <2>4
<1> DEFINE E == To(Own, "ext_type", 0)
           T == To(Own, "type", 0)
           Asked == todo' # <<>> /\ Head(todo') = E
           Found == {Row(type, NEXT_TYPE), Row(type, type)}
<1>5. SUFFICES /\ \A i \in DOMAIN todo' : /\ cmd.val # IF todo'[i].via = "cable" THEN 0 ELSE 1
                                          /\ todo'[i].kind = "ext_type" => Asked
               /\ Asked => a = Back(type)
               /\ kk'[1] \in {Timeout, Back(type)}
               /\ ~(Searched /\ Told') => row' = rowBefore
               /\ Searched => Asked \/ (Told' => row' \in Found)
               /\ Searched /\ hits' = 0 =>
                     (\E i \in DOMAIN todo' : todo'[i] = T) \/ Asked \/ row' = Row(type, NEXT_TYPE)
  <2>1. Asking("ext_type")' <=> Asked
    BY <1>3 DEF Asking
  <2>2. T' = T /\ Row(type, NEXT_TYPE)' = Row(type, NEXT_TYPE) /\ Row(type, type)' = Row(type, type)
    BY <1>1, <1>3 DEF Row
  <2> QED BY <1>1, <1>3, <1>4, <2>1, <2>2 DEF RowInv
<1>6. /\ \A i \in DOMAIN todo : /\ cmd.val # IF todo[i].via = "cable" THEN 0 ELSE 1
                                /\ todo[i].kind = "ext_type" => Asking("ext_type")
      /\ Asking("ext_type") => kk # <<>> /\ Last(kk) = Back(type)
      /\ kk # <<>> => kk[1] \in {Timeout, Back(type)}
      /\ ~(Searched /\ Told) => row = rowBefore
      /\ Searched => Asking("ext_type") \/ (Told => row \in Found)
      /\ Searched /\ hits = 0 => \/ \E i \in DOMAIN todo : todo[i] = T
                                 \/ Asking("ext_type") \/ row = Row(type, NEXT_TYPE)
  BY <1>1 DEF RowInv, Searches
<1>7. /\ Own = "cable" => E = CableNext /\ T = CableType
      /\ Own = "wifi" => E = WifiNext /\ T = WifiType
      /\ E.kind = "ext_type" /\ E.via = Own /\ T.kind = "type" /\ T.via = Own
      /\ Own \in {"cable", "wifi"}
  BY Ways DEF CableNext, WifiNext, CableType, WifiType, To
<1> HIDE DEF E, T, Found
<1>8. CASE Head(todo).kind = "type"
  <2>1. /\ row' = row /\ ~Asking("ext_type")
        /\ todo \in {<<CableType, WifiType>>, <<CableType>>, <<WifiType>>}
    BY <1>1, <1>7, <1>8, SearchResult, SearchTodo, SpecialFrames DEF Asking, E
  <2>2. CASE a = Timeout
    <3>1. todo' = Tail(todo) /\ (Told' <=> Told)
      BY <1>1, <1>4, <1>8, <2>2, SearchResult, DeviceTypes
    <3>2. /\ Head(todo).via = Own => hits' >= 1
          /\ hits' = 0 => hits = 0
      BY <1>1, <2>2, SearchAnswers
    <3>3. kk'[1] \in {Timeout, Back(type)}
      BY <1>4, <1>6, <2>2
    <3>4. CASE todo = <<CableType, WifiType>>
      <4>1. todo' = <<WifiType>> /\ Head(todo) = CableType /\ todo[2] = WifiType /\ todo[1] = CableType
            /\ DOMAIN todo = {1, 2}
        BY <3>1, <3>4
      <4>2. ~Asked /\ DOMAIN todo' = {1} /\ todo'[1] = WifiType
        BY <1>7, <4>1, SpecialFrames
      <4>3. cmd.val # 1
        BY <1>6, <4>1, SpecialFrames
      <4>4. T = CableType => hits' >= 1
        BY <1>7, <3>2, <4>1
      <4> QED BY <1>6, <2>1, <3>1, <3>2, <3>3, <4>1, <4>2, <4>3, <4>4, SpecialFrames
    <3>5. CASE todo \in {<<CableType>>, <<WifiType>>}
      <4>1. todo' = <<>> /\ Head(todo) = todo[1] /\ DOMAIN todo = {1}
        <5>1. CASE todo = <<CableType>>
          BY <3>1, <5>1
        <5>2. CASE todo = <<WifiType>>
          BY <3>1, <5>2
        <5> QED BY <3>5, <5>1, <5>2
      <4>2. ~Asked /\ DOMAIN todo' = {}
        BY <4>1
      <4>3. todo[1] = T => hits' >= 1
        BY <1>7, <3>2, <4>1
      <4> QED BY <1>6, <2>1, <3>1, <3>2, <3>3, <4>1, <4>2, <4>3
    <3> QED BY <2>1, <3>4, <3>5
  <2>3. CASE a = Back(type) /\ Head(todo).via = Own
    <3>1. Told' /\ a # Timeout
      BY <1>4, <2>3, DeviceTypes
    <3>2. \/ todo = <<CableType, WifiType>> /\ todo' = <<CableNext, WifiType>>
          \/ todo = <<CableType>> /\ todo' = <<CableNext>>
          \/ todo = <<WifiType>> /\ todo' = <<WifiNext>>
      BY <1>1, <1>8, <3>1, SearchResult
    <3>3. kk'[1] \in {Timeout, Back(type)}
      BY <1>4, <1>6, <2>3
    <3>4. CASE todo = <<CableType, WifiType>>
      <4>1. /\ todo' = <<CableNext, WifiType>> /\ Head(todo) = CableType
            /\ todo[1] = CableType /\ todo[2] = WifiType /\ DOMAIN todo = {1, 2}
            /\ DOMAIN todo' = {1, 2} /\ todo'[1] = CableNext /\ todo'[2] = WifiType
        BY <3>2, <3>4
      <4>2. Asked
        BY <1>7, <2>3, <4>1, SpecialFrames
      <4>3. cmd.val # 0 /\ cmd.val # 1
        BY <1>6, <4>1, SpecialFrames
      <4> QED BY <1>6, <2>1, <2>3, <3>1, <3>3, <4>1, <4>2, <4>3, SpecialFrames
    <3>5. CASE todo = <<CableType>>
      <4>1. /\ todo' = <<CableNext>> /\ Head(todo) = CableType
            /\ todo[1] = CableType /\ DOMAIN todo = {1}
            /\ DOMAIN todo' = {1} /\ todo'[1] = CableNext
        <5>1. CableType # WifiType /\ Len(<<CableType>>) = 1 /\ Len(<<CableType, WifiType>>) = 2
              /\ <<CableType>>[1] = CableType /\ <<WifiType>>[1] = WifiType
          BY SpecialFrames
        <5>2. todo' = <<CableNext>>
          BY <3>2, <3>5, <5>1
        <5> QED BY <3>5, <5>2
      <4>2. Asked
        BY <1>7, <2>3, <4>1, SpecialFrames
      <4>3. cmd.val # 0
        BY <1>6, <4>1, SpecialFrames
      <4> QED BY <1>6, <2>1, <2>3, <3>1, <3>3, <4>1, <4>2, <4>3, SpecialFrames
    <3>6. CASE todo = <<WifiType>>
      <4>1. /\ todo' = <<WifiNext>> /\ Head(todo) = WifiType
            /\ todo[1] = WifiType /\ DOMAIN todo = {1}
            /\ DOMAIN todo' = {1} /\ todo'[1] = WifiNext
        <5>1. CableType # WifiType /\ Len(<<WifiType>>) = 1 /\ Len(<<CableType, WifiType>>) = 2
              /\ <<CableType>>[1] = CableType /\ <<WifiType>>[1] = WifiType
          BY SpecialFrames
        <5>2. todo' = <<WifiNext>>
          BY <3>2, <3>6, <5>1
        <5> QED BY <3>6, <5>2
      <4>2. Asked
        BY <1>7, <2>3, <4>1, SpecialFrames
      <4>3. cmd.val # 1
        BY <1>6, <4>1, SpecialFrames
      <4> QED BY <1>6, <2>1, <2>3, <3>1, <3>3, <4>1, <4>2, <4>3, SpecialFrames
    <3> QED BY <2>1, <3>4, <3>5, <3>6
  <2> QED BY <1>1, <1>8, <2>2, <2>3, SearchAnswers
<1>9. CASE Head(todo).kind = "ext_type"
  <2>1. /\ Asking("ext_type") /\ Head(todo) = E /\ kk # <<>> /\ Last(kk) = Back(type)
        /\ cmd.val # IF Own = "cable" THEN 0 ELSE 1
    <3>1. todo[1] = Head(todo) /\ 1 \in DOMAIN todo
      BY <1>1 DEF TypeOK
    <3>2. Asking("ext_type") /\ Head(todo) = E
      BY <1>6, <1>9, <3>1 DEF Asking, E
    <3> QED BY <1>6, <1>7, <3>1, <3>2
  <2>2. Told /\ Told'
    <3>1. Len(kk) \in DOMAIN kk /\ kk[Len(kk)] = Back(type)
      BY <1>1, <2>1 DEF Last
    <3> QED BY <1>4, <3>1 DEF Told
  <2>3. cmd.name = "search" => Searched
    <3>1. cmd \in Command
      BY <1>1 DEF TypeOK
    <3>2. cmd.name = "search" => cmd.val \in 0 .. 2
      BY <3>1, CommandType
    <3> QED BY <2>1, <3>2 DEF Searched, Own
  <2>4. /\ a \in {Timeout, Back(NEXT_TYPE)} /\ (a = Timeout => hits' >= 1)
        /\ hits' = 0 => hits = 0
    BY <1>1, <1>7, <1>9, <2>1, SearchAnswers
  <2>5. /\ todo' = Tail(todo)
        /\ row' = IF cmd.name = "search"
                  THEN Row(Last(kk).data, IF a = Timeout THEN Last(kk).data ELSE a.data)
                  ELSE row
    BY <1>1, <1>9, SearchResult
  <2>6. /\ cmd.name = "search" =>
             /\ row' \in Found
             /\ hits' = 0 => row' = Row(type, NEXT_TYPE)
        /\ cmd.name # "search" => row' = row
    BY <2>1, <2>4, <2>5, DeviceTypes DEF Found, NEXT_TYPE
  <2>7. Searched => cmd.name = "search"
    BY DEF Searched
  <2>8. /\ ~Asked
        /\ \A i \in DOMAIN todo' : /\ cmd.val # IF todo'[i].via = "cable" THEN 0 ELSE 1
                                   /\ todo'[i].kind # "ext_type"
    <3>1. CASE todo = <<CableNext, WifiType>>
      <4>1. /\ todo' = <<WifiType>> /\ todo[2] = WifiType /\ 2 \in DOMAIN todo
            /\ DOMAIN todo' = {1} /\ todo'[1] = WifiType /\ Head(todo') = WifiType
        BY <2>5, <3>1
      <4>2. cmd.val # 1
        BY <1>6, <4>1, SpecialFrames
      <4> QED BY <1>7, <4>1, <4>2, SpecialFrames
    <3>2. CASE todo \in {<<CableNext>>, <<WifiNext>>}
      <4>1. todo' = <<>>
        <5>1. CASE todo = <<CableNext>>
          BY <2>5, <5>1
        <5>2. CASE todo = <<WifiNext>>
          BY <2>5, <5>2
        <5> QED BY <3>2, <5>1, <5>2
      <4> QED BY <4>1
    <3> QED BY <1>1, <1>9, <3>1, <3>2, SearchTodo, SpecialFrames
  <2>9. kk'[1] \in {Timeout, Back(type)}
    BY <1>4, <1>6, <2>1
  <2> QED BY <1>6, <2>2, <2>3, <2>4, <2>6, <2>7, <2>8, <2>9
<1> QED BY <1>1, <1>8, <1>9, SearchTodo, SpecialFrames

LEMMA RowStep ==
    ASSUME TypeOK, BufferInv, ProgramInv, RowInv, [Next]_vars
    PROVE  RowInv'
<1> USE DEF device, command, buffer
<1> DEFINE Same == /\ UNCHANGED <<wireless, type, cmd, rowBefore, todo, kk, row>>
<1>1. ASSUME Same, hits' = hits \/ hits' = hits + 1, hits \in Nat
      PROVE  RowInv'
  <2>1. /\ Own' = Own /\ (Searched' <=> Searched) /\ Back(type)' = Back(type)
        /\ To(Own, "type", 0)' = To(Own, "type", 0)
        /\ Row(type, NEXT_TYPE)' = Row(type, NEXT_TYPE) /\ Row(type, type)' = Row(type, type)
    BY <1>1 DEF Own, Searched
  <2>2. (Asking("ext_type")' <=> Asking("ext_type")) /\ (Told' <=> Told)
    BY <1>1, <2>1 DEF Asking, Told, Own
  <2>3. hits' = 0 => hits = 0
    BY <1>1
  <2> QED BY <1>1, <2>1, <2>2, <2>3 DEF RowInv
<1>2. hits \in Nat
  BY DEF TypeOK
<1>3. CASE UNCHANGED vars
  BY <1>1, <1>2, <1>3 DEF vars
<1>4. ASSUME NEW c \in Command, Start(c)
      PROVE  RowInv'
  <2>1. /\ cmd' = c /\ todo' = Frames(c) /\ kk' = <<>> /\ rowBefore' = row /\ wireless' = wireless
        /\ type' = type /\ row' = IF c.name = "clear_number" THEN None ELSE row
    BY <1>4 DEF Start
  <2>2. ~Told'
    BY <2>1 DEF Told
  <2>3. c.name # "clear_number" => row' = rowBefore'
    BY <2>1
  <2>4. ASSUME c.name \in Searches
        PROVE  /\ \A i \in DOMAIN todo' : /\ c.val # IF todo'[i].via = "cable" THEN 0 ELSE 1
                                          /\ todo'[i].kind = "type"
               /\ ~Asking("ext_type")'
               /\ Searched' => \E i \in DOMAIN todo' : todo'[i] = To(Own, "type", 0)'
    <3>1. \/ c.val = 0 /\ todo' = <<WifiType>>
          \/ c.val = 1 /\ todo' = <<CableType>>
          \/ c.val = 2 /\ todo' = <<CableType, WifiType>>
      BY <2>1, <2>4, AnyFrames
    <3>2. Searched' => c.val \in {2, IF wireless THEN 0 ELSE 1}
      BY <2>1 DEF Searched
    <3>3. To(Own, "type", 0)' = IF wireless THEN WifiType ELSE CableType
      BY <2>1 DEF Own, WifiType, CableType
    <3>4. Asking("ext_type")' => todo' # <<>> /\ Head(todo').kind = "ext_type"
      BY DEF Asking, To
    <3>5. CASE c.val = 0 /\ todo' = <<WifiType>>
      <4>1. DOMAIN todo' = {1} /\ todo'[1] = WifiType /\ Head(todo') = WifiType
        BY <3>5
      <4> QED BY <3>2, <3>3, <3>4, <3>5, <4>1, SpecialFrames
    <3>6. CASE c.val = 1 /\ todo' = <<CableType>>
      <4>1. DOMAIN todo' = {1} /\ todo'[1] = CableType /\ Head(todo') = CableType
        BY <3>6
      <4> QED BY <3>2, <3>3, <3>4, <3>6, <4>1, SpecialFrames
    <3>7. CASE c.val = 2 /\ todo' = <<CableType, WifiType>>
      <4>1. /\ DOMAIN todo' = {1, 2} /\ todo'[1] = CableType /\ todo'[2] = WifiType
            /\ Head(todo') = CableType
        BY <3>7
      <4> QED BY <3>2, <3>3, <3>4, <3>7, <4>1, SpecialFrames
    <3> QED BY <3>1, <3>5, <3>6, <3>7
  <2>5. Searched' => c.name \in Searches
    BY <2>1 DEF Searched, Searches
  <2> QED BY <2>1, <2>2, <2>3, <2>4, <2>5 DEF RowInv
<1>5. ASSUME UNCHANGED <<cmd, rowBefore>>, row' = row, cmd # None, cmd.name \notin Searches
      PROVE  RowInv'
  <2>1. ~Searched /\ ~Searched'
    BY <1>5 DEF Searched, Searches
  <2> QED BY <1>5, <2>1 DEF RowInv
<1>6. CASE DaliSend
  <2>1. cmd # None /\ todo # <<>> /\ Head(todo).kind \notin Queries
    BY <1>6 DEF DaliSend, ProgramInv
  <2>2. cmd.name \notin Searches
    BY <2>1, SearchTodo, SpecialFrames DEF Queries
  <2> QED BY <1>5, <1>6, <2>1, <2>2 DEF DaliSend
<1>7. CASE Retried
  BY <1>1, <1>2, <1>7 DEF Retried
<1>8. ASSUME NEW a, Closes(a)
      PROVE  RowInv'
  <2>1. CASE cmd.name \in Searches
    BY <1>8, <2>1, RowClosed
  <2>2. CASE cmd.name \notin Searches
    <3>1. cmd # None /\ todo # <<>> /\ Head(todo).kind \in Queries /\ a \in AnswerOf /\ Result(a)
      BY <1>8 DEF Closes
    <3>2. row' = row
      BY <2>2, <3>1, LevelResult, PlainResult
    <3> QED BY <1>5, <1>8, <2>2, <3>1, <3>2 DEF Closes
  <2> QED BY <2>1, <2>2
<1>9. CASE Switched
  BY <1>1, <1>2, <1>9 DEF Switched
<1>10. CASE Reply
  BY <1>10 DEF Reply, RowInv
<1> QED BY <1>3, <1>4, <1>6, <1>7, <1>8, <1>9, <1>10, Steps

\* Without a setting a command wants nothing to change.
LEMMA WantsNothing ==
    ASSUME TypeOK, cmd # None, ~Stores
    PROVE  Wanted = Stored(before)
<1>1. cmd \in Command
  BY DEF TypeOK
<1>2. CASE ~Leads
  BY <1>2, SMT DEF Wanted
<1>3. CASE Leads /\ cmd.name \notin Storing
  <2>1. cmd.name \notin {"set_scene", "clear_scene", "set_fade", "set_group", "unset_group",
                         "gear_reset", "full_reset"}
    BY <1>3 DEF Storing, Loading
  <2> QED BY <1>3, <2>1, SMT DEF Wanted
<1>4. CASE Leads /\ cmd.name \in Storing /\ Frames(cmd) = <<>>
  <2>1. cmd.name = "full_reset" /\ row = None
    <3>1. CASE cmd.name \in {"gear_reset", "full_reset"} /\ ~(cmd.name = "full_reset" /\ row = None)
      BY <1>1, <1>4, <3>1, Programs
    <3>2. CASE cmd.name \in {"set_scene", "set_fade", "clear_scene", "set_group", "unset_group"}
      BY <1>1, <1>4, <3>2, Programs
    <3> QED BY <1>4, <3>1, <3>2 DEF Storing, Loading
  <2> QED BY <1>4, <2>1, SMT DEF Wanted
<1> QED BY <1>2, <1>3, <1>4 DEF Stores

LEMMA StoresFollow ==
    ASSUME TypeOK, StoreInv, RowInv
    PROVE  StoresOrKeeps
<1> SUFFICES ASSUME cmd # None, todo = <<>>
             PROVE  /\ LampStoresOrKeeps
                    /\ cmd.name # "clear_number" => RowStoresOrKeeps
  BY DEF StoresOrKeeps, Done
<1>1. LampStoresOrKeeps
  <2>1. CASE Stores
    <3>1. Len(todo) - Asks <= 0
      BY DEF Asks
    <3> QED BY <2>1, <3>1 DEF StoreInv, LampStoresOrKeeps
  <2>2. CASE ~Stores
    BY <2>2, WantsNothing DEF StoreInv, LampStoresOrKeeps
  <2> QED BY <2>1, <2>2
<1>2. ASSUME cmd.name # "clear_number"
      PROVE  RowStoresOrKeeps
  <2>1. ~Asking("ext_type")
    BY DEF Asking
  <2>2. CASE ~Searched
    <3>1. row = rowBefore
      BY <1>2, <2>2 DEF RowInv
    <3> QED BY <2>2, <3>1, Zenon DEF RowStoresOrKeeps
  <2>3. CASE Searched
    <3>1. /\ Told => row \in {Row(type, NEXT_TYPE), Row(type, type)}
          /\ ~Told => row = rowBefore
          /\ hits = 0 => row = Row(type, NEXT_TYPE)
      BY <1>2, <2>1, <2>3 DEF RowInv
    <3>2. hits \in Nat
      BY DEF TypeOK
    <3> QED BY <2>3, <3>1, <3>2, SMT DEF RowStoresOrKeeps, Told
  <2> QED BY <2>2, <2>3
<1> QED BY <1>1, <1>2
-----------------------------------------------------------------------------
(* What the questions bring *)

\* The questions of the commands that do not ask for the level.
LEMMA PlainQuestion ==
    ASSUME TypeOK, ProgramInv, cmd # None, cmd.name \notin LevelNames \cup Searches, todo # <<>>
    PROVE  LET w == Way(RowType)
               asks == Head(todo).kind \in Queries IN
           /\ Len(todo) \in Nat /\ Len(todo) >= 1
           /\ cmd.name \in SceneNames =>
                 /\ asks => Len(todo) = 1 /\ Head(todo) = To(w, "get_scene", 0)
                 /\ ~asks => Len(todo) > 1
           /\ cmd.name = "get_detail" => Len(todo) = 1 /\ Head(todo) = To(w, "get_fade", 0)
           /\ cmd.name \in GroupNames =>
                 /\ asks => \/ Len(todo) = 2 /\ Head(todo) = To(w, "get_group", 0)
                            \/ Len(todo) = 1 /\ Head(todo) = To(w, "get_group", 1)
                 /\ ~asks => Len(todo) > 2
           /\ cmd.name = "get_rapor" =>
                 /\ asks => Len(todo) = 1 /\ Head(todo) = To("cable", "get_dtr", 0)
                 /\ ~asks => Len(todo) \in {2, 3} /\ Head(todo) = To("cable", "store", 0)
           /\ asks => cmd.name \in SceneNames \cup GroupNames \cup {"get_detail", "get_rapor"}
<1> DEFINE F == Frames(cmd)
           w == Way(RowType)
           i == Len(F) - Len(todo) + 1
<1>1. cmd \in Command /\ F \in Seq(FrameOf) /\ EndOf(F) /\ todo \in Seq(FrameOf)
  BY PlainTodo DEF TypeOK
<1>2. /\ Len(todo) \in 1 .. Len(F) /\ Len(F) \in Nat /\ i \in 1 .. Len(F) /\ Head(todo) = F[i]
      /\ Len(todo) = Len(F) - i + 1
  <2>1. /\ Len(todo) \in 1 .. Len(F) /\ Len(F) \in Nat /\ i \in 1 .. Len(F) /\ Head(todo) = F[i]
    BY <1>1, Remaining
  <2> QED BY <2>1
<1> HIDE DEF F, i
<1>3. \A x, v : /\ To(x, "get_scene", v).kind \in Queries /\ To(x, "get_fade", v).kind \in Queries
                /\ To(x, "get_group", v).kind \in Queries /\ To(x, "get_dtr", v).kind \in Queries
                /\ To(x, "dtr", v).kind \notin Queries /\ To(x, "scene", v).kind \notin Queries
                /\ To(x, "fade", v).kind \notin Queries /\ To(x, "unscene", v).kind \notin Queries
                /\ To(x, "group", v).kind \notin Queries /\ To(x, "ungroup", v).kind \notin Queries
                /\ To(x, "reset", v).kind \notin Queries /\ To(x, "shutter", v).kind \notin Queries
                /\ To(x, "store", v).kind \notin Queries /\ To(x, "arc", v).kind \notin Queries
                /\ To(x, "arc_group", v).kind \notin Queries /\ To(x, "goto", v).kind \notin Queries
  BY DEF To, Queries
<1>4. CASE cmd.name = "set_scene"
  <2>1. F = <<To(w, "dtr", cmd.val), To(w, "dtr", cmd.val), To(w, "scene", 0), To(w, "scene", 0),
              To(w, "get_scene", 0)>>
    BY <1>1, <1>4, Programs DEF F
  <2> QED BY <1>2, <1>3, <1>4, <2>1 DEF SceneNames, GroupNames
<1>5. CASE cmd.name = "clear_scene"
  <2>1. F = <<To(w, "unscene", 0), To(w, "unscene", 0), To(w, "get_scene", 0)>>
    BY <1>1, <1>5, Programs DEF F
  <2> QED BY <1>2, <1>3, <1>5, <2>1 DEF SceneNames, GroupNames
<1>6. CASE cmd.name = "get_scene"
  <2>1. F = <<To(w, "get_scene", 0)>>
    BY <1>1, <1>6, Programs DEF F
  <2> QED BY <1>2, <1>3, <1>6, <2>1 DEF SceneNames, GroupNames
<1>7. CASE cmd.name = "get_detail"
  <2>1. F = <<To(w, "get_fade", 0)>>
    BY <1>1, <1>7, Programs DEF F
  <2> QED BY <1>2, <1>3, <1>7, <2>1 DEF SceneNames, GroupNames
<1>8. CASE cmd.name \in {"set_group", "unset_group"}
  <2>1. \E k \in {"group", "ungroup"} :
           F = <<To(w, k, cmd.val), To(w, k, cmd.val), To(w, "get_group", 0), To(w, "get_group", 1)>>
    BY <1>1, <1>8, Programs DEF F
  <2> QED BY <1>2, <1>3, <1>8, <2>1 DEF SceneNames, GroupNames
<1>9. CASE cmd.name = "get_group"
  <2>1. F = <<To(w, "get_group", 0), To(w, "get_group", 1)>>
    BY <1>1, <1>9, Programs DEF F
  <2> QED BY <1>2, <1>3, <1>9, <2>1 DEF SceneNames, GroupNames
<1>10. CASE cmd.name = "get_rapor"
  <2>1. F = <<To("cable", "store", 0), To("cable", "store", 0), To("cable", "get_dtr", 0)>>
    BY <1>1, <1>10, Programs DEF F
  <2> QED BY <1>2, <1>3, <1>10, <2>1 DEF SceneNames, GroupNames
<1>11. CASE cmd.name = "set_fade"
  <2>1. F = <<To(w, "dtr", cmd.val), To(w, "dtr", cmd.val), To(w, "fade", 0), To(w, "fade", 0)>>
    BY <1>1, <1>11, Programs DEF F
  <2> QED BY <1>2, <1>3, <1>11, <2>1 DEF SceneNames, GroupNames
<1>12. CASE cmd.name \in {"gear_reset", "full_reset"}
  <2>1. F = <<>> \/ F = <<To(w, "reset", 0), To(w, "reset", 0)>>
    BY <1>1, <1>12, Programs, FramesOf DEF F
  <2> QED BY <1>2, <1>3, <1>12, <2>1 DEF SceneNames, GroupNames
<1>13. CASE cmd.name = "s_reset"
  <2>1. F = <<To(w, "shutter", 0), To(w, "shutter", 0)>>
    BY <1>1, <1>13, Programs DEF F
  <2> QED BY <1>2, <1>3, <1>13, <2>1 DEF SceneNames, GroupNames
<1>14. CASE cmd.name \in {"arc_power", "arc_power_group", "off", "action", "clear_number"}
  <2>1. \/ F = <<>> \/ F = <<To("both", "arc", cmd.val)>> \/ F = <<To("both", "arc_group", cmd.val)>>
        \/ F = <<To("both", "arc", 0)>> \/ F = <<To("both", "goto", 0)>>
    BY <1>1, <1>14, Programs, FramesOf DEF F
  <2> QED BY <1>2, <1>3, <1>14, <2>1 DEF SceneNames, GroupNames
<1> QED BY <1>1, <1>4, <1>5, <1>6, <1>7, <1>8, <1>9, <1>10, <1>11, <1>12, <1>13, <1>14,
           CommandType DEF LevelNames, Searches

LEMMA StoredParts ==
    ASSUME Stored(lamp') = Stored(lamp)
    PROVE  /\ lamp'.scene = lamp.scene /\ lamp'.fade = lamp.fade /\ lamp'.groups = lamp.groups
           /\ Half(0)' = Half(0) /\ Half(1)' = Half(1)
<1>1. lamp'.scene = lamp.scene /\ lamp'.fade = lamp.fade /\ lamp'.groups = lamp.groups
  BY DEF Stored
<1> QED BY <1>1 DEF Half

\* An answer that counts keeps counting.
LEMMA AnswersGrow ==
    ASSUME Leads' <=> Leads, spoiled => spoiled', wireless' = wireless, seen \subseteq seen',
           hits' >= hits, hits \in Nat, hits' \in Nat, NEW v
    PROVE  Answers(v) \subseteq Answers(v)'
<1>1. Excused({v}, Tries) => Excused({v}, Tries)'
  BY DEF Excused, Ambiguous, Tries
<1> QED BY <1>1 DEF Answers

\* Every question of such a command is answered with what was asked for, or its
\* silence has a cause.
LEMMA AnswerCounts ==
    ASSUME TypeOK, NEW a, Closes(a), Leads => hits >= try.udp - 1,
           Head(todo).via = Way(RowType), Head(todo).kind \in {"get_scene", "get_fade", "get_group"},
           Leads' <=> Leads, NEW v, v = Answer(Head(todo))
    PROVE  a \in Answers(v)'
<1>1. /\ hits \in Nat /\ try.udp \in 1 .. 3 /\ wireless' = wireless /\ wireless \in BOOLEAN
  BY DEF TypeOK, Closes, device
<1>2. Leads => Head(todo).via = Own /\ Reached(Head(todo))
  BY DEF Leads, Reached
<1>3. SUFFICES a = Back(v) \/ (a = Timeout /\ Excused({v}, Tries)')
  BY DEF Answers
<1>4. CASE a = Received(v) /\ UNCHANGED <<hits, seen, spoiled>>
  <2>1. CASE wireless /\ v = BACK_TIMEOUT
    <3>1. a = Timeout
      BY <1>4, <2>1 DEF Received
    <3>2. Ambiguous({v} \cup seen)'
      BY <1>1, <2>1 DEF Ambiguous
    <3> QED BY <3>1, <3>2 DEF Excused
  <2>2. CASE ~(wireless /\ v = BACK_TIMEOUT)
    BY <1>4, <2>2 DEF Received
  <2> QED BY <2>1, <2>2
<1>5. CASE a = Timeout /\ spoiled' = TRUE
  BY <1>5 DEF Excused
<1>6. CASE /\ a = Timeout /\ hits' = IF Reached(Head(todo)) THEN hits + 1 ELSE hits
           /\ ~(Head(todo).via = "wifi" /\ try.udp < 3)
  <2>1. Leads => hits' >= Tries
    <3>1. CASE wireless
      BY <1>1, <1>2, <1>6, <3>1 DEF Own, Tries
    <3>2. CASE ~wireless
      BY <1>1, <1>2, <1>6, <3>2 DEF Own, Tries
    <3> QED BY <3>1, <3>2
  <2>2. Tries' = Tries
    BY <1>1 DEF Tries
  <2> QED BY <1>6, <2>1, <2>2 DEF Excused
<1> QED BY <1>4, <1>5, <1>6 DEF Closes

AnswerParts ==
    /\ Leads => hits >= try.udp - 1
    /\ cmd.name \in SceneNames =>
          kk \in IF todo = <<>> THEN {<<a>> : a \in Answers(lamp.scene)} ELSE {<<>>}
    /\ cmd.name = "get_detail" =>
          kk \in IF todo = <<>> THEN {<<a>> : a \in Answers(lamp.fade)} ELSE {<<>>}
    /\ cmd.name \in GroupNames =>
          kk \in IF todo = <<>> THEN {<<a, b>> : a \in Answers(Half(0)), b \in Answers(Half(1))}
                 ELSE IF Len(todo) = 1 THEN {<<a>> : a \in Answers(Half(0))} ELSE {<<>>}
    /\ cmd.name = "get_rapor" =>
          /\ hits = 0 /\ ~wireless =>
                /\ Len(todo) = 2 => once = To("cable", "store", 0) \/ lamp.dtr \in seen
                /\ Len(todo) <= 1 => lamp.dtr \in seen
          /\ IF todo = <<>> THEN \E a \in AnswerOf : /\ kk = <<a>>
                                                     /\ hits = 0 /\ a # Timeout => a.data \in seen
             ELSE kk = <<>>
    /\ cmd.name \notin SceneNames \cup GroupNames \cup {"get_detail", "get_rapor"} => kk = <<>>

LEMMA AnswerInvParts ==
    AnswerInv <=> (cmd # None /\ cmd.name \notin LevelNames \cup Searches => AnswerParts)
BY DEF AnswerInv, AnswerParts

\* Nothing about the answers of a command changes while it goes on with no answer.
LEMMA AnswersKept ==
    ASSUME TypeOK, AnswerParts, UNCHANGED <<wireless, cmd, kk, todo>>, Leads' <=> Leads,
           Stored(lamp') = Stored(lamp), lamp'.dtr = lamp.dtr, seen \subseteq seen',
           spoiled => spoiled', hits' \in Nat, hits' >= hits, hits' = 0 => once' = once,
           Leads => hits' >= try'.udp - 1
    PROVE  AnswerParts'
<1>1. hits \in Nat
  BY DEF TypeOK
<1>2. /\ lamp'.scene = lamp.scene /\ lamp'.fade = lamp.fade /\ Half(0)' = Half(0) /\ Half(1)' = Half(1)
  BY StoredParts
<1>3. \A v : Answers(v) \subseteq Answers(v)'
  BY <1>1, AnswersGrow
<1>4. /\ Answers(lamp.scene) \subseteq Answers(lamp.scene)'
      /\ Answers(lamp.fade) \subseteq Answers(lamp.fade)'
      /\ Answers(Half(0)) \subseteq Answers(Half(0))' /\ Answers(Half(1)) \subseteq Answers(Half(1))'
  BY <1>2, <1>3
<1> QED BY <1>1, <1>4 DEF AnswerParts

LEMMA AnswerSent ==
    ASSUME TypeOK, ProgramInv, SeenInv, AnswerParts, cmd # None,
           cmd.name \notin LevelNames \cup Searches, DaliSend
    PROVE  AnswerParts'
<1>1. /\ todo # <<>> /\ Head(todo).kind \notin Queries /\ todo' = Tail(todo)
      /\ UNCHANGED <<device, row, command, kk, try, buffer, seen>>
      /\ Head(todo) \in FrameOf /\ hits \in Nat /\ lamp \in LampOf
      /\ Len(todo') = Len(todo) - 1 /\ Len(todo) \in Nat
  BY HeadType DEF DaliSend, TypeOK
<1>2. hits' \in Nat /\ hits' >= hits
  BY <1>1 DEF DaliSend, Fault
<1>3. Leads' <=> Leads
  BY <1>1, SameTerms DEF device, command
<1>4. /\ cmd.name \in SceneNames => kk' = <<>> /\ todo' # <<>>
      /\ cmd.name # "get_detail"
      /\ cmd.name \in GroupNames => kk' = <<>> /\ todo' # <<>> /\ Len(todo') # 1
  <2>1. /\ cmd.name \in SceneNames => Len(todo) > 1
        /\ cmd.name \in GroupNames => Len(todo) > 2
        /\ cmd.name # "get_detail"
    <3>1. cmd.name = "get_detail" => Head(todo) = To(Way(RowType), "get_fade", 0)
      BY <1>1, PlainQuestion
    <3>2. To(Way(RowType), "get_fade", 0).kind \in Queries
      BY DEF To, Queries
    <3>3. cmd.name # "get_detail"
      BY <1>1, <3>1, <3>2
    <3> QED BY <1>1, <3>3, PlainQuestion
  <2>2. kk' = kk
    BY <1>1
  <2>3. cmd.name \in SceneNames => kk = <<>>
    BY <1>1, <2>1 DEF AnswerParts
  <2>4. cmd.name \in GroupNames => kk = <<>>
    BY <1>1, <2>1 DEF AnswerParts
  <2>5. todo' = <<>> => Len(todo') = 0
    OBVIOUS
  <2> QED BY <1>1, <2>1, <2>2, <2>3, <2>4, <2>5
<1>5. ASSUME cmd.name = "get_rapor"
      PROVE  /\ kk' = <<>> /\ todo' # <<>>
             /\ hits' = 0 /\ ~wireless =>
                   /\ Len(todo') = 2 => once' = To("cable", "store", 0) \/ lamp'.dtr \in seen
                   /\ Len(todo') <= 1 => lamp'.dtr \in seen
  <2>1. Len(todo) \in {2, 3} /\ Head(todo) = To("cable", "store", 0)
    BY <1>1, <1>5, PlainQuestion
  <2>2. kk' = <<>> /\ todo' # <<>>
    <3>1. kk = <<>>
      BY <1>1, <1>5 DEF AnswerParts
    <3>2. todo' = <<>> => Len(todo') = 0
      OBVIOUS
    <3> QED BY <1>1, <2>1, <3>1, <3>2
  <2>3. ASSUME hits' = 0, ~wireless
        PROVE  /\ Len(todo') = 2 => once' = To("cable", "store", 0) \/ lamp'.dtr \in seen
               /\ Len(todo') <= 1 => lamp'.dtr \in seen
    <3>1. hits = 0 /\ hits' # hits + 1
      BY <1>1, <1>2, <2>3
    <3>2. Reached(Head(todo))
      BY <2>1, <2>3 DEF Reached, Own, To
    <3>3. Hears(Head(todo))
      BY <3>1, <3>2 DEF DaliSend, Fault
    <3>4. Head(todo).kind = "store"
      BY <2>1 DEF To
    <3>5. CASE once # Head(todo)
      <4>1. once' = Head(todo) /\ lamp' = lamp
        BY <1>1, <3>3, <3>4, <3>5, HeardFrame DEF Twice
      <4>2. CASE Len(todo) = 3
        <5>1. Len(todo') = 2 /\ once' = To("cable", "store", 0)
          BY <1>1, <2>1, <4>1, <4>2
        <5> QED BY <5>1
      <4>3. CASE Len(todo) = 2
        BY <1>1, <1>5, <2>1, <2>3, <3>1, <3>5, <4>1, <4>3 DEF AnswerParts
      <4> QED BY <2>1, <4>2, <4>3
    <3>6. CASE once = Head(todo)
      <4>1. lamp' = Executed(lamp, Head(todo))
        BY <1>1, <3>3, <3>4, <3>6, HeardFrame, NoneAssumption DEF Twice
      <4>2. Executed(lamp, Head(todo)) = [lamp EXCEPT !.dtr = lamp.level]
        BY <3>4, Zenon DEF Executed
      <4>3. lamp.level \in seen
        BY <1>5 DEF SeenInv
      <4> QED BY <1>1, <4>1, <4>2, <4>3 DEF LampOf
    <3> QED BY <3>5, <3>6
  <2> QED BY <2>2, <2>3
<1>6. /\ cmd' = cmd /\ wireless' = wireless /\ seen' = seen /\ kk' = kk /\ try' = try
  BY <1>1 DEF device, command
<1>7. Leads => hits >= try.udp - 1
  BY DEF AnswerParts
<1>8. Leads' => hits' >= try'.udp - 1
  <2>1. try.udp \in Nat
    BY DEF TypeOK
  <2> QED BY <1>1, <1>2, <1>3, <1>6, <1>7, <2>1
<1>9. cmd.name \notin SceneNames \cup GroupNames \cup {"get_detail", "get_rapor"} => kk' = <<>>
  BY <1>6 DEF AnswerParts
<1>10. cmd.name = "get_rapor" => cmd.name \notin SceneNames \cup GroupNames
  BY DEF SceneNames, GroupNames
<1>11. cmd.name \in SceneNames => cmd.name \notin GroupNames
  BY DEF SceneNames, GroupNames
<1> QED BY <1>4, <1>5, <1>6, <1>8, <1>9, <1>10, <1>11 DEF AnswerParts

LEMMA AnswerClosed ==
    ASSUME TypeOK, ProgramInv, AnswerParts, cmd.name \notin LevelNames \cup Searches,
           NEW a, Closes(a)
    PROVE  AnswerParts'
<1>1. /\ cmd # None /\ todo # <<>> /\ Head(todo).kind \in Queries /\ Result(a) /\ a \in AnswerOf
      /\ UNCHANGED <<device, command>> /\ hits \in Nat /\ hits' \in Nat /\ hits' >= hits
      /\ Stored(lamp') = Stored(lamp) /\ lamp'.dtr = lamp.dtr /\ seen \subseteq seen'
      /\ spoiled => spoiled'
  <2>1. hits \in Nat /\ hits' \in {hits, hits + 1}
    BY DEF Closes, TypeOK
  <2> QED BY <2>1 DEF Closes
<1>2. /\ todo' = Tail(todo) /\ kk' = Append(kk, a) /\ row' = row /\ try'.udp = 1
      /\ Len(todo') = Len(todo) - 1 /\ Len(todo) \in Nat /\ Len(todo) >= 1
      /\ todo' = <<>> <=> Len(todo) = 1
  <2>1. todo' = Tail(todo) /\ kk' = Append(kk, a) /\ row' = row /\ try'.udp = 1
    BY <1>1, PlainResult
  <2>2. todo \in Seq(FrameOf)
    BY DEF TypeOK
  <2>3. /\ Len(Tail(todo)) = Len(todo) - 1 /\ Len(todo) \in Nat /\ Len(todo) >= 1
        /\ Tail(todo) \in Seq(FrameOf)
    BY <1>1, <2>2
  <2>4. Tail(todo) = <<>> <=> Len(Tail(todo)) = 0
    BY <2>3
  <2> QED BY <2>1, <2>3, <2>4
<1>3. (Leads' <=> Leads) /\ cmd' = cmd /\ wireless' = wireless
  BY <1>1, <1>2, SameTerms DEF device, command
<1>4. /\ lamp'.scene = lamp.scene /\ lamp'.fade = lamp.fade /\ Half(0)' = Half(0) /\ Half(1)' = Half(1)
  BY <1>1, StoredParts
<1>5. \A v : Answers(v) \subseteq Answers(v)'
  BY <1>1, <1>3, AnswersGrow
<1>6. Leads' => hits' >= try'.udp - 1
  BY <1>1, <1>2
<1>7. Leads => hits >= try.udp - 1
  BY DEF AnswerParts
<1>8. kk = <<>> => kk' = <<a>>
  BY <1>2
<1>9. CASE cmd.name \in SceneNames
  <2>1. Len(todo) = 1 /\ Head(todo) = To(Way(RowType), "get_scene", 0) /\ kk = <<>>
    BY <1>1, <1>9, PlainQuestion DEF AnswerParts
  <2>2. Head(todo).kind = "get_scene" /\ Head(todo).via = Way(RowType)
    BY <2>1 DEF To
  <2>3. Answer(Head(todo)) = lamp.scene
    BY <2>2, SMT DEF Answer
  <2>4. a \in Answers(lamp.scene)'
    <3>1. \A v : v = Answer(Head(todo)) => a \in Answers(v)'
      BY <1>3, <1>7, <2>2, AnswerCounts
    <3> QED BY <1>4, <2>3, <3>1
  <2> QED BY <1>2, <1>3, <1>6, <1>8, <1>9, <2>1, <2>4 DEF AnswerParts, SceneNames, GroupNames
<1>10. CASE cmd.name = "get_detail"
  <2>1. Len(todo) = 1 /\ Head(todo) = To(Way(RowType), "get_fade", 0) /\ kk = <<>>
    BY <1>1, <1>10, PlainQuestion DEF AnswerParts
  <2>2. Head(todo).kind = "get_fade" /\ Head(todo).via = Way(RowType)
    BY <2>1 DEF To
  <2>3. Answer(Head(todo)) = lamp.fade
    BY <2>2, SMT DEF Answer
  <2>4. a \in Answers(lamp.fade)'
    <3>1. \A v : v = Answer(Head(todo)) => a \in Answers(v)'
      BY <1>3, <1>7, <2>2, AnswerCounts
    <3> QED BY <1>4, <2>3, <3>1
  <2> QED BY <1>2, <1>3, <1>6, <1>8, <1>10, <2>1, <2>4 DEF AnswerParts, SceneNames, GroupNames
<1>11. CASE cmd.name \in GroupNames
  <2>1. \/ Len(todo) = 2 /\ Head(todo) = To(Way(RowType), "get_group", 0)
        \/ Len(todo) = 1 /\ Head(todo) = To(Way(RowType), "get_group", 1)
    BY <1>1, <1>11, PlainQuestion
  <2>2. Head(todo).kind = "get_group" /\ Head(todo).via = Way(RowType)
        /\ Head(todo).val = IF Len(todo) = 2 THEN 0 ELSE 1
    BY <2>1 DEF To
  <2>3. Answer(Head(todo)) = IF Len(todo) = 2 THEN Half(0) ELSE Half(1)
    <3>1. Answer(Head(todo)) = IF Head(todo).val \in lamp.groups THEN 1 ELSE 0
      BY <2>2, SMT DEF Answer
    <3> QED BY <2>1, <2>2, <3>1 DEF Half
  <2>4. \A v : v = Answer(Head(todo)) => a \in Answers(v)'
    BY <1>3, <1>7, <2>2, AnswerCounts
  <2>5. CASE Len(todo) = 2
    <3>1. kk = <<>> /\ todo' # <<>> /\ Len(todo') = 1
      BY <1>2, <1>11, <2>5 DEF AnswerParts
    <3>2. a \in Answers(Half(0))'
      BY <1>4, <2>3, <2>4, <2>5
    <3> QED BY <1>3, <1>6, <1>8, <1>11, <3>1, <3>2 DEF AnswerParts, SceneNames, GroupNames
  <2>6. CASE Len(todo) = 1
    <3>1. todo' = <<>>
      BY <1>2, <2>6
    <3>2. PICK b \in Answers(Half(0)) : kk = <<b>>
      BY <1>1, <1>11, <2>6 DEF AnswerParts
    <3>3. kk' = <<b, a>>
      <4>1. Append(<<b>>, a) = <<b, a>>
        BY ShortAppend
      <4> QED BY <1>2, <3>2, <4>1
    <3>4. a \in Answers(Half(1))'
      BY <1>4, <2>3, <2>4, <2>6
    <3>5. b \in Answers(Half(0))'
      BY <1>4, <1>5, <3>2
    <3> QED BY <1>3, <1>6, <1>11, <3>1, <3>3, <3>4, <3>5 DEF AnswerParts, SceneNames, GroupNames
  <2> QED BY <2>1, <2>5, <2>6
<1>12. CASE cmd.name = "get_rapor"
  <2>1. Len(todo) = 1 /\ Head(todo) = To("cable", "get_dtr", 0) /\ kk = <<>>
    BY <1>1, <1>12, PlainQuestion DEF AnswerParts
  <2>2. Head(todo).kind = "get_dtr" /\ Head(todo).via = "cable"
    BY <2>1 DEF To
  <2>3. Answer(Head(todo)) = lamp.dtr
    BY <2>2, SMT DEF Answer
  <2>4. ASSUME hits' = 0
        PROVE  hits = 0 /\ (a # Timeout => a.data \in seen')
    <3>1. hits = 0 /\ hits' = hits
      BY <1>1, <2>4
    <3>2. ASSUME a # Timeout
          PROVE  a.data \in seen'
      <4>1. Reached(Head(todo)) /\ a = Received(lamp.dtr) /\ seen' = seen
        BY <1>1, <2>2, <2>3, <2>4, <3>2 DEF Closes
      <4>2. ~wireless
        BY <2>2, <4>1 DEF Reached, Own
      <4>3. a.data = lamp.dtr
        BY <3>2, <4>1 DEF Received, Back
      <4>4. lamp.dtr \in seen
        BY <1>12, <2>1, <3>1, <4>2 DEF AnswerParts
      <4> QED BY <4>1, <4>3, <4>4
    <3> QED BY <3>1, <3>2
  <2>5. hits' = 0 /\ ~wireless => lamp'.dtr \in seen'
    BY <1>1, <1>12, <2>1, <2>4 DEF AnswerParts
  <2> QED BY <1>1, <1>2, <1>3, <1>6, <1>8, <1>12, <2>1, <2>4, <2>5 DEF AnswerParts, SceneNames, GroupNames
<1> QED BY <1>1, <1>9, <1>10, <1>11, <1>12, PlainQuestion

LEMMA AnswerStarted ==
    ASSUME NEW c \in Command, Start(c), c.name \notin LevelNames \cup Searches
    PROVE  AnswerParts'
<1>1. cmd' = c /\ todo' = Frames(c) /\ kk' = <<>> /\ try'.udp = 1 /\ hits' = 0
  BY DEF Start
<1>2. Leads' => hits' >= try'.udp - 1
  BY <1>1
<1>3. c.name \in SceneNames \cup {"get_detail"} => todo' # <<>>
  <2>1. CASE c.name = "set_scene"
    BY <1>1, <2>1, Programs
  <2>2. CASE c.name = "clear_scene"
    BY <1>1, <2>2, Programs
  <2>3. CASE c.name \in {"get_scene", "get_detail"}
    BY <1>1, <2>3, Programs
  <2> QED BY <2>1, <2>2, <2>3 DEF SceneNames
<1>4. c.name \in GroupNames => todo' # <<>> /\ Len(todo') # 1
  <2>1. CASE c.name \in {"set_group", "unset_group"}
    <3>1. \E k \in {"group", "ungroup"} :
             todo' = <<To(Way(RowType), k, c.val), To(Way(RowType), k, c.val),
                       To(Way(RowType), "get_group", 0), To(Way(RowType), "get_group", 1)>>
      BY <1>1, <2>1, Programs
    <3> QED BY <3>1
  <2>2. CASE c.name = "get_group"
    <3>1. todo' = <<To(Way(RowType), "get_group", 0), To(Way(RowType), "get_group", 1)>>
      BY <1>1, <2>2, Programs
    <3> QED BY <3>1
  <2> QED BY <2>1, <2>2 DEF GroupNames
<1>5. c.name = "get_rapor" => todo' # <<>> /\ Len(todo') = 3
  BY <1>1, Programs
<1>6. c.name \in GroupNames => c.name \notin SceneNames \cup {"get_detail", "get_rapor"}
  BY DEF GroupNames, SceneNames
<1> QED BY <1>1, <1>2, <1>3, <1>4, <1>5, <1>6 DEF AnswerParts

LEMMA AnswerStep ==
    ASSUME TypeOK, BufferInv, ProgramInv, SeenInv, AnswerInv, [Next]_vars
    PROVE  AnswerInv'
<1> USE DEF device, command, buffer
<1> DEFINE Plain == cmd # None /\ cmd.name \notin LevelNames \cup Searches
<1>1. Plain => AnswerParts
  BY AnswerInvParts
<1>2. SUFFICES ASSUME Plain'
               PROVE  AnswerParts'
  BY DEF AnswerInv, AnswerParts
<1>3. hits \in Nat /\ try.udp \in 1 .. 3
  BY DEF TypeOK
<1>4. CASE UNCHANGED vars
  <2>1. (Leads' <=> Leads) /\ AnswerParts
    BY <1>1, <1>2, <1>4, SameTerms DEF vars
  <2>2. Leads => hits >= try.udp - 1
    BY <2>1 DEF AnswerParts
  <2> QED BY <1>3, <1>4, <2>1, <2>2, AnswersKept DEF vars
<1>5. ASSUME NEW c \in Command, Start(c)
      PROVE  AnswerParts'
  BY <1>2, <1>5, AnswerStarted DEF Start
<1>6. CASE DaliSend
  BY <1>1, <1>2, <1>6, AnswerSent DEF DaliSend
<1>7. CASE Retried
  <2>1. /\ AnswerParts /\ Plain /\ (Leads' <=> Leads) /\ todo # <<>>
        /\ Head(todo).kind \in Queries /\ Head(todo).via = "wifi"
    BY <1>1, <1>2, <1>7, SameTerms DEF Retried
  <2>2. Head(todo).via \in {Way(RowType), "cable"}
    <3>1. \E k, v : Head(todo) \in {To(Way(RowType), k, v), To("cable", k, v)}
      BY <2>1, PlainQuestion
    <3> QED BY <3>1 DEF To
  <2>3. Leads => Reached(Head(todo))
    BY <2>1, <2>2 DEF Leads, Reached
  <2>4. /\ hits' = (IF Reached(Head(todo)) THEN hits + 1 ELSE hits)
        /\ Reached(Head(todo)) \/ once' = once
    BY <1>7 DEF Retried
  <2>5. hits' \in Nat /\ hits' >= hits /\ (hits' = 0 => once' = once)
    BY <1>3, <2>4
  <2>6. Leads => hits' >= try'.udp - 1
    <3>1. Leads => hits >= try.udp - 1
      BY <2>1 DEF AnswerParts
    <3>2. try'.udp = try.udp + 1 /\ try.udp \in Nat
      BY <1>3, <1>7 DEF Retried, TypeOK
    <3>3. Leads => hits' = hits + 1
      BY <2>3, <2>4
    <3> QED BY <1>3, <3>1, <3>2, <3>3
  <2>7. /\ UNCHANGED <<wireless, cmd, kk, todo, lamp, seen, spoiled>>
        /\ Stored(lamp') = Stored(lamp)
    BY <1>7 DEF Retried
  <2> QED BY <2>1, <2>5, <2>6, <2>7, AnswersKept
<1>8. ASSUME NEW a, Closes(a)
      PROVE  AnswerParts'
  BY <1>1, <1>2, <1>8, AnswerClosed DEF Closes
<1>9. CASE Switched
  <2>1. /\ AnswerParts /\ (Leads' <=> Leads)
    BY <1>1, <1>2, <1>9, SameTerms DEF Switched
  <2>2. Leads => hits >= try.udp - 1
    BY <2>1 DEF AnswerParts
  <2>3. /\ UNCHANGED <<wireless, cmd, kk, todo, spoiled, try>> /\ hits' = hits + 1
        /\ Stored(lamp') = Stored(lamp) /\ lamp'.dtr = lamp.dtr /\ seen \subseteq seen'
    BY <1>9 DEF Switched
  <2>4. hits' \in Nat /\ hits' >= hits /\ hits' # 0 /\ (Leads => hits' >= try'.udp - 1)
    BY <1>3, <2>2, <2>3
  <2> QED BY <2>1, <2>3, <2>4, AnswersKept
<1>10. CASE Reply
  BY <1>2, <1>10 DEF Reply
<1> QED BY <1>4, <1>5, <1>6, <1>7, <1>8, <1>9, <1>10, Steps

-----------------------------------------------------------------------------
(* What get_level brings *)

LevelParts ==
    /\ ~Leads => kk \in {<<>>, <<Timeout>>}
    /\ Leads =>
          /\ Len(kk) <= 1
          /\ todo = <<Ask>> => Cost(try.udp - 1)
          /\ todo # <<>> /\ todo # <<Ask>> => Paid >= 1 /\ Cost(try.udp)
          /\ todo = <<Store, Fetch>> => once = Store \/ lamp.dtr \in seen \/ Misled
          /\ todo = <<Fetch>> => lamp.dtr \in seen \/ Misled
          /\ todo = <<>> /\ kk # <<>> =>
                IF kk = <<Timeout>> THEN Excuse \/ hits >= 4
                ELSE kk[1].backword = "BACK_DATA" /\ (kk[1].data \in seen \/ Paid >= 2)

LEMMA LevelInvParts ==
    LevelInv <=> (cmd # None /\ cmd.name \in LevelNames => LevelParts)
BY DEF LevelInv, LevelParts

\* The stages of get_level are told apart by what remains.
LEMMA Stages ==
    /\ <<Ask>> # <<>> /\ <<Fetch>> # <<>> /\ <<Store, Fetch>> # <<>> /\ <<Store, Store, Fetch>> # <<>>
    /\ <<Ask>> # <<Fetch>> /\ <<Ask>> # <<Store, Fetch>> /\ <<Ask>> # <<Store, Store, Fetch>>
    /\ <<Fetch>> # <<Store, Fetch>> /\ <<Fetch>> # <<Store, Store, Fetch>>
    /\ <<Store, Fetch>> # <<Store, Store, Fetch>>
<1>1. Ask # Fetch
  BY SpecialFrames
<1> QED BY <1>1

LEMMA SameStages ==
    ASSUME row' = row
    PROVE  Ask' = Ask /\ Store' = Store /\ Fetch' = Fetch
BY DEF Ask, Store, Fetch, RowType

\* A disturbance adds to the cost of what fails.
LEMMA CostGrows ==
    ASSUME TypeOK, NEW k \in Nat, hits' \in Nat, hits' >= hits + k, try'.level = try.level,
           wireless' = wireless, seen \subseteq seen', spoiled => spoiled'
    PROVE  /\ \A n \in Nat : Cost(n) => Cost(n + k)'
           /\ Paid \in Nat /\ Paid' \in Nat /\ Paid' >= Paid + k
           /\ Excuse => Excuse'
           /\ Misled => Misled'
<1>1. hits \in Nat /\ try.level \in Nat
  BY DEF TypeOK
<1>2. Ambiguous(seen) => Ambiguous(seen)'
  BY DEF Ambiguous
<1>3. Excuse => Excuse'
  BY <1>2 DEF Excuse
<1>4. ASSUME NEW n \in Nat, Cost(n)
      PROVE  Cost(n + k)'
  <2>1. CASE Excuse
    BY <1>3, <2>1 DEF Cost
  <2>2. CASE hits >= 2 * (try.level - 1) + n
    <3>1. hits' >= 2 * (try'.level - 1) + (n + k)
      BY <1>1, <2>2
    <3> QED BY <3>1 DEF Cost
  <2> QED BY <1>4, <2>1, <2>2 DEF Cost
<1>5. Paid \in Nat /\ Paid' \in Nat /\ Paid' >= Paid + k
  <2>0. PICK h \in Nat : hits' = h
    OBVIOUS
  <2>1. h >= hits + k
    BY <2>0
  <2>2. CASE Ambiguous(seen)
    <3>1. Paid = hits + 1 /\ Paid' = h + 1
      BY <1>2, <2>0, <2>2 DEF Paid
    <3>2. hits + 1 \in Nat /\ h + 1 \in Nat /\ h + 1 >= hits + 1 + k
      BY <1>1, <2>1
    <3> QED BY <3>1, <3>2
  <2>3. CASE ~Ambiguous(seen)
    <3>1. Paid = hits /\ Paid' \in {h, h + 1}
      BY <2>0, <2>3 DEF Paid
    <3>2. h + 1 \in Nat /\ h + 1 >= hits + k
      BY <1>1, <2>1
    <3> QED BY <1>1, <2>1, <3>1, <3>2
  <2> QED BY <2>2, <2>3
<1>6. Cost(2) => Cost(2)'
  <2>1. CASE Excuse
    BY <1>3, <2>1 DEF Cost
  <2>2. CASE hits >= 2 * (try.level - 1) + 2
    <3>1. hits' >= 2 * (try'.level - 1) + 2
      BY <1>1, <2>2
    <3> QED BY <3>1 DEF Cost
  <2> QED BY <2>1, <2>2 DEF Cost
<1>7. Misled => Misled'
  BY <1>5, <1>6 DEF Misled
<1> QED BY <1>3, <1>4, <1>5, <1>7

\* After a disturbance that costs something a stored level is not trusted.
LEMMA MisledBy ==
    ASSUME TypeOK, Paid >= 1, Cost(try.udp), hits' = hits + 1, try'.level = try.level,
           wireless' = wireless, seen \subseteq seen', spoiled => spoiled'
    PROVE  Misled'
<1>1. hits \in Nat /\ try.udp \in Nat /\ try.udp >= 1 /\ try.level \in Nat
  BY DEF TypeOK
<1>2. hits' \in Nat /\ hits' >= hits + 1 /\ 1 \in Nat
  BY <1>1
<1>3. (Excuse => Excuse') /\ Paid \in Nat /\ Paid' >= Paid + 1 /\ Paid' \in Nat
  BY <1>2, CostGrows
<1>4. Paid' >= 2
  BY <1>3
<1>5. Cost(2)'
  <2>1. CASE Excuse
    BY <1>3, <2>1 DEF Cost
  <2>2. CASE hits >= 2 * (try.level - 1) + try.udp
    <3>1. hits' >= 2 * (try'.level - 1) + 2
      BY <1>1, <2>2
    <3> QED BY <3>1 DEF Cost
  <2> QED BY <2>1, <2>2 DEF Cost
<1> QED BY <1>4, <1>5 DEF Misled

LEMMA LevelStarted ==
    ASSUME NEW c \in Command, Start(c), c.name \in LevelNames
    PROVE  LevelParts'
<1>1. /\ todo' = Frames(c) /\ kk' = <<>> /\ try' = [udp |-> 1, level |-> 1] /\ hits' = 0
      /\ row' = row
  BY DEF Start, LevelNames
<1>2. todo' \in {<<Ask>>, <<>>}
  BY <1>1, AnyFrames
<1>3. Ask' = Ask /\ Store' = Store /\ Fetch' = Fetch
  BY <1>1, SameStages
<1>4. Cost(try.udp - 1)'
  BY <1>1 DEF Cost
<1>5. /\ Len(kk') <= 1
      /\ ~(todo' # <<>> /\ todo' # <<Ask>>) /\ todo' # <<Store, Fetch>> /\ todo' # <<Fetch>>
  BY <1>1, <1>2, Stages
<1> QED BY <1>1, <1>3, <1>4, <1>5 DEF LevelParts

LEMMA LevelSent ==
    ASSUME TypeOK, ProgramInv, SeenInv, LevelParts, cmd # None, cmd.name \in LevelNames, DaliSend
    PROVE  LevelParts'
<1>1. /\ todo # <<>> /\ Head(todo).kind \notin Queries /\ todo' = Tail(todo)
      /\ UNCHANGED <<wireless, row, cmd, before, kk, try, spoiled, seen>>
      /\ hits \in Nat /\ lamp \in LampOf /\ hits' \in {hits, hits + 1}
  BY DEF DaliSend, Fault, device, command, buffer, TypeOK
<1>2. (Leads' <=> Leads) /\ Ask' = Ask /\ Store' = Store /\ Fetch' = Fetch
  BY <1>1, SameTerms, SameStages
<1>3. todo \in {<<Store, Store, Fetch>>, <<Store, Fetch>>}
  BY <1>1, LevelTodo, SpecialFrames DEF Queries
<1>4. /\ Head(todo) = Store /\ Store.via = Way(RowType) /\ Store.kind = "store" /\ Store \in FrameOf
      /\ todo' = IF todo = <<Store, Fetch>> THEN <<Fetch>> ELSE <<Store, Fetch>>
  <2>1. CASE todo = <<Store, Store, Fetch>>
    BY <1>1, <2>1, Stages, SpecialFrames
  <2>2. CASE todo = <<Store, Fetch>>
    BY <1>1, <2>2, SpecialFrames
  <2> QED BY <1>3, <2>1, <2>2
<1>5. SUFFICES ASSUME Leads
               PROVE  /\ todo' = <<Store, Fetch>> =>
                            once' = Store \/ lamp'.dtr \in seen \/ Misled'
                      /\ todo' = <<Fetch>> => lamp'.dtr \in seen \/ Misled'
                      /\ Len(kk) <= 1 /\ Paid' >= 1 /\ Cost(try.udp)'
  <2>1. todo' # <<>> /\ todo' # <<Ask>>
    BY <1>4, Stages
  <2>2. ~Leads => kk' \in {<<>>, <<Timeout>>}
    BY <1>1 DEF LevelParts
  <2> QED BY <1>1, <1>2, <2>1, <2>2 DEF LevelParts
<1>6. Reached(Head(todo))
  BY <1>4, <1>5 DEF Leads, Reached
<1>7. Len(kk) <= 1 /\ Paid >= 1 /\ Cost(try.udp)
  BY <1>1, <1>3, <1>5, Stages DEF LevelParts
<1>8. /\ Paid' >= 1 /\ Cost(try.udp)' /\ (Misled => Misled')
  <2>1. hits' \in Nat /\ hits' >= hits + 0 /\ 0 \in Nat /\ try.udp \in Nat /\ try.udp + 0 = try.udp
    BY <1>1 DEF TypeOK
  <2>2. /\ \A n \in Nat : Cost(n) => Cost(n + 0)'
        /\ Paid \in Nat /\ Paid' \in Nat /\ Paid' >= Paid + 0 /\ (Misled => Misled')
    BY <1>1, <2>1, CostGrows
  <2>3. Cost(try.udp + 0)'
    <3>1. \A n : n = try.udp => Cost(n + 0)'
      BY <1>7, <2>1, <2>2
    <3> QED BY <1>1, <3>1
  <2> QED BY <1>1, <1>7, <2>1, <2>2, <2>3
<1>9. CASE Hears(Head(todo))
  <2>1. CASE once # Store
    <3>1. once' = Store /\ lamp' = lamp
      BY <1>4, <1>9, <2>1, HeardFrame DEF Twice
    <3>2. todo = <<Store, Fetch>> => lamp.dtr \in seen \/ Misled
      BY <1>5, <2>1 DEF LevelParts
    <3> QED BY <1>4, <1>7, <1>8, <3>1, <3>2, Stages
  <2>2. CASE once = Store
    <3>1. lamp' = Executed(lamp, Store)
      BY <1>4, <1>9, <2>2, HeardFrame, NoneAssumption DEF Twice
    <3>2. Executed(lamp, Store) = [lamp EXCEPT !.dtr = lamp.level]
      BY <1>4, Zenon DEF Executed
    <3>3. lamp.level \in seen
      BY DEF SeenInv
    <3>4. lamp'.dtr \in seen
      BY <1>1, <3>1, <3>2, <3>3 DEF LampOf
    <3> QED BY <1>7, <1>8, <3>4
  <2> QED BY <2>1, <2>2
<1>10. CASE Fault
  <2>1. Misled'
    BY <1>1, <1>7, <1>10, MisledBy DEF Fault
  <2> QED BY <1>7, <1>8, <2>1
<1> QED BY <1>6, <1>9, <1>10 DEF DaliSend

LEMMA LevelClosed ==
    ASSUME TypeOK, ProgramInv, SeenInv, LevelParts, cmd.name \in LevelNames, NEW a, Closes(a)
    PROVE  LevelParts'
<1>1. /\ cmd # None /\ todo # <<>> /\ Head(todo).kind \in Queries /\ Result(a) /\ a \in AnswerOf
      /\ UNCHANGED <<wireless, cmd, before>> /\ hits \in Nat /\ hits' \in {hits, hits + 1}
      /\ lamp'.dtr = lamp.dtr /\ seen \subseteq seen' /\ spoiled => spoiled'
      /\ try.udp \in 1 .. 3 /\ try.level \in 1 .. 2 /\ lamp \in LampOf
  BY DEF Closes, TypeOK, device, command
<1>2. /\ kk' = <<a>> /\ row' = row
      /\ try' = [udp |-> 1, level |-> IF todo' = <<Ask>> THEN 2 ELSE try.level]
      /\ \/ todo = <<Ask>> /\ (a = Timeout \/ a.data = 255) /\ todo' = <<Store, Store, Fetch>>
         \/ todo = <<Ask>> /\ a # Timeout /\ a.data # 255 /\ todo' = <<>>
         \/ todo = <<Fetch>> /\ a = Timeout /\ try.level = 1 /\ todo' = <<Ask>>
         \/ todo = <<Fetch>> /\ (a # Timeout \/ try.level # 1) /\ todo' = <<>>
  BY <1>1, LevelResult
<1>3. (Leads' <=> Leads) /\ Ask' = Ask /\ Store' = Store /\ Fetch' = Fetch
  BY <1>1, <1>2, SameTerms, SameStages
<1>4. Head(todo) \in {Ask, Fetch} /\ Head(todo).via = Way(RowType) /\ Way(RowType) \in {"cable", "wifi"}
  <2>1. Head(todo) \in {Ask, Fetch}
    BY <1>2
  <2> QED BY <2>1, SpecialFrames, Ways
<1>5. ASSUME ~Leads
      PROVE  a = Timeout
  <2>1. ~Reached(Head(todo))
    BY <1>4, <1>5 DEF Leads, Reached
  <2> QED BY <2>1 DEF Closes
<1>6. Len(kk') <= 1 /\ kk' # <<>> /\ kk'[1] = a
  BY <1>2
<1>7. SUFFICES ASSUME Leads
               PROVE  /\ todo' = <<Ask>> => Cost(0)'
                      /\ todo' = <<Store, Store, Fetch>> => Paid' >= 1 /\ Cost(1)'
                      /\ todo' = <<>> => IF a = Timeout THEN Excuse' \/ hits' >= 4
                                         ELSE /\ a.backword = "BACK_DATA"
                                              /\ a.data \in seen' \/ Paid' >= 2
  <2>1. /\ todo' \in {<<Ask>>, <<Store, Store, Fetch>>, <<>>} /\ try'.udp = 1
        /\ todo' # <<Store, Fetch>> /\ todo' # <<Fetch>>
    BY <1>2, Stages
  <2>2. ~Leads' => kk' \in {<<>>, <<Timeout>>}
    BY <1>2, <1>3, <1>5
  <2>3. kk' = <<Timeout>> <=> a = Timeout
    BY <1>2
  <2> HIDE DEF Cost, Excuse, Paid, Misled
  <2> QED BY <1>3, <1>6, <2>1, <2>2, <2>3, Stages DEF LevelParts
<1>8. Reached(Head(todo))
  BY <1>4, <1>7 DEF Leads, Reached
<1>9. \/ a = Timeout
      \/ a.backword = "BACK_DATA"
  BY DEF Closes, Received, Back
<1>10. CASE todo = <<Ask>>
  <2>1. Cost(try.udp - 1) /\ Head(todo) = Ask
    BY <1>7, <1>10 DEF LevelParts
  <2>2. Answer(Head(todo)) = lamp.level /\ lamp.level \in seen /\ lamp.level \in 0 .. 254
    <3>1. Head(todo).kind = "get_level"
      BY <2>1, SpecialFrames
    <3>2. Answer(Head(todo)) = lamp.level
      BY <3>1, SMT DEF Answer
    <3> QED BY <1>1, <3>2 DEF SeenInv, LampOf
  <2>3. todo' # <<Ask>>
    BY <1>2, <1>10, Stages
  <2>4. try'.level = try.level
    BY <1>2, <2>3
  <2>5. CASE a = Received(lamp.level) /\ UNCHANGED <<hits, seen, spoiled>>
    <3>1. CASE wireless /\ lamp.level = BACK_TIMEOUT
      <4>1. Ambiguous(seen)'
        BY <1>1, <2>2, <2>5, <3>1 DEF Ambiguous
      <4>2. Excuse' /\ Cost(1)' /\ Paid' >= 1
        BY <1>1, <2>5, <4>1 DEF Excuse, Cost, Paid
      <4>3. a = Timeout
        BY <2>5, <3>1 DEF Received
      <4> QED BY <2>3, <4>2, <4>3
    <3>2. CASE ~(wireless /\ lamp.level = BACK_TIMEOUT)
      <4>1. a = Back(lamp.level)
        BY <2>5, <3>2 DEF Received
      <4>2. a # Timeout /\ a.data = lamp.level /\ a.data # 255 /\ a.backword = "BACK_DATA"
        BY <2>2, <4>1 DEF Timeout, Back
      <4>3. todo' = <<>>
        BY <1>2, <1>10, <4>2, Stages
      <4> QED BY <2>2, <2>5, <4>2, <4>3, Stages
    <3> QED BY <3>1, <3>2
  <2>6. CASE a = Timeout /\ spoiled' = TRUE /\ hits >= 1 /\ hits' = hits
    <3>1. Excuse' /\ Cost(1)' /\ Paid' >= 1
      BY <1>1, <2>6 DEF Excuse, Cost, Paid
    <3> QED BY <2>3, <2>6, <3>1
  <2>7. CASE hits' = hits + 1 /\ a \in {Timeout, Back(MASK)} /\ UNCHANGED <<seen, spoiled>>
    <3>1. todo' = <<Store, Store, Fetch>>
      <4>1. a = Timeout \/ a.data = 255
        BY <2>7 DEF Back, MASK
      <4> QED BY <1>2, <1>10, <4>1, Stages
    <3>2. hits' \in Nat /\ hits' >= hits + 1 /\ 1 \in Nat /\ (spoiled => spoiled') /\ seen \subseteq seen'
      BY <1>1, <2>7
    <3>3. Paid' >= 1
      BY <1>1, <2>7 DEF Paid
    <3>4. Cost(1)'
      <4>1. CASE Excuse
        BY <1>1, <2>7, <4>1 DEF Excuse, Cost, Ambiguous
      <4>2. CASE hits >= 2 * (try.level - 1) + (try.udp - 1)
        <5>1. hits' >= 2 * (try'.level - 1) + 1
          BY <1>1, <2>4, <2>7, <4>2
        <5> QED BY <5>1 DEF Cost
      <4> QED BY <2>1, <4>1, <4>2 DEF Cost
    <3> QED BY <3>1, <3>3, <3>4, Stages
  <2> QED BY <1>8, <2>2, <2>5, <2>6, <2>7 DEF Closes
<1>11. CASE todo = <<Fetch>>
  <2>1. /\ Paid >= 1 /\ Cost(try.udp) /\ (lamp.dtr \in seen \/ Misled) /\ Head(todo) = Fetch
    BY <1>7, <1>11, Stages DEF LevelParts
  <2>2. Answer(Head(todo)) = lamp.dtr /\ Head(todo).kind # "get_level"
    <3>1. Head(todo).kind = "get_dtr"
      BY <2>1, SpecialFrames
    <3>2. Answer(Head(todo)) = lamp.dtr
      BY <3>1, SMT DEF Answer
    <3> QED BY <3>1, <3>2
  <2>3. /\ todo' # <<Store, Store, Fetch>>
        /\ todo' = <<Ask>> => try'.level = 2 /\ try.level = 1
        /\ todo' = <<>> /\ a = Timeout => try.level = 2
    <3>1. todo # <<Ask>>
      BY <1>11, Stages
    <3>2. todo' \in {<<Ask>>, <<>>}
      BY <1>2, <3>1
    <3>3. todo' # <<Store, Store, Fetch>> /\ <<Ask>> # <<>>
      BY <3>2, Stages
    <3>4. todo' = <<Ask>> => try.level = 1 /\ try'.level = 2
      BY <1>2, <3>1, <3>3
    <3>5. todo' = <<>> /\ a = Timeout => try.level # 1
      BY <1>2, <3>1, <3>3
    <3> QED BY <1>1, <3>3, <3>4, <3>5
  <2>4. CASE a = Received(lamp.dtr) /\ UNCHANGED <<hits, seen, spoiled>>
    <3>1. CASE wireless /\ lamp.dtr = BACK_TIMEOUT
      <4>1. a = Timeout
        BY <2>4, <3>1 DEF Received
      <4>2. Excuse' \/ hits' >= 2 * (try.level - 1) + 2
        <5>1. CASE lamp.dtr \in seen
          BY <1>1, <2>4, <3>1, <5>1 DEF Excuse, Ambiguous
        <5>2. CASE Misled
          BY <1>1, <2>4, <5>2 DEF Misled, Cost, Excuse, Ambiguous
        <5> QED BY <2>1, <5>1, <5>2
      <4>3. CASE Excuse'
        BY <2>3, <4>1, <4>3 DEF Cost
      <4>4. CASE hits' >= 2 * (try.level - 1) + 2
        <5>1. hits' \in Nat /\ try.level \in {1, 2}
          BY <1>1, <2>4
        <5>2. todo' = <<Ask>> => hits' >= 2 * (try'.level - 1) + 0
          BY <2>3, <4>4, <5>1
        <5>3. todo' = <<>> => hits' >= 4
          BY <2>3, <4>1, <4>4, <5>1
        <5> QED BY <2>3, <4>1, <5>2, <5>3 DEF Cost
      <4> QED BY <4>2, <4>3, <4>4
    <3>2. CASE ~(wireless /\ lamp.dtr = BACK_TIMEOUT)
      <4>1. a = Back(lamp.dtr)
        BY <2>4, <3>2 DEF Received
      <4>2. a # Timeout /\ a.data = lamp.dtr /\ a.backword = "BACK_DATA"
        BY <4>1 DEF Timeout, Back
      <4>3. todo' = <<>>
        BY <1>2, <1>11, <4>2, Stages
      <4>4. a.data \in seen' \/ Paid' >= 2
        <5>1. CASE lamp.dtr \in seen
          BY <2>4, <4>2, <5>1
        <5>2. CASE Misled
          <6>1. Paid >= 2
            BY <5>2 DEF Misled
          <6>2. Paid' = Paid
            BY <1>1, <2>4 DEF Paid, Ambiguous
          <6> QED BY <6>1, <6>2
        <5> QED BY <2>1, <5>1, <5>2
      <4> QED BY <4>2, <4>3, <4>4, Stages
    <3> QED BY <3>1, <3>2
  <2>5. CASE a = Timeout /\ spoiled' = TRUE
    <3>1. Excuse'
      BY <2>5 DEF Excuse
    <3> QED BY <2>3, <2>5, <3>1 DEF Cost
  <2>6. CASE a = Timeout /\ hits' = hits + 1 /\ UNCHANGED <<seen, spoiled>>
    <3>1. CASE Excuse
      <4>1. Excuse'
        BY <1>1, <2>6, <3>1 DEF Excuse, Ambiguous
      <4> QED BY <2>3, <2>6, <4>1 DEF Cost
    <3>2. CASE hits >= 2 * (try.level - 1) + try.udp
      <4>1. hits' \in Nat /\ try.level \in {1, 2} /\ hits' >= 2 * (try.level - 1) + 2
        BY <1>1, <2>6, <3>2
      <4>2. todo' = <<Ask>> => hits' >= 2 * (try'.level - 1) + 0
        BY <2>3, <4>1
      <4>3. todo' = <<>> => hits' >= 4
        BY <2>3, <2>6, <4>1
      <4> QED BY <2>3, <2>6, <4>2, <4>3 DEF Cost
    <3> QED BY <2>1, <3>1, <3>2 DEF Cost
  <2> QED BY <1>8, <2>2, <2>4, <2>5, <2>6 DEF Closes
<1> QED BY <1>2, <1>10, <1>11

LEMMA LevelStep ==
    ASSUME TypeOK, BufferInv, ProgramInv, SeenInv, LevelInv, [Next]_vars
    PROVE  LevelInv'
<1> USE DEF device, command, buffer
<1>1. cmd # None /\ cmd.name \in LevelNames => LevelParts
  BY LevelInvParts
<1>2. SUFFICES ASSUME cmd' # None, cmd'.name \in LevelNames
               PROVE  LevelParts'
  BY DEF LevelInv, LevelParts
<1>3. hits \in Nat /\ try.udp \in 1 .. 3 /\ try.level \in 1 .. 2
  BY DEF TypeOK
\* Nothing but tries and disturbances has changed.
<1>4. ASSUME UNCHANGED <<wireless, row, cmd, before, todo, kk>>,
             lamp'.dtr = lamp.dtr, NEW k \in {0, 1}, hits' = hits + k, try'.level = try.level,
             seen \subseteq seen', spoiled => spoiled',
             todo # <<>> /\ Leads => try'.udp \in {try.udp, try.udp + k},
             todo = <<Store, Fetch>> => once' = once \/ k = 1
      PROVE  LevelParts'
  <2>1. LevelParts /\ (Leads' <=> Leads) /\ Ask' = Ask /\ Store' = Store /\ Fetch' = Fetch
    BY <1>1, <1>2, <1>4, SameTerms, SameStages
  <2>2. /\ k \in Nat /\ hits' \in Nat /\ hits' >= hits + k
    BY <1>3, <1>4
  <2>3. /\ \A n \in Nat : Cost(n) => Cost(n + k)'
        /\ Paid \in Nat /\ Paid' \in Nat /\ Paid' >= Paid + k
        /\ (Excuse => Excuse') /\ (Misled => Misled')
    BY <1>4, <2>2, CostGrows
  <2>4. ASSUME NEW m \in {0, 1}, todo # <<>>, Leads, Cost(try.udp - m)
        PROVE  Cost(try.udp - m)'
    <3>1. CASE Excuse
      BY <2>3, <3>1 DEF Cost
    <3>2. CASE hits >= 2 * (try.level - 1) + (try.udp - m)
      <4>1. PICK j \in {0, k} : try'.udp = try.udp + j
        BY <1>3, <1>4, <2>4
      <4>2. hits' >= 2 * (try'.level - 1) + (try'.udp - m)
        <5>1. hits + k >= 2 * (try.level - 1) + ((try.udp + j) - m)
          BY <1>3, <3>2
        <5>2. hits' = hits + k /\ try'.level = try.level /\ try'.udp = try.udp + j
          BY <1>4, <4>1
        <5>3. 2 * (try'.level - 1) = 2 * (try.level - 1)
          BY <5>2
        <5>4. try'.udp - m = (try.udp + j) - m
          BY <5>2
        <5> QED BY <5>1, <5>2, <5>3, <5>4
      <4> QED BY <4>2 DEF Cost
    <3> QED BY <2>4, <3>1, <3>2 DEF Cost
  <2>5. todo = <<Ask>> /\ Leads => Cost(try.udp - 1)'
    <3>1. todo = <<Ask>> /\ Leads => Cost(try.udp - 1)
      BY <2>1 DEF LevelParts
    <3> QED BY <2>4, <3>1, Stages
  <2>6. todo # <<>> /\ todo # <<Ask>> /\ Leads => Paid >= 1 /\ Paid' >= 1 /\ Cost(try.udp) /\ Cost(try.udp)'
    <3>1. todo # <<>> /\ todo # <<Ask>> /\ Leads => Paid >= 1 /\ Cost(try.udp)
      BY <2>1 DEF LevelParts
    <3>2. try.udp - 0 = try.udp
      BY <1>3
    <3>3. todo # <<>> /\ Leads => try'.udp - 0 = try'.udp
      BY <1>3, <1>4
    <3>4. \A m : m = 0 => m \in {0, 1}
      OBVIOUS
    <3>5. todo # <<>> /\ Leads /\ Cost(try.udp - 0) => Cost(try.udp - 0)'
      BY <2>4, <3>4
    <3>6. todo # <<>> /\ Leads /\ Cost(try.udp) => Cost(try.udp)'
      BY <3>2, <3>3, <3>5 DEF Cost
    <3>7. Paid >= 1 => Paid' >= 1
      BY <1>4, <2>3
    <3> QED BY <3>1, <3>6, <3>7
  <2>7. todo = <<Store, Fetch>> /\ Leads => once' = Store \/ lamp'.dtr \in seen' \/ Misled'
    <3>1. CASE k = 1 /\ todo = <<Store, Fetch>> /\ Leads
      <4>1. Paid >= 1 /\ Cost(try.udp) /\ hits' = hits + 1
        BY <1>4, <2>6, <3>1, Stages
      <4>2. Misled'
        BY <1>4, <4>1, MisledBy
      <4> QED BY <4>2
    <3>2. CASE once' = once /\ todo = <<Store, Fetch>> /\ Leads
      <4>1. once = Store \/ lamp.dtr \in seen \/ Misled
        BY <2>1, <3>2 DEF LevelParts
      <4> QED BY <1>4, <2>3, <3>2, <4>1
    <3> QED BY <1>4, <3>1, <3>2
  <2>8. todo = <<Fetch>> /\ Leads => lamp'.dtr \in seen' \/ Misled'
    <3>1. todo = <<Fetch>> /\ Leads => lamp.dtr \in seen \/ Misled
      BY <2>1 DEF LevelParts
    <3> QED BY <1>4, <2>3, <3>1
  <2>9. ASSUME todo = <<>>, kk # <<>>, Leads
        PROVE  IF kk = <<Timeout>> THEN Excuse' \/ hits' >= 4
               ELSE kk[1].backword = "BACK_DATA" /\ (kk[1].data \in seen' \/ Paid' >= 2)
    <3>1. IF kk = <<Timeout>> THEN Excuse \/ hits >= 4
          ELSE kk[1].backword = "BACK_DATA" /\ (kk[1].data \in seen \/ Paid >= 2)
      BY <2>1, <2>9 DEF LevelParts
    <3>2. hits >= 4 => hits' >= 4
      BY <1>3, <1>4
    <3>3. Paid >= 2 => Paid' >= 2
      BY <1>4, <2>3
    <3> QED BY <1>4, <2>3, <3>1, <3>2, <3>3
  <2>10. /\ ~Leads => kk \in {<<>>, <<Timeout>>}
         /\ Leads => Len(kk) <= 1
    BY <2>1 DEF LevelParts
  <2> HIDE DEF Cost, Excuse, Misled, Paid
  <2> QED BY <1>4, <2>1, <2>5, <2>6, <2>7, <2>8, <2>9, <2>10 DEF LevelParts
<1>5. CASE UNCHANGED vars
  <2>1. hits' = hits + 0 /\ 0 \in {0, 1} /\ try'.udp = try.udp
    BY <1>3, <1>5 DEF vars
  <2>2. /\ UNCHANGED <<wireless, row, cmd, before, todo, kk>> /\ lamp'.dtr = lamp.dtr
        /\ try'.level = try.level /\ seen \subseteq seen' /\ (spoiled => spoiled') /\ once' = once
    BY <1>5 DEF vars
  <2> QED BY <1>4, <2>1, <2>2
<1>6. ASSUME NEW c \in Command, Start(c)
      PROVE  LevelParts'
  BY <1>2, <1>6, LevelStarted DEF Start
<1>7. CASE DaliSend
  <2>1. cmd # None /\ cmd.name \in LevelNames
    BY <1>2, <1>7 DEF DaliSend
  <2> QED BY <1>1, <1>7, <2>1, LevelSent
<1>8. CASE Retried
  <2>1. /\ UNCHANGED <<wireless, row, cmd, before, todo, kk>> /\ lamp'.dtr = lamp.dtr
        /\ seen \subseteq seen' /\ (spoiled => spoiled')
        /\ todo # <<>> /\ Head(todo).kind \in Queries
        /\ hits' = (IF Reached(Head(todo)) THEN hits + 1 ELSE hits)
    BY <1>8 DEF Retried
  <2>2. try'.level = try.level /\ try'.udp = try.udp + 1
    BY <1>8 DEF Retried, TypeOK
  <2>3. todo # <<Store, Fetch>> /\ Head(todo) \in {Ask, Fetch}
    <3>1. Store.kind \notin Queries
      BY SpecialFrames DEF Queries
    <3>2. CASE todo = <<Store, Fetch>>
      BY <2>1, <3>1, <3>2
    <3>3. CASE todo = <<Store, Store, Fetch>>
      BY <2>1, <3>1, <3>3
    <3>4. CASE todo \in {<<Ask>>, <<Fetch>>}
      BY <3>4, Stages
    <3> QED BY <1>2, <2>1, <3>2, <3>3, <3>4, LevelTodo
  <2>4. Leads => Reached(Head(todo))
    BY <2>3, SpecialFrames DEF Leads, Reached
  <2>5. CASE Reached(Head(todo))
    <3>1. hits' = hits + 1 /\ 1 \in {0, 1}
      BY <2>1, <2>5
    <3> QED BY <1>4, <2>1, <2>2, <2>3, <3>1
  <2>6. CASE ~Reached(Head(todo))
    <3>1. hits' = hits + 0 /\ 0 \in {0, 1} /\ ~Leads
      BY <1>3, <2>1, <2>4, <2>6
    <3> QED BY <1>4, <2>1, <2>2, <2>3, <3>1
  <2> QED BY <2>5, <2>6
<1>9. ASSUME NEW a, Closes(a)
      PROVE  LevelParts'
  <2>1. cmd # None /\ cmd.name \in LevelNames
    BY <1>2, <1>9 DEF Closes
  <2> QED BY <1>1, <1>9, <2>1, LevelClosed
<1>10. CASE Switched
  <2>1. hits' = hits + 1 /\ 1 \in {0, 1}
    BY <1>10 DEF Switched
  <2>2. /\ UNCHANGED <<wireless, row, cmd, before, todo, kk>> /\ lamp'.dtr = lamp.dtr
        /\ seen \subseteq seen' /\ (spoiled => spoiled') /\ try' = try
    BY <1>10 DEF Switched
  <2> QED BY <1>4, <2>1, <2>2
<1>11. CASE Reply
  BY <1>2, <1>11 DEF Reply
<1> QED BY <1>5, <1>6, <1>7, <1>8, <1>9, <1>10, <1>11, Steps

-----------------------------------------------------------------------------
(* The theorems *)

\* At the end of a command that asks once or twice, or not at all.
LEMMA AnswersAtEnd ==
    ASSUME TypeOK, AnswerInv, cmd # None, todo = <<>>, cmd.name \notin LevelNames \cup Searches
    PROVE  /\ cmd.name \in SceneNames => \E a \in Answers(lamp.scene) : kk = <<a>>
           /\ cmd.name = "get_detail" => \E a \in Answers(lamp.fade) : kk = <<a>>
           /\ cmd.name \in GroupNames =>
                 \E a \in Answers(Half(0)), b \in Answers(Half(1)) : kk = <<a, b>>
           /\ cmd.name = "get_rapor" =>
                 \E a \in AnswerOf : kk = <<a>> /\ (hits = 0 /\ a # Timeout => a.data \in seen)
           /\ cmd.name \notin SceneNames \cup GroupNames \cup {"get_detail", "get_rapor"} =>
                 kk = <<>>
<1>1. AnswerParts
  BY AnswerInvParts
<1>2. cmd.name \in SceneNames => kk \in {<<a>> : a \in Answers(lamp.scene)}
  BY <1>1 DEF AnswerParts
<1>3. cmd.name = "get_detail" => kk \in {<<a>> : a \in Answers(lamp.fade)}
  BY <1>1 DEF AnswerParts
<1>4. cmd.name \in GroupNames =>
         kk \in {<<a, b>> : a \in Answers(Half(0)), b \in Answers(Half(1))}
  BY <1>1 DEF AnswerParts
<1>5. cmd.name = "get_rapor" =>
         \E a \in AnswerOf : kk = <<a>> /\ (hits = 0 /\ a # Timeout => a.data \in seen)
  <2>1. cmd.name = "get_rapor" =>
           IF todo = <<>> THEN \E a \in AnswerOf : /\ kk = <<a>>
                                                   /\ hits = 0 /\ a # Timeout => a.data \in seen
           ELSE kk = <<>>
    BY <1>1 DEF AnswerParts
  <2> QED BY <2>1
<1>6. cmd.name \notin SceneNames \cup GroupNames \cup {"get_detail", "get_rapor"} => kk = <<>>
  BY <1>1 DEF AnswerParts
<1> QED BY <1>2, <1>3, <1>4, <1>5, <1>6

LEMMA LevelAtEnd ==
    ASSUME LevelInv, TypeOK, cmd # None, todo = <<>>, cmd.name \in LevelNames, kk # <<>>
    PROVE  /\ kk = <<kk[1]>>
           /\ kk[1] = Timeout => ~Leads \/ Excuse \/ hits >= 4
           /\ kk[1] # Timeout => kk[1].backword = "BACK_DATA" /\ (kk[1].data \in seen \/ Paid >= 2)
<1>1. CASE ~Leads
  <2>1. kk = <<Timeout>>
    BY <1>1 DEF LevelInv
  <2> QED BY <1>1, <2>1
<1>2. CASE Leads
  <2>1. /\ Len(kk) <= 1 /\ kk \in Seq(AnswerOf)
        /\ IF kk = <<Timeout>> THEN Excuse \/ hits >= 4
           ELSE kk[1].backword = "BACK_DATA" /\ (kk[1].data \in seen \/ Paid >= 2)
    BY <1>2 DEF LevelInv, TypeOK
  <2>2. kk = <<kk[1]>>
    <3>1. Len(kk) = 1
      <4>1. PICK n \in Nat : Len(kk) = n
        BY <2>1
      <4>2. n # 0 /\ n <= 1
        BY <2>1, <4>1
      <4> QED BY <4>1, <4>2
    <3> QED BY <2>1, <3>1
  <2> HIDE DEF Excuse, Paid
  <2>3. kk[1] = Timeout <=> kk = <<Timeout>>
    BY <2>2
  <2> QED BY <1>2, <2>1, <2>2, <2>3
<1> QED BY <1>1, <1>2

LEMMA RepliesFollow ==
    ASSUME TypeOK, RowInv, AnswerInv, LevelInv
    PROVE  RepliesAreTrue
<1> SUFFICES ASSUME cmd # None, todo = <<>>, ~Failed, kk # <<>>
             PROVE  RepliesAreTrue
  BY DEF RepliesAreTrue, Done
<1>1. kk \in Seq(AnswerOf) /\ 1 \in DOMAIN kk /\ Len(kk) >= 1
  BY DEF TypeOK
<1>2. \A i \in DOMAIN kk : kk[i] # Timeout
  BY DEF Failed, Timeout
<1>3. \A v : \A a \in Answers(v) : a = Back(v) \/ a = Timeout
  BY DEF Answers
<1>4. \A v : Back(v).data = v
  BY DEF Back
<1>5. CASE cmd.name \in SceneNames
  <2>1. cmd.name \notin LevelNames \cup Searches
    BY <1>5 DEF SceneNames, LevelNames, Searches
  <2>2. PICK a \in Answers(lamp.scene) : kk = <<a>>
    BY <1>5, <2>1, AnswersAtEnd
  <2>3. kk[1].data = lamp.scene
    BY <1>1, <1>2, <1>3, <1>4, <2>2
  <2>4. cmd.name \in {"set_scene", "clear_scene", "get_scene"}
    BY <1>5 DEF SceneNames
  <2>5. cmd.name \notin {"get_rapor", "get_detail"}
    BY <2>4
  <2> QED BY <2>1, <2>3, <2>4, <2>5, Zenon DEF RepliesAreTrue, Searches
<1>6. CASE cmd.name = "get_detail"
  <2>1. cmd.name \notin LevelNames \cup Searches
    BY <1>6 DEF LevelNames, Searches
  <2>2. PICK a \in Answers(lamp.fade) : kk = <<a>>
    BY <1>6, <2>1, AnswersAtEnd
  <2>3. kk[1].data = lamp.fade
    BY <1>1, <1>2, <1>3, <1>4, <2>2
  <2> QED BY <1>6, <2>1, <2>3, SMT DEF RepliesAreTrue
<1>7. CASE cmd.name \in GroupNames
  <2>1. /\ cmd.name \notin LevelNames \cup Searches
        /\ cmd.name \notin {"set_scene", "clear_scene", "get_scene", "get_rapor", "get_detail"}
    BY <1>7 DEF GroupNames, LevelNames, Searches
  <2>2. PICK a \in Answers(Half(0)), b \in Answers(Half(1)) : kk = <<a, b>>
    BY <1>7, <2>1, AnswersAtEnd
  <2>3. a = Back(Half(0)) /\ b = Back(Half(1))
    <3>1. DOMAIN kk = {1, 2} /\ kk[1] = a /\ kk[2] = b
      BY <2>2
    <3> QED BY <1>2, <1>3, <3>1
  <2>4. kk = <<Back(IF 0 \in lamp.groups THEN 1 ELSE 0), Back(IF 1 \in lamp.groups THEN 1 ELSE 0)>>
    BY <2>2, <2>3 DEF Half
  <2> QED BY <2>1, <2>4, Zenon DEF RepliesAreTrue, Searches
<1>8. CASE cmd.name = "get_rapor"
  <2>1. cmd.name \notin LevelNames \cup Searches
    BY <1>8 DEF LevelNames, Searches
  <2>2. PICK a \in AnswerOf : kk = <<a>> /\ (hits = 0 /\ a # Timeout => a.data \in seen)
    BY <1>8, <2>1, AnswersAtEnd
  <2>3. hits = 0 => kk[1].data \in seen
    BY <1>1, <1>2, <2>2
  <2> QED BY <1>8, <2>1, <2>3, SMT DEF RepliesAreTrue
<1>9. CASE cmd.name \in Searches
  <2>1. kk[1] \in {Timeout, Back(type)}
    BY <1>9 DEF RowInv
  <2>2. kk[1].data = type
    BY <1>1, <1>2, <1>4, <2>1
  <2> QED BY <1>9, <2>2, SMT DEF RepliesAreTrue, Searches, LevelNames
<1>10. CASE cmd.name \in LevelNames
  <2>1. kk[1].data \in seen \/ Paid >= 2
    BY <1>1, <1>2, <1>10, LevelAtEnd
  <2>2. hits + (IF Ambiguous(seen) THEN 1 ELSE 0) = Paid /\ Paid \in Nat
    BY DEF Paid, TypeOK
  <2>3. hits + (IF Ambiguous(seen) THEN 1 ELSE 0) <= 1 => kk[1].data \in seen
    BY <2>1, <2>2
  <2>4. cmd.name \notin {"set_scene", "clear_scene", "get_scene", "get_rapor", "get_detail",
                         "search", "search_unsaved"}
    BY <1>10 DEF LevelNames
  <2> QED BY <1>10, <2>3, <2>4, Zenon DEF RepliesAreTrue
<1>11. CASE cmd.name \notin SceneNames \cup GroupNames \cup {"get_detail", "get_rapor"}
                            \cup LevelNames \cup Searches
  BY <1>11, AnswersAtEnd
<1> QED BY <1>5, <1>6, <1>7, <1>8, <1>9, <1>10, <1>11

LEMMA ErrorsFollow ==
    ASSUME TypeOK, AnswerInv, LevelInv
    PROVE  ErrorsHaveCause
<1> DEFINE Amb == Ambiguous({lamp.scene, lamp.dtr, lamp.fade} \cup seen)
           n == IF cmd.name \in LevelNames THEN 4 ELSE IF wireless THEN 3 ELSE 1
<1> SUFFICES ASSUME cmd # None, todo = <<>>, Failed, cmd.name \notin Searches, cmd.name # "get_rapor"
             PROVE  ~Leads \/ spoiled \/ Amb \/ hits >= n
  BY DEF ErrorsHaveCause, Done, Searches
<1>1. PICK i \in DOMAIN kk : kk[i].backword = "BACK_TIMEOUT"
  BY DEF Failed
<1>2. \A v : \A a \in Answers(v) : a.backword = "BACK_TIMEOUT" => Excused({v}, Tries)
  BY DEF Answers, Back
<1>3. Ambiguous(seen) => Amb
  BY DEF Ambiguous
<1> HIDE DEF Amb
<1>4. CASE cmd.name \in LevelNames
  <2>1. kk # <<>> /\ kk = <<kk[1]>>
    BY <1>1, <1>4, LevelAtEnd
  <2>2. i = 1
    BY <1>1, <2>1
  <2>3. ~Leads \/ Excuse \/ hits >= 4
    BY <1>1, <1>4, <2>1, <2>2, LevelAtEnd
  <2> QED BY <1>3, <1>4, <2>3 DEF Excuse
<1>5. ASSUME cmd.name \notin LevelNames, NEW v, Excused({v}, Tries),
             v \in {lamp.scene, lamp.dtr, lamp.fade} \/ v \in {0, 1}
      PROVE  ~Leads \/ spoiled \/ Amb \/ hits >= n
  <2>1. Ambiguous({v} \cup seen) => Amb
    BY <1>5 DEF Ambiguous, BACK_TIMEOUT, Amb
  <2> QED BY <1>5, <2>1 DEF Excused, Tries
<1>6. CASE cmd.name \notin LevelNames
  <2>1. CASE cmd.name \in SceneNames
    <3>1. PICK a \in Answers(lamp.scene) : kk = <<a>>
      BY <1>6, <2>1, AnswersAtEnd
    <3>2. Excused({lamp.scene}, Tries)
      <4>1. DOMAIN kk = {1} /\ kk[1] = a
        BY <3>1
      <4> QED BY <1>1, <1>2, <4>1
    <3> QED BY <1>5, <1>6, <3>2
  <2>2. CASE cmd.name = "get_detail"
    <3>1. PICK a \in Answers(lamp.fade) : kk = <<a>>
      BY <1>6, <2>2, AnswersAtEnd
    <3>2. Excused({lamp.fade}, Tries)
      <4>1. DOMAIN kk = {1} /\ kk[1] = a
        BY <3>1
      <4> QED BY <1>1, <1>2, <4>1
    <3> QED BY <1>5, <1>6, <3>2
  <2>3. CASE cmd.name \in GroupNames
    <3>1. PICK a \in Answers(Half(0)), b \in Answers(Half(1)) : kk = <<a, b>>
      BY <1>6, <2>3, AnswersAtEnd
    <3>2. Excused({Half(0)}, Tries) \/ Excused({Half(1)}, Tries)
      <4>1. DOMAIN kk = {1, 2} /\ kk[1] = a /\ kk[2] = b
        BY <3>1
      <4> QED BY <1>1, <1>2, <4>1
    <3>3. Half(0) \in {0, 1} /\ Half(1) \in {0, 1}
      BY DEF Half
    <3> QED BY <1>5, <1>6, <3>2, <3>3
  <2>4. CASE cmd.name \notin SceneNames \cup GroupNames \cup {"get_detail", "get_rapor"}
    <3>1. kk = <<>>
      BY <1>6, <2>4, AnswersAtEnd
    <3> QED BY <1>1, <3>1
  <2> QED BY <2>1, <2>2, <2>3, <2>4
<1> QED BY <1>4, <1>6

LEMMA InitInv ==
    ASSUME Init
    PROVE  DeviceInv
<1>1. cmd = None /\ todo = <<>> /\ kk = <<>> /\ mm = None /\ once = None
  BY DEF Init
<1>2. lamp \in LampOf
  <2>1. lamp \in [level : 0 .. 254, dtr : {0}, scene : {0, MASK}, groups : {{}, {1}}, fade : {0}]
    BY ValAssumption DEF Init
  <2>2. /\ lamp = [level |-> lamp.level, dtr |-> lamp.dtr, scene |-> lamp.scene,
                   groups |-> lamp.groups, fade |-> lamp.fade]
        /\ lamp.level \in 0 .. 254 /\ lamp.dtr = 0 /\ lamp.scene \in {0, 255}
        /\ lamp.groups \in {{}, {1}} /\ lamp.fade = 0
    BY <2>1 DEF MASK
  <2>3. lamp.groups \in SUBSET (0 .. 254) /\ lamp.scene \in 0 .. 255 /\ 0 \in 0 .. 254
    BY <2>2
  <2> QED BY <2>2, <2>3 DEF LampOf
<1>3. row \in Device \cup {None} /\ type \in IF wireless THEN {WIFI_LAMP} ELSE {LAMP, SEVERAL}
  BY DEF Init, Row, Device, NEXT_TYPE, LAMP, SEVERAL, WIFI_LAMP
<1>4. seen \subseteq 0 .. 254
  BY <1>2 DEF Init, LampOf
<1>5. TypeOK
  <2>1. try \in [udp : 1 .. 3, level : 1 .. 2]
    BY DEF Init
  <2>2. todo \in Seq(FrameOf) /\ kk \in Seq(AnswerOf)
    BY <1>1
  <2>3. /\ wireless \in BOOLEAN /\ spoiled \in BOOLEAN /\ hits \in Nat
        /\ before = lamp /\ rowBefore = row
    BY DEF Init
  <2> QED BY <1>1, <1>2, <1>3, <1>4, <2>1, <2>2, <2>3 DEF TypeOK
<1>6. SeenInv /\ BufferInv /\ ProgramInv /\ StoreInv /\ RowInv /\ AnswerInv /\ LevelInv
  BY <1>1 DEF SeenInv, BufferInv, ProgramInv, StoreInv, RowInv, AnswerInv, LevelInv
<1> QED BY <1>5, <1>6 DEF DeviceInv

LEMMA NextInv ==
    ASSUME DeviceInv, [Next]_vars
    PROVE  DeviceInv'
BY TypeStep, SeenStep, BufferStep, ProgramStep, StoreStep, RowStep, AnswerStep, LevelStep
   DEF DeviceInv

\* The invariant of the commands, whatever is lost or put in between: what remains of
\* the command, what the lamp, its row and the answers so far then say
\* (dali_tool.cpp:405-1019, udpserver.cpp:98-248).
THEOREM DeviceInvHolds == Spec => []DeviceInv
<1>1. Init => DeviceInv
  BY InitInv
<1>2. DeviceInv /\ [Next]_vars => DeviceInv'
  BY NextInv
<1> QED BY <1>1, <1>2, PTL DEF Spec

\* A command that nothing disturbs stores in the lamp and in GEAR_FILE what it says, and
\* one that one frame disturbs stores that or nothing (dali_tool.cpp:415-546, 741-803).
THEOREM CommandStoresOrKeeps == Spec => []StoresOrKeeps
<1>1. DeviceInv => StoresOrKeeps
  BY StoresFollow DEF DeviceInv
<1> QED BY <1>1, DeviceInvHolds, PTL

\* A reply without an error says what the lamp has stored and the level it had
\* (dali_tool.cpp:554-578, 865-887, 965-987, tcp_events.cpp:428-642).
THEOREM ReplyIsTrue == Spec => []RepliesAreTrue
<1>1. DeviceInv => RepliesAreTrue
  BY RepliesFollow DEF DeviceInv
<1> QED BY <1>1, DeviceInvHolds, PTL

\* An error in a reply has a cause: losses, the value 0x71 of a wireless lamp, a row
\* that leads the wrong way or a question that was overwritten
\* (udpserver.cpp:221-248, dali_tool.cpp:877-883, 965-970).
THEOREM ErrorHasCause == Spec => []ErrorsHaveCause
<1>1. DeviceInv => ErrorsHaveCause
  BY ErrorsFollow DEF DeviceInv
<1> QED BY <1>1, DeviceInvHolds, PTL
=============================================================================
