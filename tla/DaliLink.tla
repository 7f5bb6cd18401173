------------------------------ MODULE DaliLink ------------------------------
(***************************************************************************)
(* The calling half of the DALI driver (comp/dali.cpp): tasks that send a  *)
(* command (send) or ask a question (ysend_receive, and send_receive,      *)
(* which asks up to three times), paket_task, which hands them the answer, *)
(* and adc_task, which watches the supply of the line.                     *)
(*                                                                         *)
(* All of them switch the receive interrupt on and off, and the answer     *)
(* goes through one variable, gelen, and one binary semaphore, back_sem.   *)
(* What a packet is taken for is the subject of DaliReceiver: here an      *)
(* answer is the number of the call it belongs to, and Junk is what        *)
(* becomes of a frame of our own of which the receiver saw the rest.       *)
(*                                                                         *)
(* LinkInit, LinkNext, LinkSpec and linkVars are named so that DaliProofs  *)
(* can extend this module together with DeviceCommands.                    *)
(***************************************************************************)
EXTENDS Integers, Sequences, FiniteSets

CONSTANTS
    Caller,    \* tasks that use the line: event loop, launchers, buttons
    Op,        \* the operations they use: "send", "query", "ask"
    MaxCalls,  \* bound on the calls
    MaxDrops,  \* bound on the changes of the supply
    Junk, TimedOut, Nothing

ASSUME OpAssumption == Op \subseteq {"send", "query", "ask"}
ASSUME BoundAssumption == MaxCalls \in Nat /\ MaxDrops \in Nat
ASSUME NamesAssumption ==
    /\ Junk \notin Nat /\ TimedOut \notin Nat /\ Nothing \notin Nat
    /\ Junk # TimedOut /\ Junk # Nothing /\ TimedOut # Nothing

VARIABLES
    pc, op, tries, \* of each caller
    call,          \* the number of its call
    intact,        \* no other frame was on the line together with its frame
    answer,        \* what the call returns
    calls,         \* calls so far
    rx,            \* the receive interrupt is enabled
    air,           \* an answer on its way, Nothing or the number of its call
    paket_queue,
    paket,         \* where paket_task is
    gelen,
    back_sem,
    Olcum_Ready,
    hat_error,
    adc,           \* where adc_task is
    supply,        \* the line has its voltage
    drops,         \* changes of the supply so far
    late,          \* paket_task took longer than the 25 ms of a caller
    mixed        \* a call other than send_receive was made

\* Operators whose comment starts with "Faulty" are variants with one bug; the
\* specification does not use them.  They show that a property can fail.

callers == <<pc, op, tries, call, intact, answer, calls>>
receiver == <<paket_queue, paket, gelen>>
watch == <<adc, hat_error>>
bus == <<supply, drops>>
history == <<late, mixed>>
linkVars == <<callers, rx, air, receiver, back_sem, Olcum_Ready, watch, bus, history>>

LinkInit ==
    /\ pc = [c \in Caller |-> "idle"]
    /\ op = [c \in Caller |-> "send"]
    /\ tries = [c \in Caller |-> 0]
    /\ call = [c \in Caller |-> 0]
    /\ intact = [c \in Caller |-> TRUE]
    /\ answer = [c \in Caller |-> Nothing]
    /\ calls = 0
    /\ rx = TRUE
    /\ air = Nothing
    /\ paket_queue = <<>>
    /\ paket = "receive"
    /\ gelen = Nothing
    /\ back_sem = FALSE
    /\ Olcum_Ready = TRUE
    /\ hat_error = FALSE
    /\ adc = "rest"
    /\ supply = TRUE
    /\ drops = 0
    /\ late = FALSE /\ mixed = FALSE

Sending == {c \in Caller : pc[c] = "tx"}
-----------------------------------------------------------------------------
(* send, ysend_receive and send_receive *)

\* Faulty: the supply is measured during the call.
CallMeasured(c, o) ==
    /\ pc[c] = "idle"
    /\ calls < MaxCalls
    /\ calls' = calls + 1
    /\ call' = [call EXCEPT ![c] = calls + 1]
    /\ op' = [op EXCEPT ![c] = o]
    /\ tries' = [tries EXCEPT ![c] = 1]
    /\ answer' = [answer EXCEPT ![c] = Nothing]
    /\ pc' = [pc EXCEPT ![c] = IF o = "send" THEN "off" ELSE "wait"]
    /\ mixed' = (mixed \/ o # "ask")
    /\ UNCHANGED <<Olcum_Ready, intact, rx, air, receiver, back_sem, watch, bus, late>>

\* ysend_receive does not touch Olcum_Ready.
Call(c, o) ==
    /\ pc[c] = "idle"
    /\ calls < MaxCalls
    /\ calls' = calls + 1
    /\ call' = [call EXCEPT ![c] = calls + 1]
    /\ op' = [op EXCEPT ![c] = o]
    /\ tries' = [tries EXCEPT ![c] = 1]
    /\ answer' = [answer EXCEPT ![c] = Nothing]
    /\ pc' = [pc EXCEPT ![c] = IF o = "send" THEN "off" ELSE "wait"]
    /\ Olcum_Ready' = (Olcum_Ready /\ o = "query")
    /\ mixed' = (mixed \/ o # "ask")
    /\ UNCHANGED <<intact, rx, air, receiver, back_sem, watch, bus, late>>

\* The 65 ms before a question, much longer than a measurement takes.
Waited(c) ==
    /\ pc[c] = "wait"
    /\ adc # "measure"
    /\ pc' = [pc EXCEPT ![c] = "off"]
    /\ UNCHANGED <<op, tries, call, intact, answer, calls, rx, air, receiver, back_sem,
                   Olcum_Ready, watch, bus, history>>

\* Faulty: listens to itself.
BeginListening(c) ==
    /\ pc[c] = "off"
    /\ pc' = [pc EXCEPT ![c] = "tx"]
    /\ intact' = [d \in Caller |-> IF d = c THEN Sending = {}
                                   ELSE intact[d] /\ pc[d] # "tx"]
    /\ UNCHANGED <<op, tries, call, answer, calls, rx, air, receiver, back_sem, Olcum_Ready,
                   watch, bus, history>>

\* gpio_intr_disable(_rx), then the frame begins.
Begin(c) ==
    /\ pc[c] = "off"
    /\ rx' = FALSE
    /\ pc' = [pc EXCEPT ![c] = "tx"]
    /\ intact' = [d \in Caller |-> IF d = c THEN Sending = {}
                                   ELSE intact[d] /\ pc[d] # "tx"]
    /\ UNCHANGED <<op, tries, call, answer, calls, air, receiver, back_sem, Olcum_Ready,
                   watch, bus, history>>

\* The frame ends.  A receiver that has been switched on meanwhile saw the rest
\* of it; an addressed lamp, if there is one, answers an intact question.
End(c) ==
    /\ pc[c] = "tx"
    /\ pc' = [pc EXCEPT ![c] = "on"]
    /\ paket_queue' = IF rx THEN Append(paket_queue, Junk) ELSE paket_queue
    /\ \/ air' = call[c] /\ op[c] # "send" /\ intact[c] /\ supply
       \/ UNCHANGED air
    /\ UNCHANGED <<op, tries, call, intact, answer, calls, rx, paket, gelen, back_sem,
                   Olcum_Ready, watch, bus, history>>

\* gpio_intr_enable(_rx): send is done, a question waits for its answer.
Enable(c) ==
    /\ pc[c] = "on"
    /\ rx' = TRUE
    /\ pc' = [pc EXCEPT ![c] = IF op[c] = "send" THEN "idle" ELSE "listen"]
    /\ Olcum_Ready' = (Olcum_Ready \/ op[c] = "send")
    /\ UNCHANGED <<op, tries, call, intact, answer, calls, air, receiver, back_sem, watch,
                   bus, history>>

\* xSemaphoreTake(back_sem, 25 ms) succeeds,
Take(c) ==
    /\ pc[c] = "listen"
    /\ back_sem
    /\ back_sem' = FALSE
    /\ pc' = [pc EXCEPT ![c] = "read"]
    /\ UNCHANGED <<op, tries, call, intact, answer, calls, rx, air, receiver, Olcum_Ready,
                   watch, bus, history>>

\* and the caller reads gelen.
Read(c) ==
    /\ pc[c] = "read"
    /\ answer' = [answer EXCEPT ![c] = gelen]
    /\ pc' = [pc EXCEPT ![c] = "return"]
    /\ UNCHANGED <<op, tries, call, intact, calls, rx, air, receiver, back_sem, Olcum_Ready,
                   watch, bus, history>>

\* Faulty: the last try has no timeout.
LastTryHangs(c) ==
    /\ pc[c] = "listen"
    /\ ~back_sem
    /\ air = Nothing
    /\ op[c] = "ask" /\ tries[c] < 3
    /\ late' = (late \/ paket_queue # <<>> \/ paket # "receive")
    /\ tries' = [tries EXCEPT ![c] = @ + 1]
    /\ pc' = [pc EXCEPT ![c] = "wait"]
    /\ UNCHANGED <<op, call, intact, answer, calls, rx, air, receiver, back_sem, Olcum_Ready,
                   watch, bus, mixed>>

\* Or it times out; send_receive then asks again, three times in all.  A lamp
\* answers in time, so only a slow paket_task makes an answer late.
TimesOut(c) ==
    /\ pc[c] = "listen"
    /\ ~back_sem
    /\ air = Nothing
    /\ late' = (late \/ paket_queue # <<>> \/ paket # "receive")
    /\ IF op[c] = "ask" /\ tries[c] < 3
       THEN /\ tries' = [tries EXCEPT ![c] = @ + 1]
            /\ pc' = [pc EXCEPT ![c] = "wait"]
            /\ UNCHANGED answer
       ELSE /\ answer' = [answer EXCEPT ![c] = TimedOut]
            /\ pc' = [pc EXCEPT ![c] = "return"]
            /\ UNCHANGED tries
    /\ UNCHANGED <<op, call, intact, calls, rx, air, receiver, back_sem, Olcum_Ready,
                   watch, bus, mixed>>

Return(c) ==
    /\ pc[c] = "return"
    /\ pc' = [pc EXCEPT ![c] = "idle"]
    /\ Olcum_Ready' = (Olcum_Ready \/ op[c] = "ask")
    /\ UNCHANGED <<op, tries, call, intact, answer, calls, rx, air, receiver, back_sem,
                   watch, bus, history>>

Task(c) ==
    \/ Waited(c)
    \/ Begin(c)
    \/ End(c)
    \/ Enable(c)
    \/ Take(c)
    \/ Read(c)
    \/ TimesOut(c)
    \/ Return(c)
-----------------------------------------------------------------------------
(* The lamps and paket_task *)

\* An answer reaches the receiver if the interrupt is on and no frame of ours is
\* on the line.
Arrive ==
    /\ air # Nothing
    /\ air' = Nothing
    /\ paket_queue' = IF rx /\ Sending = {} THEN Append(paket_queue, air) ELSE paket_queue
    /\ UNCHANGED <<callers, rx, paket, gelen, back_sem, Olcum_Ready, watch, bus, history>>

\* A packet overwrites gelen; junk may be taken for an answer or not.
PaketWrite ==
    /\ paket = "receive"
    /\ paket_queue # <<>>
    /\ gelen' = Head(paket_queue)
    /\ paket_queue' = Tail(paket_queue)
    /\ \/ paket' = "give"
       \/ Head(paket_queue) = Junk /\ UNCHANGED paket
    /\ UNCHANGED <<callers, rx, air, back_sem, Olcum_Ready, watch, bus, history>>

PaketGive ==
    /\ paket = "give"
    /\ back_sem' = TRUE
    /\ paket' = "receive"
    /\ UNCHANGED <<callers, rx, air, paket_queue, gelen, Olcum_Ready, watch, bus, history>>
-----------------------------------------------------------------------------
(* adc_task *)

AdcCheck ==
    /\ adc = "rest"
    /\ Olcum_Ready
    /\ adc' = "measure"
    /\ UNCHANGED <<callers, rx, air, receiver, back_sem, Olcum_Ready, hat_error, bus, history>>

\* Faulty: switches the interrupt on never again.
AdcMeasureOnce ==
    /\ adc = "measure"
    /\ IF supply
       THEN adc' = "rest" /\ UNCHANGED <<hat_error, rx>>
       ELSE adc' = "again" /\ UNCHANGED <<hat_error, rx>>
    /\ UNCHANGED <<callers, air, receiver, back_sem, Olcum_Ready, bus, history>>

\* The first measurement: with voltage the interrupt is switched on.
AdcMeasure ==
    /\ adc = "measure"
    /\ IF supply
       THEN adc' = "rest" /\ hat_error' = FALSE /\ rx' = TRUE
       ELSE adc' = "again" /\ UNCHANGED <<hat_error, rx>>
    /\ UNCHANGED <<callers, air, receiver, back_sem, Olcum_Ready, bus, history>>

\* Faulty: gives up after the second measurement.
AdcAgainRests ==
    /\ adc \in {"again", "last"}
    /\ adc' = "rest"
    /\ UNCHANGED <<callers, rx, hat_error, air, receiver, back_sem, Olcum_Ready, bus, history>>

\* 100 ms later, and another 100 ms later if there is still no voltage.
AdcAgain ==
    /\ adc \in {"again", "last"}
    /\ IF supply
       THEN adc' = "rest" /\ UNCHANGED <<hat_error, rx>>
       ELSE IF adc = "again"
            THEN adc' = "last" /\ UNCHANGED <<hat_error, rx>>
            ELSE adc' = "rest" /\ hat_error' = TRUE /\ rx' = FALSE
    /\ UNCHANGED <<callers, air, receiver, back_sem, Olcum_Ready, bus, history>>

SupplyChanges ==
    /\ drops < MaxDrops
    /\ drops' = drops + 1
    /\ supply' = ~supply
    /\ UNCHANGED <<callers, rx, air, receiver, back_sem, Olcum_Ready, watch, history>>
-----------------------------------------------------------------------------
LinkNext ==
    \/ \E c \in Caller : Task(c) \/ \E o \in Op : Call(c, o)
    \/ Arrive
    \/ PaketWrite
    \/ PaketGive
    \/ AdcCheck
    \/ AdcMeasure
    \/ AdcAgain
    \/ SupplyChanges

LinkSpec == LinkInit /\ [][LinkNext]_linkVars

\* Every task runs on.  The wait of 65 ms ends although adc_task measures every
\* 500 ms: strong fairness stands for the clock.
Fairness ==
    /\ \A c \in Caller : WF_linkVars(Task(c)) /\ SF_linkVars(Waited(c))
    /\ WF_linkVars(Arrive)
    /\ WF_linkVars(PaketWrite \/ PaketGive)
    /\ WF_linkVars(AdcCheck \/ AdcMeasure \/ AdcAgain)

FairSpec == LinkSpec /\ Fairness
-----------------------------------------------------------------------------
(* Properties *)

Packets == 1 .. MaxCalls \cup {Junk}

\* Every task sees the driver as DaliCall, whatever the other tasks, the lamps and
\* the supply do: a call is transmitted before it is answered, a question is given
\* up after its last try and not before (dali.cpp:577-584), and it returns "the
\* result" (dali_tool.cpp:550-553): the answer to this question, or that there was
\* none, never what an earlier question left behind in gelen and back_sem or what
\* the receiver made of a frame of our own.  The last holds of one task that uses
\* send_receive only, as long as paket_task hands an answer over in 25 ms.
Alone == \A c, d \in Caller : c = d
Trusted == ~late /\ ~mixed /\ Alone

Place == [c \in Caller |->
    CASE pc[c] \in {"wait", "off", "tx"} -> "asking"
      [] pc[c] \in {"on", "listen", "read"} -> "asked"
      [] pc[c] = "return" -> "done"
      [] OTHER -> "idle"]

\* What the call of that number has got if it returns a.
Verdict(a, number) ==
    CASE a = Nothing -> "open"
      [] a = TimedOut -> "none"
      [] a = number -> "own"
      [] OTHER -> "stray"

Outcome == [c \in Caller |-> Verdict(answer[c], call[c])]

Promise == INSTANCE DaliCall WITH
    place <- Place, kind <- op, outcome <- Outcome, trusted <- Trusted

KeepsPromise == Promise!Spec

\* Under the same conditions, when nobody waits for an answer none is under way to
\* gelen: what is still in the queue, or a semaphore nobody took, would answer the
\* next question (dali.cpp:448 takes back_sem without emptying it first).
NothingLeftBehind ==
    (~late /\ ~mixed /\ \A c \in Caller : pc[c] = "idle") =>
        ~back_sem /\ paket_queue = <<>> /\ paket = "receive"

\* Every call comes back to its caller, however the supply fails (25 ms timeouts
\* of dali.cpp:448, three tries of dali.cpp:577-584).
CallReturns == \A c \in Caller : pc[c] # "idle" ~> pc[c] = "idle"

\* When the supply is back for good, the receiver is switched on for good and the
\* error is withdrawn, although adc_task and the callers switch the same
\* interrupt (dali.cpp:51-80, 238-253, 436, 445).
ReceiverComesBack == <>[]supply => <>[](rx /\ ~hat_error)

\* A supply that is gone for good is reported.
LossReported == <>[](~supply) => <>[]hat_error

\* What makes NothingLeftBehind and the answer of KeepsPromise inductive: while a task asks,
\* adc_task keeps off the line, the receiver is off while we send, and the
\* answer is in one place at most on its way from the lamp to the caller.
Quiet == air = Nothing /\ paket_queue = <<>> /\ paket = "receive" /\ ~back_sem

AnswerUnderWay(c) ==
    \/ Quiet
    \/ air = call[c] /\ paket_queue = <<>> /\ paket = "receive" /\ ~back_sem
    \/ air = Nothing /\ paket_queue = <<call[c]>> /\ paket = "receive" /\ ~back_sem
    \/ air = Nothing /\ paket_queue = <<>> /\ paket = "give" /\ gelen = call[c] /\ ~back_sem
    \/ air = Nothing /\ paket_queue = <<>> /\ paket = "receive" /\ gelen = call[c] /\ back_sem

AskInv(c) ==
    /\ pc[c] # "idle" => op[c] = "ask" /\ ~Olcum_Ready
    /\ pc[c] \notin {"idle", "wait"} => adc # "measure"
    /\ pc[c] \in {"tx", "on"} => ~rx
    /\ pc[c] \in {"idle", "wait", "off", "tx", "read", "return"} => Quiet
    /\ pc[c] \in {"on", "listen"} => AnswerUnderWay(c)
    /\ pc[c] = "on" => paket_queue = <<>> /\ paket = "receive" /\ ~back_sem
    /\ pc[c] = "read" => gelen = call[c]
    /\ pc[c] = "return" => answer[c] \in {call[c], TimedOut}

Places == {"idle", "wait", "off", "tx", "on", "listen", "read", "return"}

LinkInv ==
    /\ pc \in [Caller -> Places]
    /\ DOMAIN op = Caller /\ DOMAIN call = Caller /\ DOMAIN answer = Caller
    /\ late \in BOOLEAN /\ mixed \in BOOLEAN
    /\ ~late /\ ~mixed => \A c \in Caller : AskInv(c)

\* What KeepsPromise rests on as well, for any number of tasks: a question has a
\* try left or has used the last one, and whoever is woken finds a packet in gelen.
TriesInv(c) ==
    /\ pc[c] # "idle" => tries[c] \in 1 .. (IF op[c] = "ask" THEN 3 ELSE 1)
    /\ pc[c] \in {"wait", "listen", "read", "return"} => op[c] # "send"
    /\ pc[c] = "read" => gelen # Nothing
    /\ pc[c] = "return" => answer[c] # Nothing

HeardInv ==
    /\ air \in Nat \cup {Nothing}
    /\ paket_queue \in Seq(Nat \cup {Junk})
    /\ gelen \in Nat \cup {Junk, Nothing}
    /\ paket = "give" \/ back_sem => gelen # Nothing

PromiseInv ==
    /\ pc \in [Caller -> Places]
    /\ op \in [Caller -> {"send", "query", "ask"}]
    /\ tries \in [Caller -> 0 .. 3]
    /\ calls \in Nat /\ call \in [Caller -> Nat]
    /\ answer \in [Caller -> Nat \cup {Junk, TimedOut, Nothing}]
    /\ HeardInv
    /\ \A c \in Caller : TriesInv(c)
=============================================================================
