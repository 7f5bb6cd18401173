------------------------------ MODULE DaliCall ------------------------------
(***************************************************************************)
(* What the DALI driver promises to the tasks that make calls, without     *)
(* queues, interrupts and measurements.  A command is transmitted and that *)
(* is all.  A question is transmitted, and then it is answered or asked    *)
(* again, three times at most; it is given up after its last try and not   *)
(* before, and it comes back with one outcome.  While the driver can be    *)
(* trusted, an answer is the answer to this question.                      *)
(***************************************************************************)
EXTENDS Naturals

CONSTANT Caller

VARIABLES
    place,   \* of each task: where its call is
    kind,    \* a command, a question, or a question that is repeated
    tries,   \* frames that the call has asked for
    outcome, \* what it returns
    trusted  \* nothing has happened that lets an answer go astray

Tries(k) == IF k = "ask" THEN 3 ELSE 1

Init ==
    /\ place = [c \in Caller |-> "idle"]
    /\ kind = [c \in Caller |-> "send"]
    /\ tries = [c \in Caller |-> 0]
    /\ outcome = [c \in Caller |-> "open"]
    /\ trusted \in BOOLEAN

Move(c, from, to) == place[c] = from /\ place' = [place EXCEPT ![c] = to]

Call(c, k) ==
    /\ Move(c, "idle", "asking")
    /\ kind' = [kind EXCEPT ![c] = k]
    /\ tries' = [tries EXCEPT ![c] = 1]
    /\ outcome' = [outcome EXCEPT ![c] = "open"]

Transmit(c) ==
    /\ Move(c, "asking", "asked")
    /\ UNCHANGED <<kind, tries, outcome>>

Sent(c) ==
    /\ Move(c, "asked", "idle")
    /\ kind[c] = "send"
    /\ UNCHANGED <<kind, tries, outcome>>

\* A stray answer is the answer to another question, or none that a lamp gave.
Answered(c) ==
    /\ Move(c, "asked", "done")
    /\ kind[c] # "send"
    /\ \E o \in IF trusted THEN {"own"} ELSE {"own", "stray"} :
          outcome' = [outcome EXCEPT ![c] = o]
    /\ UNCHANGED <<kind, tries>>

AskAgain(c) ==
    /\ Move(c, "asked", "asking")
    /\ tries[c] < Tries(kind[c])
    /\ tries' = [tries EXCEPT ![c] = @ + 1]
    /\ UNCHANGED <<kind, outcome>>

GiveUp(c) ==
    /\ Move(c, "asked", "done")
    /\ kind[c] # "send"
    /\ tries[c] = Tries(kind[c])
    /\ outcome' = [outcome EXCEPT ![c] = "none"]
    /\ UNCHANGED <<kind, tries>>

Return(c) ==
    /\ Move(c, "done", "idle")
    /\ outcome[c] # "open"
    /\ UNCHANGED <<kind, tries, outcome>>

Step(c) ==
    \/ \E k \in {"send", "query", "ask"} : Call(c, k)
    \/ Transmit(c)
    \/ Sent(c)
    \/ Answered(c)
    \/ AskAgain(c)
    \/ GiveUp(c)
    \/ Return(c)

\* Once lost, trust does not come back.
Next ==
    /\ trusted' => trusted
    /\ (\E c \in Caller : Step(c)) \/ UNCHANGED <<place, kind, tries, outcome>>

Spec == Init /\ [][Next]_<<place, kind, tries, outcome, trusted>>
=============================================================================
