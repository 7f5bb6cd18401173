-------------------------------- MODULE Rs485 --------------------------------
(***************************************************************************)
(* Messages over the RS485 bus (comp/rs485.cpp), from the task that calls  *)
(* Sender to the event loop of the device that receives them.              *)
(*                                                                         *)
(* Sender queues the message and waits for a semaphore; _sender_task cuts  *)
(* it into packets and waits for an acknowledgement after each.  At the    *)
(* other end _event_task acknowledges every packet, puts it together with  *)
(* the others and hands the message to _callback_task, which posts an      *)
(* event with a pointer to the buffer.  A message here is its place among  *)
(* those the queue took, a packet its message and its place in it.         *)
(***************************************************************************)
EXTENDS Integers, Sequences

CONSTANTS
    PacketCount, \* the packets of the message of each call, in the order of the calls
    Longest,     \* the most packets a message has
    QueueLength, \* places of send_queue, 5 in the program
    EventPlaces, \* places in the queue of the event loop
    MaxLost,     \* bound on the packets and acknowledgements that are lost
    None

ASSUME PacketAssumption == Longest \in Nat \ {0} /\ PacketCount \in Seq(1 .. Longest)
ASSUME QueueAssumption == QueueLength \in Nat \ {0} /\ EventPlaces \in Nat \ {0}
ASSUME LostAssumption == MaxLost \in Nat

VARIABLES
    call,         \* the call of Sender, so many since the start
    caller,       \* where it is
    param,        \* the packets of the message it is about to queue
    send_paket_sem, \* None, or the state of the semaphore it points to
    send_queue,
    sent,         \* the packets of each message that was put into send_queue
    sender,       \* where _sender_task is
    data,         \* its message and the packet it is at
    ack_ok, ack_sem,
    bus,          \* packets the other device has not looked at
    acks,         \* acknowledgements on their way back
    receiver,     \* where _event_task is
    paket_buffer, \* the message each packet of the buffer came from, 0 where there is
                  \* none; <<>> as long as it is not allocated
    buffer,       \* how often it was allocated: what a pointer to it is
    callback_sem, wait_sem,
    callback,     \* where _callback_task is
    event_queue,  \* the events the event loop has not handled: buffer and length
    events,       \* the texts its handler has read
    lost,         \* how much was lost
    slow,         \* a wait ended although what it waited for was still coming
    late,         \* a buffer was freed before its event was handled
    expired,      \* a call gave up waiting
    dropped       \* a message found send_queue full

call_vars == <<call, caller, param>>
queue == <<send_queue, sent>>
task == <<sender, data>>
ack == <<ack_ok, ack_sem>>
hand_over == <<receiver, paket_buffer, buffer, callback_sem, wait_sem, callback>>
peer == <<hand_over, event_queue, events, late>>
given_up == <<expired, dropped>>
vars == <<call_vars, send_paket_sem, queue, task, ack, bus, acks, peer, lost, slow, given_up>>

Message == 1 .. Len(sent)

Init ==
    /\ call = 0 /\ caller = "idle" /\ param = 0
    /\ send_paket_sem = None /\ send_queue = <<>> /\ sent = <<>>
    /\ sender = "receive" /\ data = [msg |-> 0, part |-> 0]
    /\ ack_ok = FALSE /\ ack_sem = FALSE
    /\ bus = <<>> /\ acks = 0
    /\ receiver = "receive" /\ paket_buffer = <<>> /\ buffer = 0
    /\ callback_sem = FALSE /\ wait_sem = FALSE /\ callback = "take"
    /\ event_queue = <<>> /\ events = <<>>
    /\ lost = 0 /\ slow = FALSE /\ late = FALSE
    /\ expired = FALSE /\ dropped = FALSE
-----------------------------------------------------------------------------
(* Sender and _Sender *)

busy == caller # "idle"

\* Giving a semaphore that is NULL or deleted may end in a panic: the controller
\* restarts, and the model ends.
Running == sender # "panic"

\* Another task calls meanwhile: RET_BUSY.
Refuse ==
    /\ Running /\ busy /\ call < Len(PacketCount)
    /\ call' = call + 1
    /\ UNCHANGED <<caller, param, send_paket_sem, queue, task, ack, bus, acks, peer, lost, slow,
                   given_up>>

\* Test and set of busy in one step, and a new semaphore.
Sender ==
    /\ Running /\ ~busy /\ call < Len(PacketCount)
    /\ call' = call + 1 /\ caller' = "queue" /\ param' = PacketCount[call + 1]
    /\ send_paket_sem' = "empty"
    /\ UNCHANGED <<queue, task, ack, bus, acks, peer, lost, slow, given_up>>

\* xQueueSend does not wait for a place, and its result is not looked at.
Enqueue ==
    /\ Running /\ caller = "queue"
    /\ caller' = "wait" /\ param' = 0
    /\ IF Len(send_queue) < QueueLength
       THEN /\ send_queue' = Append(send_queue, Len(sent) + 1)
            /\ sent' = Append(sent, param)
            /\ UNCHANGED dropped
       ELSE dropped' = TRUE /\ UNCHANGED queue
    /\ UNCHANGED <<call, send_paket_sem, task, ack, bus, acks, peer, lost, slow, expired>>

\* The semaphore, or 2000 ms: two packets without an acknowledgement.
TakeSent ==
    /\ Running /\ caller = "wait"
    /\ caller' = "delete"
    /\ \/ send_paket_sem = "given" /\ send_paket_sem' = "empty" /\ UNCHANGED expired
       \/ send_paket_sem = "empty" /\ expired' = TRUE /\ UNCHANGED send_paket_sem
    /\ UNCHANGED <<call, param, queue, task, ack, bus, acks, peer, lost, slow, dropped>>

Delete ==
    /\ Running /\ caller = "delete"
    /\ caller' = "return" /\ send_paket_sem' = "deleted"
    /\ UNCHANGED <<call, param, queue, task, ack, bus, acks, peer, lost, slow, given_up>>

\* The pointer is reset, then busy.
Return ==
    /\ Running /\ caller = "return"
    /\ caller' = "idle" /\ send_paket_sem' = None
    /\ UNCHANGED <<call, param, queue, task, ack, bus, acks, peer, lost, slow, given_up>>
-----------------------------------------------------------------------------
(* _sender_task *)

\* The next message of the queue, from its first packet.
NextMessage ==
    /\ sender = "receive" /\ send_queue # <<>>
    /\ data' = [msg |-> Head(send_queue), part |-> 1]
    /\ send_queue' = Tail(send_queue)
    /\ sender' = "write"
    /\ UNCHANGED <<call_vars, send_paket_sem, sent, ack, bus, acks, peer, lost, slow, given_up>>

Write ==
    /\ sender = "write"
    /\ sender' = "clear"
    /\ \/ bus' = Append(bus, data) /\ UNCHANGED lost
       \/ lost < MaxLost /\ lost' = lost + 1 /\ UNCHANGED bus
    /\ UNCHANGED <<call_vars, send_paket_sem, queue, data, ack, acks, peer, slow, given_up>>

\* ack_ok is reset only now; an acknowledgement may be there already.
ClearAck ==
    /\ sender = "clear"
    /\ ack_ok' = FALSE
    /\ sender' = "ack"
    /\ UNCHANGED <<call_vars, send_paket_sem, queue, data, ack_sem, bus, acks, peer, lost, slow,
                   given_up>>

\* Faulty: waits for the acknowledgement without an end.
TakeAckForEver ==
    /\ sender = "ack" /\ ack_sem
    /\ sender' = "next"
    /\ ack_sem' = FALSE
    /\ UNCHANGED <<call_vars, send_paket_sem, queue, data, ack_ok, bus, acks, peer, lost, slow,
                   given_up>>

\* The semaphore, or 1000 ms; with ack_ok or without, the loop of tries ends.
TakeAck ==
    /\ sender = "ack"
    /\ sender' = "next"
    /\ \/ ack_sem /\ ack_sem' = FALSE /\ UNCHANGED slow
       \/ /\ ~ack_sem
          /\ slow' = (slow \/ bus # <<>> \/ acks > 0)
          /\ UNCHANGED ack_sem
    /\ UNCHANGED <<call_vars, send_paket_sem, queue, data, ack_ok, bus, acks, peer, lost, given_up>>

\* The next packet, or the end of the message: is anybody waiting?
NextPacket ==
    /\ sender = "next"
    /\ IF data.part < sent[data.msg]
       THEN data' = [data EXCEPT !.part = @ + 1] /\ sender' = "write"
       ELSE /\ sender' = IF send_paket_sem = None THEN "receive" ELSE "give"
            /\ UNCHANGED data
    /\ UNCHANGED <<call_vars, send_paket_sem, queue, ack, bus, acks, peer, lost, slow, given_up>>

\* Whoever waits by now is told.  The call may have deleted the semaphore since, or
\* reset the pointer, which xSemaphoreGive asserts not to be NULL.
Give ==
    /\ sender = "give"
    /\ \/ /\ send_paket_sem \in {"empty", "given"}
          /\ send_paket_sem' = "given" /\ sender' = "receive"
       \/ /\ send_paket_sem = "deleted"
          /\ sender' \in {"receive", "panic"} /\ UNCHANGED send_paket_sem
       \/ /\ send_paket_sem = None
          /\ sender' = "panic" /\ UNCHANGED send_paket_sem
    /\ UNCHANGED <<call_vars, queue, data, ack, bus, acks, peer, lost, slow, given_up>>

\* _event_task of this device: an acknowledgement.
AckArrives ==
    /\ Running /\ acks > 0
    /\ acks' = acks - 1
    /\ ack_ok' = TRUE /\ ack_sem' = TRUE
    /\ UNCHANGED <<call_vars, send_paket_sem, queue, task, bus, peer, lost, slow, given_up>>
-----------------------------------------------------------------------------
(* The other device *)

Blank == [i \in 1 .. Longest |-> 0]

\* Faulty: every packet starts a buffer.
DecodedAlone(p) == [Blank EXCEPT ![p.part] = p.msg]

\* paket_decode: the first packet starts a buffer, the others go into the one there.
Decoded(p) ==
    IF p.part = 1 THEN [Blank EXCEPT ![1] = p.msg]
    ELSE IF paket_buffer = <<>> THEN <<>>
    ELSE [paket_buffer EXCEPT ![p.part] = p.msg]

\* paket_header holds the last packet only: with it the message is complete.
Complete(p) == Decoded(p) # <<>> /\ p.part = sent[p.msg]

\* The acknowledgement is written first.  A first packet frees the buffer of the
\* message before.
Receive ==
    /\ receiver = "receive" /\ bus # <<>>
    /\ bus' = Tail(bus)
    /\ \/ acks' = acks + 1 /\ UNCHANGED lost
       \/ lost < MaxLost /\ lost' = lost + 1 /\ UNCHANGED acks
    /\ paket_buffer' = Decoded(Head(bus))
    /\ IF Head(bus).part = 1
       THEN buffer' = buffer + 1 /\ late' = (late \/ event_queue # <<>>)
       ELSE UNCHANGED <<buffer, late>>
    /\ IF Complete(Head(bus))
       THEN callback_sem' = TRUE /\ receiver' = "wait"
       ELSE UNCHANGED <<callback_sem, receiver>>
    /\ UNCHANGED <<call_vars, send_paket_sem, queue, task, ack, wait_sem, callback,
                   event_queue, events, slow, given_up>>

\* _event_task waits 1000 ms for the callback task.
WaitCallback ==
    /\ receiver = "wait"
    /\ receiver' = "receive"
    /\ wait_sem' = FALSE
    /\ slow' = (slow \/ ~wait_sem)
    /\ UNCHANGED <<call_vars, send_paket_sem, queue, task, ack, bus, acks, paket_buffer, buffer,
                   callback_sem, callback, event_queue, events, late, lost, given_up>>

TakeCallback ==
    /\ callback = "take" /\ callback_sem
    /\ callback_sem' = FALSE /\ callback' = "post"
    /\ UNCHANGED <<call_vars, send_paket_sem, queue, task, ack, bus, acks, receiver,
                   paket_buffer, buffer, wait_sem, event_queue, events, late, lost, slow, given_up>>

\* strlen: up to the first packet that is missing, or to the end of what the buffer
\* was last used for.
Length == IF \E i \in 1 .. Longest : paket_buffer[i] = 0
          THEN (CHOOSE j \in 1 .. Longest :
                  paket_buffer[j] = 0 /\ \A k \in 1 .. j - 1 : paket_buffer[k] # 0) - 1
          ELSE Longest

\* The event holds the pointer to the buffer, not the text.
PostEvent ==
    /\ callback = "post" /\ Len(event_queue) < EventPlaces
    /\ event_queue' = Append(event_queue, [buffer |-> buffer, length |-> Length])
    /\ wait_sem' = TRUE /\ callback' = "take"
    /\ UNCHANGED <<call_vars, send_paket_sem, queue, task, ack, bus, acks, receiver, paket_buffer,
                   buffer, callback_sem, events, late, lost, slow, given_up>>

\* The handler of the event loop reads the text through the pointer.  What it finds
\* behind that of a freed buffer is not known: here nothing, or what has come since
\* in the same place.
Handle ==
    /\ event_queue # <<>>
    /\ event_queue' = Tail(event_queue)
    /\ LET event == Head(event_queue)
           text == [p \in 1 .. event.length |-> paket_buffer[p]]
       IN  \/ events' = Append(events, text)
           \/ event.buffer # buffer /\ events' = Append(events, <<>>)
    /\ UNCHANGED <<call_vars, send_paket_sem, queue, task, ack, bus, acks, hand_over, late, lost,
                   slow, given_up>>
-----------------------------------------------------------------------------
Caller == Enqueue \/ TakeSent \/ Delete \/ Return
SenderTask == NextMessage \/ Write \/ ClearAck \/ TakeAck \/ NextPacket \/ Give
Peer == Receive \/ WaitCallback
Callback == TakeCallback \/ PostEvent

Next == Refuse \/ Sender \/ Caller \/ SenderTask \/ AckArrives \/ Peer \/ Callback \/ Handle

Spec == Init /\ [][Next]_vars

Fairness ==
    /\ WF_vars(Caller) /\ WF_vars(SenderTask) /\ WF_vars(AckArrives)
    /\ WF_vars(Peer) /\ WF_vars(Callback) /\ WF_vars(Handle)

FairSpec == Spec /\ Fairness
-----------------------------------------------------------------------------
(* Properties *)

\* Without loss and without a late answer, the handler reads the messages the queue
\* took whole, once and in their order, if it reads each before the next one arrives:
\* the events point into one buffer (rs485.cpp:18-30, 35-129, 169-189, 255-296).
ArriveWhole ==
    (lost = 0 /\ ~slow /\ ~late) =>
        \A i \in DOMAIN events : events[i] = [p \in 1 .. sent[i] |-> i]

\* In the end nobody waits and every message the queue took has been written to its
\* last packet, although each semaphore may be taken by the wait that came before or
\* after the one it was given for.  Messages are dropped without a word, and the
\* controller may panic, but only after a call gave up waiting for its message
\* (rs485.cpp:124-125, 132-144).
AllSent ==
    <>[](\/ sender = "panic" /\ expired
         \/ /\ ~busy /\ sender = "receive" /\ receiver = "receive"
            /\ send_queue = <<>> /\ data.msg = Len(sent)
            /\ sent # <<>> => data.part = sent[Len(sent)]
            /\ dropped => expired)
-----------------------------------------------------------------------------
(* The inductive invariant behind ArriveWhole (Rs485Proofs) *)

Packet == [msg : Nat, part : Nat \ {0}]

TypeOK ==
    /\ call \in 0 .. Len(PacketCount)
    /\ caller \in {"idle", "queue", "wait", "delete", "return"}
    /\ caller = "queue" => param \in 1 .. Longest
    /\ sent \in Seq(1 .. Longest)
    /\ send_queue \in Seq(Nat)
    /\ sender \in {"receive", "write", "clear", "ack", "next", "give", "panic"}
    /\ data \in [msg : Nat, part : Nat]
    /\ ack_sem \in BOOLEAN /\ bus \in Seq(Packet) /\ acks \in Nat
    /\ receiver \in {"receive", "wait"} /\ callback \in {"take", "post"}
    /\ callback_sem \in BOOLEAN /\ wait_sem \in BOOLEAN
    /\ lost \in Nat /\ slow \in BOOLEAN /\ late \in BOOLEAN

AtEnd(p) == p.msg # 0 => p.part = sent[p.msg]

\* The sender is at a packet of its message, or behind the last one, and the
\* messages that follow wait in the queue.
PlaceInv ==
    /\ IF data.msg = 0 THEN sender = "receive" /\ data.part = 0
       ELSE data.msg \in Message /\ data.part \in 1 .. sent[data.msg]
    /\ sender \in {"receive", "give", "panic"} => AtEnd(data)
    /\ Len(send_queue) = Len(sent) - data.msg
    /\ \A i \in DOMAIN send_queue : send_queue[i] = data.msg + i

\* Between the writing of a packet and the end of the wait for its
\* acknowledgement there is one of the two on its way, otherwise nothing.
AckInv ==
    IF sender \in {"clear", "ack"}
    THEN \/ bus = <<data>> /\ acks = 0 /\ ~ack_sem
         \/ bus = <<>> /\ acks = 1 /\ ~ack_sem
         \/ bus = <<>> /\ acks = 0 /\ ack_sem
    ELSE bus = <<>> /\ acks = 0 /\ ~ack_sem

\* The packet the other device has looked at last.
Arrived ==
    IF sender # "write" /\ bus = <<>> THEN data
    ELSE IF data.part > 1 THEN [msg |-> data.msg, part |-> data.part - 1]
    ELSE [msg |-> data.msg - 1,
          part |-> IF data.msg = 1 THEN 0 ELSE sent[data.msg - 1]]

\* The messages it has put together.
Whole == IF AtEnd(Arrived) THEN Arrived.msg ELSE Arrived.msg - 1

Filled(p) == [i \in 1 .. Longest |-> IF i <= p.part THEN p.msg ELSE 0]

BufferInv == Arrived.msg # 0 => paket_buffer = Filled(Arrived)

\* The one event there may be points to the message in the buffer.
EventInv ==
    event_queue # <<>> =>
        /\ Arrived.msg # 0 /\ AtEnd(Arrived)
        /\ event_queue = <<[buffer |-> buffer, length |-> Arrived.part]>>

\* A message is posted while _event_task waits, before the next one arrives.
Posted == Len(events) + Len(event_queue)

PostInv ==
    IF receiver = "receive"
    THEN ~callback_sem /\ callback = "take" /\ ~wait_sem /\ Posted = Whole
    ELSE /\ Arrived.msg # 0 /\ AtEnd(Arrived)
         /\ \/ /\ callback_sem /\ callback = "take" /\ ~wait_sem
               /\ event_queue = <<>> /\ Posted = Whole - 1
            \/ /\ ~callback_sem /\ callback = "post" /\ ~wait_sem
               /\ event_queue = <<>> /\ Posted = Whole - 1
            \/ ~callback_sem /\ callback = "take" /\ wait_sem /\ Posted = Whole

WholeInv ==
    /\ events \in Seq(Seq(Nat))
    /\ \A i \in DOMAIN events : events[i] = [p \in 1 .. sent[i] |-> i]

Undisturbed == lost = 0 /\ ~slow /\ ~late

ArriveInv == /\ TypeOK /\ PlaceInv
             /\ Undisturbed => AckInv /\ BufferInv /\ EventInv /\ PostInv /\ WholeInv
=============================================================================
