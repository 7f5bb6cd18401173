---------------------------- MODULE Rs485Proofs ----------------------------
(***************************************************************************)
(* Undisturbed messages arrive whole, once and in order, however many      *)
(* there are, whatever number of packets each of them has, and whichever   *)
(* of them found the queue full.                                           *)
(***************************************************************************)
EXTENDS Rs485, SequenceTheorems, TLAPS

\* Every message in the queue has at least one packet.
LEMMA Counts ==
    ASSUME TypeOK
    PROVE  /\ Longest \in Nat /\ Len(sent) \in Nat
           /\ \A m \in Message : sent[m] \in 1 .. Longest
<1>1. Longest \in Nat \ {0} /\ sent \in Seq(1 .. Longest)
  BY PacketAssumption DEF TypeOK
<1>2. Len(sent) \in Nat
  BY <1>1, LenProperties
<1>3. \A m \in Message : sent[m] \in 1 .. Longest
  BY <1>1, ElementOfSeq DEF Message
<1> QED BY <1>1, <1>2, <1>3

LEMMA InitArrive == Init => ArriveInv
<1> SUFFICES ASSUME Init PROVE ArriveInv
  OBVIOUS
<1> USE DEF Init
<1>1. /\ <<>> \in Seq(Nat) /\ <<>> \in Seq(Packet) /\ <<>> \in Seq(Seq(Nat))
      /\ <<>> \in Seq(1 .. Longest) /\ Len(<<>>) = 0 /\ DOMAIN <<>> = {}
  OBVIOUS
<1>2. TypeOK
  <2>1. call \in 0 .. Len(PacketCount)
    <3>1. Len(PacketCount) \in Nat
      BY PacketAssumption
    <3> QED BY <3>1
  <2>2. data \in [msg : Nat, part : Nat]
    OBVIOUS
  <2>3. send_queue \in Seq(Nat) /\ bus \in Seq(Packet) /\ sent \in Seq(1 .. Longest)
    BY <1>1
  <2> QED BY <2>1, <2>2, <2>3 DEF TypeOK
<1>3. PlaceInv
  BY <1>1 DEF PlaceInv, AtEnd
<1>4. Arrived.msg = 0
  BY DEF Arrived
<1>5. Whole = 0
  BY <1>4 DEF Whole, AtEnd
<1>6. AckInv /\ BufferInv /\ EventInv /\ PostInv /\ WholeInv
  BY <1>1, <1>4, <1>5 DEF AckInv, BufferInv, EventInv, PostInv, Posted, WholeInv
<1> QED BY <1>2, <1>3, <1>6 DEF ArriveInv

\* What has arrived is the packet before the one the sender is at, or that one.
LEMMA Arrival ==
    ASSUME TypeOK, PlaceInv, AckInv
    PROVE  /\ Arrived.msg \in 0 .. Len(sent)
           /\ Arrived.msg = 0 <=> Arrived.part = 0
           /\ Arrived.msg # 0 => Arrived.part \in 1 .. sent[Arrived.msg]
           /\ Whole \in 0 .. Len(sent)
<1>1. /\ data.msg \in 0 .. Len(sent) /\ data.part \in Nat /\ Len(sent) \in Nat
      /\ data.msg = 0 => sender = "receive" /\ data.part = 0
      /\ data.msg # 0 => data.part \in 1 .. sent[data.msg]
  BY Counts DEF TypeOK, PlaceInv
<1>2. \A m \in 1 .. Len(sent) : sent[m] \in Nat \ {0}
  BY Counts DEF Message
<1>3. /\ Arrived.msg \in 0 .. Len(sent)
      /\ Arrived.msg = 0 <=> Arrived.part = 0
      /\ Arrived.msg # 0 => Arrived.part \in 1 .. sent[Arrived.msg]
  <2>1. CASE sender # "write" /\ bus = <<>>
    <3>1. Arrived = data
      BY <2>1 DEF Arrived
    <3>2. data.msg # 0 => data.msg \in 1 .. Len(sent)
      BY <1>1
    <3> QED BY <1>1, <1>2, <3>1, <3>2
  <2>2. CASE ~(sender # "write" /\ bus = <<>>)
    <3>1. sender # "receive" /\ data.msg \in 1 .. Len(sent)
      BY <1>1, <2>2 DEF AckInv
    <3>2. CASE data.part > 1
      <4>1. Arrived.msg = data.msg /\ Arrived.part = data.part - 1
        BY <2>2, <3>2 DEF Arrived
      <4> QED BY <1>1, <1>2, <3>1, <3>2, <4>1
    <3>3. CASE ~(data.part > 1)
      <4>1. /\ Arrived.msg = data.msg - 1
            /\ Arrived.part = IF data.msg = 1 THEN 0 ELSE sent[data.msg - 1]
        BY <2>2, <3>3 DEF Arrived
      <4>2. data.msg # 1 => data.msg - 1 \in 1 .. Len(sent)
        BY <1>1, <3>1
      <4> QED BY <1>1, <1>2, <3>1, <4>1, <4>2
    <3> QED BY <3>2, <3>3
  <2> QED BY <2>1, <2>2
<1>4. Whole \in 0 .. Len(sent)
  BY <1>1, <1>3 DEF Whole, AtEnd
<1> QED BY <1>3, <1>4

\* What the sender's own steps leave as it is.
senders == <<send_queue, sent, sender, data>>

LEMMA PlaceStep == TypeOK /\ PlaceInv /\ [Next]_vars => PlaceInv' /\ TypeOK'
<1> SUFFICES ASSUME TypeOK, PlaceInv, [Next]_vars PROVE PlaceInv' /\ TypeOK'
  OBVIOUS
<1>0. /\ Len(sent) \in Nat /\ Len(PacketCount) \in Nat
      /\ \A m \in Message : sent[m] \in Nat \ {0}
      /\ sent \in Seq(1 .. Longest) /\ send_queue \in Seq(Nat)
      /\ data \in [msg : Nat, part : Nat]
  BY Counts, PacketAssumption DEF TypeOK
<1>1. ASSUME UNCHANGED <<senders>> PROVE PlaceInv'
  BY <1>1 DEF PlaceInv, AtEnd, Message, senders
<1>2. CASE Enqueue
  <2>1. CASE Len(send_queue) < QueueLength
    <3> DEFINE n == Len(sent) + 1
    <3>1. /\ n \in Nat /\ param \in 1 .. Longest
          /\ send_queue' = Append(send_queue, n) /\ sent' = Append(sent, param)
      BY <1>0, <1>2, <2>1 DEF Enqueue, TypeOK
    <3> HIDE DEF n
    <3>2. /\ sent' \in Seq(1 .. Longest) /\ Len(sent') = Len(sent) + 1
          /\ \A m \in 1 .. Len(sent) : sent'[m] = sent[m]
      BY <1>0, <3>1
    <3>3. /\ send_queue' \in Seq(Nat) /\ Len(send_queue') = Len(send_queue) + 1
          /\ \A i \in DOMAIN send_queue' :
               send_queue'[i] = IF i <= Len(send_queue) THEN send_queue[i] ELSE n
      <4>1. send_queue \in Seq(Nat) /\ n \in Nat /\ send_queue' = Append(send_queue, n)
        BY <1>0, <3>1
      <4> QED BY <4>1
    <3>4. UNCHANGED <<sender, data>>
      BY <1>2 DEF Enqueue, task
    <3>5. PlaceInv'
      <4>1. \A i \in DOMAIN send_queue' : send_queue'[i] = data.msg + i
        <5> TAKE i \in DOMAIN send_queue'
        <5>1. i \in 1 .. Len(send_queue) + 1
          BY <3>3
        <5>2. CASE i <= Len(send_queue)
          BY <3>3, <5>1, <5>2 DEF PlaceInv, TypeOK
        <5>3. CASE i = Len(send_queue) + 1
          BY <1>0, <3>3, <5>1, <5>3 DEF PlaceInv, TypeOK, n
        <5> QED BY <5>1, <5>2, <5>3 DEF TypeOK
      <4>2. Len(send_queue') = Len(sent') - data.msg
        BY <1>0, <3>2, <3>3 DEF PlaceInv, TypeOK
      <4>3. data.msg # 0 => data.msg \in 1 .. Len(sent') /\ sent'[data.msg] = sent[data.msg]
        BY <1>0, <3>2 DEF PlaceInv, Message, TypeOK
      <4> QED BY <3>4, <4>1, <4>2, <4>3 DEF PlaceInv, AtEnd, Message
    <3>6. TypeOK'
      BY <1>2, <3>2, <3>3 DEF Enqueue, TypeOK, task, ack, peer, hand_over
    <3> QED BY <3>5, <3>6
  <2>2. CASE ~(Len(send_queue) < QueueLength)
    <3>1. UNCHANGED senders
      BY <1>2, <2>2 DEF Enqueue, task, queue, senders
    <3>2. TypeOK'
      BY <1>2, <2>2 DEF Enqueue, TypeOK, task, queue, ack, peer, hand_over
    <3> QED BY <1>1, <3>1, <3>2
  <2> QED BY <2>1, <2>2
<1>3. CASE Sender
  <2>1. PacketCount[call + 1] \in 1 .. Longest
    <3>1. call + 1 \in 1 .. Len(PacketCount)
      BY <1>0, <1>3 DEF Sender, TypeOK
    <3> QED BY <3>1, ElementOfSeq, PacketAssumption
  <2>2. TypeOK'
    BY <1>0, <1>3, <2>1 DEF Sender, TypeOK, task, queue, ack, peer, hand_over
  <2> QED BY <1>1, <1>3, <2>2 DEF Sender, task, queue, senders
<1>4. CASE Refuse \/ TakeSent \/ Delete \/ Return
  BY <1>0, <1>1, <1>4 DEF Refuse, TakeSent, Delete, Return, TypeOK, task, queue, ack, peer,
                    hand_over, senders
<1>5. CASE NextMessage
  <2>1. /\ send_queue # <<>> /\ send_queue \in Seq(Nat)
        /\ Tail(send_queue) \in Seq(Nat)
        /\ Len(Tail(send_queue)) = Len(send_queue) - 1
        /\ \A i \in 1 .. Len(send_queue) - 1 : Tail(send_queue)[i] = send_queue[i + 1]
        /\ Head(send_queue) = send_queue[1] /\ Len(send_queue) >= 1
    BY <1>5 DEF NextMessage, TypeOK
  <2>2. Head(send_queue) = data.msg + 1
    BY <2>1 DEF PlaceInv
  <2>3. /\ data' = [msg |-> data.msg + 1, part |-> 1] /\ sender' = "write"
        /\ send_queue' = Tail(send_queue)
    BY <1>5, <2>2 DEF NextMessage
  <2>4. data.msg + 1 \in Message /\ data.msg + 1 # 0 /\ data.msg + 1 \in Nat
    <3>1. Len(send_queue) = Len(sent) - data.msg /\ data.msg \in Nat
      BY <1>0 DEF PlaceInv
    <3>2. Len(send_queue) \in Nat
      BY <1>0
    <3> QED BY <1>0, <2>1, <3>1, <3>2 DEF Message
  <2>5. TypeOK'
    <3>1. data' \in [msg : Nat, part : Nat]
      BY <2>3, <2>4
    <3> QED BY <1>5, <2>1, <2>3, <3>1 DEF NextMessage, TypeOK, call_vars, ack, peer, hand_over
  <2>6. PlaceInv'
    <3>1. data'.part \in 1 .. sent[data'.msg] /\ data'.msg = data.msg + 1
      BY <1>0, <2>3, <2>4
    <3>2. sent' = sent /\ Len(send_queue') = Len(sent) - data'.msg
      BY <1>5, <2>1, <2>3, <3>1, <1>0 DEF NextMessage, PlaceInv, TypeOK
    <3>3. \A i \in DOMAIN send_queue' : send_queue'[i] = data'.msg + i
      <4> TAKE i \in DOMAIN send_queue'
      <4>1. i \in 1 .. Len(send_queue) - 1 /\ i + 1 \in DOMAIN send_queue
        BY <2>1, <2>3
      <4> QED BY <2>1, <2>3, <3>1, <4>1 DEF PlaceInv, TypeOK
    <3> QED BY <2>3, <2>4, <3>1, <3>2, <3>3 DEF PlaceInv, Message
  <2> QED BY <2>5, <2>6
<1>6. CASE Write
  <2>1. data \in Packet
    BY <1>0, <1>6 DEF Write, TypeOK, PlaceInv, Packet, Message
  <2>2. bus' \in Seq(Packet) /\ lost' \in Nat
    <3>1. bus \in Seq(Packet) /\ lost \in Nat /\ Append(bus, data) \in Seq(Packet)
      BY <2>1 DEF TypeOK
    <3> HIDE DEF Packet
    <3> QED BY <1>6, <3>1 DEF Write
  <2>3. TypeOK'
    BY <1>6, <2>2 DEF Write, TypeOK, call_vars, queue, ack, peer, hand_over
  <2>4. PlaceInv'
    BY <1>6 DEF Write, PlaceInv, Message, queue
  <2> QED BY <2>3, <2>4
<1>7. CASE ClearAck
  BY <1>7 DEF ClearAck, PlaceInv, Message, TypeOK, call_vars, queue, peer, hand_over
<1>8. CASE TakeAck
  BY <1>8 DEF TakeAck, PlaceInv, Message, TypeOK, call_vars, queue, peer, hand_over
<1>9. CASE NextPacket
  <2>0. UNCHANGED <<call_vars, send_paket_sem, queue, ack, bus, acks, peer, lost, slow>>
    BY <1>9 DEF NextPacket
  <2>1. data.msg # 0 /\ data.msg \in Message /\ data.part \in 1 .. sent[data.msg]
    BY <1>9 DEF NextPacket, PlaceInv
  <2>2. CASE data.part < sent[data.msg]
    <3>1. data' = [data EXCEPT !.part = @ + 1] /\ sender' = "write"
      BY <1>9, <2>2 DEF NextPacket
    <3>2. data'.msg = data.msg /\ data'.part = data.part + 1
      BY <1>0, <3>1
    <3>3. data' \in [msg : Nat, part : Nat]
      BY <1>0, <3>1
    <3>4. data.part + 1 \in 1 .. sent[data.msg]
      BY <1>0, <2>1, <2>2
    <3>6. TypeOK'
      BY <2>0, <3>1, <3>3 DEF TypeOK, call_vars, queue, ack, peer, hand_over
    <3>7. PlaceInv'
      BY <2>0, <2>1, <3>1, <3>2, <3>4 DEF PlaceInv, Message, queue
    <3> QED BY <3>6, <3>7
  <2>3. CASE ~(data.part < sent[data.msg])
    <3>1. sender' \in {"receive", "give"} /\ data' = data
      BY <1>9, <2>3 DEF NextPacket
    <3>2. data.part = sent[data.msg]
      BY <1>0, <2>1, <2>3
    <3>3. TypeOK'
      BY <2>0, <3>1 DEF TypeOK, call_vars, queue, ack, peer, hand_over
    <3>4. PlaceInv'
      BY <2>0, <2>1, <3>1, <3>2 DEF PlaceInv, AtEnd, Message, queue
    <3> QED BY <3>3, <3>4
  <2> QED BY <2>2, <2>3
<1>10. CASE Give
  <2>1. /\ sender = "give" /\ sender' \in {"receive", "panic"}
        /\ UNCHANGED <<call_vars, queue, data, ack, bus, acks, peer, lost, slow>>
    BY <1>10 DEF Give
  <2>2. data.msg # 0
    BY <2>1 DEF PlaceInv
  <2>3. PlaceInv'
    BY <2>1, <2>2 DEF PlaceInv, AtEnd, Message, queue
  <2> QED BY <2>1, <2>3 DEF TypeOK, call_vars, queue, ack, peer, hand_over
<1>11. CASE AckArrives
  BY <1>1, <1>11 DEF AckArrives, TypeOK, call_vars, queue, task, peer, hand_over, senders
<1>12. CASE Receive
  <2>1. UNCHANGED senders
    BY <1>12 DEF Receive, queue, task, senders
  <2>2. bus' \in Seq(Packet) /\ acks' \in Nat /\ lost' \in Nat /\ late' \in BOOLEAN
    <3>1. bus' \in Seq(Packet)
      BY <1>12 DEF Receive, TypeOK
    <3>2. acks' \in Nat /\ lost' \in Nat
      BY <1>12 DEF Receive, TypeOK
    <3>3. late' \in BOOLEAN
      BY <1>12 DEF Receive, TypeOK
    <3> QED BY <3>1, <3>2, <3>3
  <2>3. callback_sem' \in BOOLEAN /\ receiver' \in {"receive", "wait"}
    BY <1>12 DEF Receive, TypeOK
  <2>4. TypeOK'
    BY <1>12, <2>1, <2>2, <2>3 DEF Receive, TypeOK, call_vars, ack, senders
  <2> QED BY <1>1, <2>1, <2>4
<1>13. CASE WaitCallback
  BY <1>1, <1>13 DEF WaitCallback, TypeOK, call_vars, queue, task, ack, senders
<1>14. CASE TakeCallback \/ PostEvent
  <2>1. UNCHANGED <<call_vars, queue, task, ack, bus, acks, receiver, late, lost, slow>>
    BY <1>14 DEF TakeCallback, PostEvent
  <2>2. callback_sem' \in BOOLEAN /\ wait_sem' \in BOOLEAN /\ callback' \in {"take", "post"}
    BY <1>14 DEF TakeCallback, PostEvent, TypeOK
  <2>3. TypeOK'
    BY <2>1, <2>2 DEF TypeOK, call_vars, queue, task, ack
  <2> QED BY <1>1, <2>1, <2>3 DEF queue, task, senders
<1>15. CASE Handle
  BY <1>1, <1>15 DEF Handle, TypeOK, call_vars, queue, task, ack, hand_over, senders
<1>16. CASE UNCHANGED vars
  BY <1>1, <1>16 DEF vars, TypeOK, call_vars, queue, task, ack, peer, hand_over, senders
<1> QED
  BY <1>2, <1>3, <1>4, <1>5, <1>6, <1>7, <1>8, <1>9, <1>10, <1>11, <1>12, <1>13, <1>14, <1>15,
     <1>16
  DEF Next, Caller, SenderTask, Peer, Callback

LEMMA StaysUndisturbed == TypeOK /\ [Next]_vars /\ Undisturbed' => Undisturbed
<1> SUFFICES ASSUME TypeOK, [Next]_vars, Undisturbed' PROVE Undisturbed
  OBVIOUS
<1> USE DEF Undisturbed, TypeOK
<1>1. CASE Refuse \/ Sender \/ Caller
  BY <1>1 DEF Refuse, Sender, Caller, Enqueue, TakeSent, Delete, Return, peer
<1>2. CASE SenderTask
  BY <1>2 DEF SenderTask, NextMessage, Write, ClearAck, TakeAck, NextPacket, Give, peer
<1>3. CASE AckArrives \/ Callback \/ Handle
  BY <1>3 DEF AckArrives, Callback, TakeCallback, PostEvent, Handle, peer
<1>4. CASE Peer
  BY <1>4 DEF Peer, Receive, WaitCallback
<1>5. CASE UNCHANGED vars
  BY <1>5 DEF vars, peer
<1> QED BY <1>1, <1>2, <1>3, <1>4, <1>5 DEF Next

LEMMA AckStep ==
    ASSUME TypeOK, Undisturbed, AckInv, [Next]_vars, Undisturbed'
    PROVE  AckInv'
<1> USE DEF AckInv
<1>1. ASSUME UNCHANGED <<sender, data, bus, acks, ack_sem>> PROVE AckInv'
  BY <1>1
<1>2. CASE Refuse \/ Sender \/ Caller \/ WaitCallback \/ Callback \/ Handle \/ UNCHANGED vars
  BY <1>1, <1>2 DEF Refuse, Sender, Caller, Enqueue, TakeSent, Delete, Return, WaitCallback,
                    Callback, TakeCallback, PostEvent, Handle, vars, task, ack
<1>3. CASE NextMessage \/ NextPacket \/ Give
  <2>1. sender \notin {"clear", "ack"} /\ sender' \notin {"clear", "ack"}
    BY <1>3 DEF NextMessage, NextPacket, Give
  <2> QED BY <1>3, <2>1 DEF NextMessage, NextPacket, Give, ack
<1>4. CASE Write
  <2>1. bus = <<>> /\ bus' = Append(bus, data) /\ Append(<<>>, data) = <<data>>
    BY <1>4 DEF Write, Undisturbed, TypeOK
  <2> QED BY <1>4, <2>1 DEF Write, ack
<1>5. CASE ClearAck
  BY <1>5 DEF ClearAck
<1>6. CASE TakeAck
  <2>1. sender = "ack" /\ sender' = "next" /\ UNCHANGED <<data, bus, acks>>
    BY <1>6 DEF TakeAck
  <2>2. ack_sem
    <3> SUFFICES ASSUME ~ack_sem PROVE FALSE
      OBVIOUS
    <3>1. slow' = (slow \/ bus # <<>> \/ acks > 0)
      BY <1>6 DEF TakeAck
    <3>2. bus # <<>> \/ acks = 1
      BY <2>1
    <3>3. bus # <<>> \/ acks > 0
      BY <3>2
    <3>4. ~slow'
      BY DEF Undisturbed
    <3> QED BY <3>1, <3>3, <3>4, Zenon
  <2>3. bus = <<>> /\ acks = 0 /\ ~ack_sem'
    BY <1>6, <2>1, <2>2 DEF TakeAck
  <2> QED BY <2>1, <2>3
<1>7. CASE AckArrives
  BY <1>7 DEF AckArrives, task, TypeOK
<1>8. CASE Receive
  <2>1. bus = <<data>> /\ acks = 0 /\ ~ack_sem /\ sender \in {"clear", "ack"}
    BY <1>8 DEF Receive
  <2>2. bus' = <<>> /\ acks' = 1
    BY <1>8, <2>1 DEF Receive, Undisturbed, TypeOK
  <2> QED BY <1>8, <2>1, <2>2 DEF Receive, task, ack
<1> QED BY <1>2, <1>3, <1>4, <1>5, <1>6, <1>7, <1>8 DEF Next, SenderTask, Peer

\* The messages that were put into the queue stay what they are.
LEMMA SentGrows ==
    ASSUME TypeOK, [Next]_vars
    PROVE  /\ \A m \in Message : sent'[m] = sent[m]
           /\ UNCHANGED sent \/ Enqueue
<1>1. CASE Enqueue
  <2>1. sent \in Seq(1 .. Longest) /\ param \in 1 .. Longest
    BY <1>1 DEF Enqueue, TypeOK
  <2>2. sent' = sent \/ sent' = Append(sent, param)
    BY <1>1 DEF Enqueue, queue
  <2>3. \A m \in 1 .. Len(sent) : Append(sent, param)[m] = sent[m]
    BY <2>1
  <2> QED BY <1>1, <2>2, <2>3 DEF Message
<1>2. CASE ~Enqueue
  <2>1. CASE Refuse \/ Sender \/ TakeSent \/ Delete \/ Return \/ UNCHANGED vars
    BY <2>1 DEF Refuse, Sender, TakeSent, Delete, Return, vars, queue
  <2>2. CASE SenderTask
    BY <2>2 DEF SenderTask, NextMessage, Write, ClearAck, TakeAck, NextPacket, Give, queue
  <2>3. CASE AckArrives \/ Peer \/ Callback \/ Handle
    BY <2>3 DEF AckArrives, Peer, Receive, WaitCallback, Callback, TakeCallback, PostEvent,
                Handle, queue
  <2> QED BY <1>2, <2>1, <2>2, <2>3 DEF Next, Caller
<1> QED BY <1>1, <1>2

\* Whatever the sender and its acknowledgements do, nothing arrives by it.
LEMMA ArrivedStays ==
    ASSUME TypeOK, PlaceInv, AckInv, Undisturbed, Undisturbed',
           \/ Refuse \/ Sender \/ Caller \/ SenderTask \/ AckArrives
           \/ WaitCallback \/ Callback \/ Handle \/ UNCHANGED vars
    PROVE  Arrived' = Arrived
<1>0. /\ data \in [msg : Nat, part : Nat] /\ Len(sent) \in Nat
      /\ data = [msg |-> data.msg, part |-> data.part]
  BY Counts DEF TypeOK
<1>1. CASE \/ Refuse \/ Sender \/ TakeSent \/ Delete \/ Return \/ AckArrives
           \/ WaitCallback \/ Callback \/ Handle \/ UNCHANGED vars
  <2>1. UNCHANGED <<sender, data, bus, sent>>
    BY <1>1 DEF Refuse, Sender, TakeSent, Delete, Return, AckArrives, WaitCallback, Callback,
                TakeCallback, PostEvent, Handle, vars, task, queue
  <2> QED BY <2>1 DEF Arrived
<1>2. CASE Enqueue
  <2>1. UNCHANGED <<sender, data, bus>>
    BY <1>2 DEF Enqueue, task
  <2>2. \A m \in Message : sent'[m] = sent[m]
    BY <1>2, SentGrows DEF Next, Caller
  <2>3. CASE sender # "write" /\ bus = <<>>
    BY <2>1, <2>3 DEF Arrived
  <2>4. CASE ~(sender # "write" /\ bus = <<>>)
    <3>1. data.msg \in Message
      BY <2>4 DEF AckInv, PlaceInv
    <3>2. data.msg = 1 \/ data.msg - 1 \in Message
      BY <1>0, <3>1 DEF Message
    <3> QED BY <2>1, <2>2, <2>4, <3>2 DEF Arrived
  <2> QED BY <2>3, <2>4
<1>3. CASE NextMessage
  <2>1. Arrived = data
    BY <1>3 DEF NextMessage, AckInv, Arrived
  <2>2. data' = [msg |-> data.msg + 1, part |-> 1] /\ sender' = "write" /\ sent' = sent
    <3>1. Head(send_queue) = data.msg + 1
      <4>1. 1 \in DOMAIN send_queue /\ Head(send_queue) = send_queue[1]
        BY <1>3 DEF NextMessage, TypeOK
      <4> QED BY <4>1 DEF PlaceInv
    <3> QED BY <1>3, <3>1 DEF NextMessage
  <2>3. Arrived' = [msg |-> data'.msg - 1,
                    part |-> IF data'.msg = 1 THEN 0 ELSE sent[data'.msg - 1]]
    BY <2>2 DEF Arrived
  <2>4. data'.msg = data.msg + 1 /\ data'.msg - 1 = data.msg
    BY <1>0, <2>2
  <2>5. data.part = IF data'.msg = 1 THEN 0 ELSE sent[data'.msg - 1]
    BY <1>0, <1>3, <2>4 DEF NextMessage, PlaceInv, AtEnd
  <2> QED BY <1>0, <2>1, <2>3, <2>4, <2>5
<1>4. CASE Write
  <2>1. bus' = Append(bus, data) /\ bus = <<>> /\ sender = "write"
    BY <1>4 DEF Write, Undisturbed, TypeOK, AckInv
  <2>2. bus' # <<>>
    BY <2>1
  <2> QED BY <1>4, <2>1, <2>2 DEF Write, Arrived, queue
<1>5. CASE ClearAck
  BY <1>5 DEF ClearAck, Arrived, queue
<1>6. CASE TakeAck
  <2>1. bus = <<>>
    BY <1>6 DEF TakeAck, AckInv, Undisturbed
  <2> QED BY <1>6, <2>1 DEF TakeAck, Arrived
<1>7. CASE NextPacket
  <2>1. Arrived = data /\ bus' = <<>>
    BY <1>7 DEF NextPacket, AckInv, Arrived
  <2>2. CASE data.part < sent[data.msg]
    <3>1. data' = [data EXCEPT !.part = @ + 1] /\ sender' = "write"
      BY <1>7, <2>2 DEF NextPacket
    <3>2. data'.msg = data.msg /\ data'.part = data.part + 1
      BY <1>0, <3>1
    <3>3. data.part >= 1
      BY <1>0, <1>7 DEF NextPacket, PlaceInv
    <3>4. Arrived' = [msg |-> data'.msg, part |-> data'.part - 1]
      BY <1>0, <3>1, <3>2, <3>3 DEF Arrived
    <3>5. data'.part - 1 = data.part
      BY <1>0, <3>2
    <3> QED BY <1>0, <2>1, <3>2, <3>4, <3>5
  <2>3. CASE ~(data.part < sent[data.msg])
    BY <1>7, <2>1, <2>3 DEF NextPacket, Arrived
  <2> QED BY <2>2, <2>3
<1>8. CASE Give
  <2>1. Arrived = data /\ bus' = <<>> /\ data' = data /\ sender' # "write"
    BY <1>8 DEF Give, AckInv, Arrived
  <2> QED BY <2>1 DEF Arrived
<1> QED BY <1>1, <1>2, <1>3, <1>4, <1>5, <1>6, <1>7, <1>8 DEF SenderTask, Caller

PeerInv == BufferInv /\ EventInv /\ PostInv /\ WholeInv

\* The handler has read no more messages than have been put together.
LEMMA PostedWhole ==
    ASSUME TypeOK, PlaceInv, AckInv, PeerInv
    PROVE  /\ Len(events) \in Nat /\ Len(event_queue) \in Nat
           /\ Len(events) <= Whole /\ DOMAIN events = 1 .. Len(events)
<1>1. Len(events) \in Nat /\ DOMAIN events = 1 .. Len(events)
  BY DEF PeerInv, WholeInv
<1>2. Len(event_queue) \in Nat
  <2>1. CASE event_queue = <<>>
    BY <2>1
  <2>2. CASE event_queue # <<>>
    BY <2>2 DEF PeerInv, EventInv
  <2> QED BY <2>1, <2>2
<1>3. Whole \in Nat
  BY Arrival, Counts
<1> QED BY <1>1, <1>2, <1>3 DEF PeerInv, PostInv, Posted, TypeOK

LEMMA PeerStays ==
    ASSUME TypeOK, PlaceInv, AckInv, PeerInv, [Next]_vars, Arrived' = Arrived, UNCHANGED peer
    PROVE  PeerInv'
<1>1. \A m \in Message : sent'[m] = sent[m]
  BY SentGrows
<1>2. Arrived.msg # 0 => Arrived.msg \in Message
  BY Arrival, Counts DEF Message
<1>3. AtEnd(Arrived)' = AtEnd(Arrived)
  BY <1>1, <1>2 DEF AtEnd
<1>4. Whole' = Whole
  BY <1>3 DEF Whole
<1>5. \A i \in DOMAIN events : i \in Message
  BY PostedWhole, Arrival, Counts DEF Message
<1>6. WholeInv'
  BY <1>1, <1>5 DEF PeerInv, WholeInv, peer
<1>7. BufferInv' /\ EventInv'
  BY <1>3 DEF PeerInv, BufferInv, EventInv, Filled, peer, hand_over
<1>8. PostInv'
  BY <1>3, <1>4 DEF PeerInv, PostInv, Posted, peer, hand_over
<1> QED BY <1>6, <1>7, <1>8 DEF PeerInv

\* What has arrived so far of a message fills its part of the buffer, the next
\* packet one place more.
LEMMA ReceiveStep ==
    ASSUME TypeOK, PlaceInv, AckInv, PeerInv, Undisturbed, Undisturbed', Receive
    PROVE  PeerInv'
<1> DEFINE m == data.msg
           k == data.part
<1>1. /\ bus = <<data>> /\ sender \in {"clear", "ack"}
      /\ Head(bus) = data /\ bus' = <<>>
      /\ UNCHANGED <<sender, data, sent>>
  <2>1. bus = <<data>> /\ sender \in {"clear", "ack"}
    BY DEF Receive, AckInv
  <2> QED BY <2>1 DEF Receive, task, queue
<1>2. /\ m \in 1 .. Len(sent) /\ k \in 1 .. sent[m]
      /\ sent[m] \in 1 .. Longest /\ Longest \in Nat /\ k \in Nat
      /\ data.msg = m /\ data.part = k
  <2>1. data.msg \in Message /\ Len(sent) \in Nat
    BY <1>1, Counts DEF PlaceInv
  <2> QED BY <1>1, <2>1, Counts DEF PlaceInv, TypeOK, Message
<1>3. Arrived' = data
  BY <1>1 DEF Arrived
<1>4. Arrived = IF k > 1 THEN [msg |-> m, part |-> k - 1]
                ELSE [msg |-> m - 1, part |-> IF m = 1 THEN 0 ELSE sent[m - 1]]
  BY <1>1 DEF Arrived
<1> HIDE DEF m, k
<1>5. Whole = m - 1
  <2>1. CASE k > 1
    <3>1. Arrived.msg = m /\ Arrived.part = k - 1
      BY <1>4, <2>1
    <3> QED BY <1>2, <3>1 DEF Whole, AtEnd
  <2>2. CASE ~(k > 1)
    <3>1. Arrived.msg = m - 1 /\ Arrived.part = IF m = 1 THEN 0 ELSE sent[m - 1]
      BY <1>4, <2>2
    <3> QED BY <1>2, <3>1 DEF Whole, AtEnd
  <2> QED BY <2>1, <2>2
<1>6. Whole' = IF k = sent[m] THEN m ELSE m - 1
  BY <1>1, <1>2, <1>3 DEF Whole, AtEnd
<1>7. Decoded(data) = Filled(data) /\ Decoded(data) # <<>>
  <2>1. Filled(data) = [i \in 1 .. Longest |-> IF i <= k THEN m ELSE 0]
    BY <1>2 DEF Filled
  <2>2. Filled(data) # <<>>
    <3>1. DOMAIN Filled(data) = 1 .. Longest /\ 1 \in 1 .. Longest
      BY <1>2, <2>1
    <3>2. DOMAIN <<>> = {}
      OBVIOUS
    <3> QED BY <3>1, <3>2
  <2>3. CASE k = 1
    <3>1. Decoded(data) = [[i \in 1 .. Longest |-> 0] EXCEPT ![1] = m]
      BY <1>2, <2>3 DEF Decoded, Blank
    <3>2. [[i \in 1 .. Longest |-> 0] EXCEPT ![1] = m]
          = [i \in 1 .. Longest |-> IF i <= 1 THEN m ELSE 0]
      BY <1>2
    <3> QED BY <2>1, <2>2, <2>3, <3>1, <3>2
  <2>4. CASE k # 1
    <3>1. Arrived.msg = m /\ Arrived.part = k - 1 /\ k > 1
      BY <1>2, <1>4, <2>4
    <3>2. paket_buffer = [i \in 1 .. Longest |-> IF i <= k - 1 THEN m ELSE 0]
      BY <1>2, <3>1 DEF PeerInv, BufferInv, Filled
    <3>3. paket_buffer # <<>>
      <4>1. DOMAIN paket_buffer = 1 .. Longest /\ 1 \in 1 .. Longest
        BY <1>2, <3>2
      <4>2. DOMAIN <<>> = {}
        OBVIOUS
      <4> QED BY <4>1, <4>2
    <3>4. Decoded(data) = [paket_buffer EXCEPT ![k] = m]
      BY <1>2, <2>4, <3>3 DEF Decoded
    <3>5. [paket_buffer EXCEPT ![k] = m] = [i \in 1 .. Longest |-> IF i <= k THEN m ELSE 0]
      BY <1>2, <3>2
    <3> QED BY <2>1, <2>2, <3>4, <3>5
  <2> QED BY <2>3, <2>4
<1>8. BufferInv'
  <2>1. paket_buffer' = Filled(data)
    BY <1>1, <1>7 DEF Receive
  <2> QED BY <1>3, <2>1 DEF BufferInv, Filled
<1>9. Complete(data) <=> k = sent[m]
  BY <1>2, <1>7 DEF Complete
<1>10. event_queue = <<>> /\ event_queue' = <<>>
  <2>1. event_queue' = event_queue
    BY DEF Receive
  <2>2. CASE k = 1
    <3>1. late' = (late \/ event_queue # <<>>)
      BY <1>1, <1>2, <2>2 DEF Receive
    <3> QED BY <2>1, <3>1 DEF Undisturbed, TypeOK
  <2>3. CASE k # 1
    <3>1. Arrived.msg = m /\ Arrived.part = k - 1 /\ k - 1 # sent[m]
      BY <1>2, <1>4, <2>3
    <3>2. ~AtEnd(Arrived)
      BY <1>2, <3>1 DEF AtEnd
    <3> QED BY <2>1, <3>2 DEF PeerInv, EventInv
  <2> QED BY <2>2, <2>3
<1>11. EventInv'
  BY <1>10 DEF EventInv
<1>12. PostInv'
  <2>1. /\ receiver = "receive" /\ ~callback_sem /\ callback = "take" /\ ~wait_sem
        /\ UNCHANGED <<wait_sem, callback, events>>
    BY DEF Receive, PeerInv, PostInv
  <2>2. Posted = m - 1 /\ Posted' = Posted
    BY <1>5, <1>10, <2>1 DEF PeerInv, PostInv, Posted
  <2>3. CASE k = sent[m]
    <3>1. callback_sem' /\ receiver' = "wait"
      BY <1>1, <1>9, <2>3 DEF Receive
    <3>2. Arrived'.msg # 0 /\ AtEnd(Arrived)' /\ Whole' = m /\ m - 1 = Whole' - 1
      BY <1>1, <1>2, <1>3, <1>6, <2>3 DEF AtEnd
    <3>3. Posted' = Whole' - 1 /\ callback' = "take" /\ ~wait_sem'
      BY <2>1, <2>2, <3>2
    <3> QED BY <1>10, <3>1, <3>2, <3>3 DEF PostInv
  <2>4. CASE k # sent[m]
    <3>1. UNCHANGED <<callback_sem, receiver>>
      BY <1>1, <1>9, <2>4 DEF Receive
    <3> QED BY <1>6, <2>1, <2>2, <2>4, <3>1 DEF PostInv
  <2> QED BY <2>3, <2>4
<1>13. WholeInv'
  BY <1>1 DEF Receive, PeerInv, WholeInv
<1> QED BY <1>8, <1>11, <1>12, <1>13 DEF PeerInv

\* The text ends with the last packet of its message, or with the buffer.
LEMMA LengthOfMessage ==
    ASSUME NEW m \in Nat \ {0}, NEW n \in 1 .. Longest, Longest \in Nat,
           paket_buffer = [i \in 1 .. Longest |-> IF i <= n THEN m ELSE 0]
    PROVE  Length = n
<1>1. CASE n = Longest
  <2>1. ~ \E i \in 1 .. Longest : paket_buffer[i] = 0
    BY <1>1
  <2> QED BY <1>1, <2>1 DEF Length
<1>2. CASE n # Longest
  <2> DEFINE P(j) == paket_buffer[j] = 0 /\ \A k \in 1 .. j - 1 : paket_buffer[k] # 0
             e == CHOOSE j \in 1 .. Longest : P(j)
  <2>1. n + 1 \in 1 .. Longest /\ P(n + 1)
    BY <1>2
  <2>2. e \in 1 .. Longest /\ P(e)
    <3> HIDE DEF P
    <3> QED BY <2>1
  <2>3. e = n + 1
    <3> HIDE DEF e
    <3>1. ~(e <= n)
      BY <2>2
    <3>2. ~(e > n + 1)
      <4> SUFFICES ASSUME e > n + 1 PROVE FALSE
        OBVIOUS
      <4>1. n + 1 \in 1 .. e - 1
        BY <2>2
      <4> QED BY <2>1, <2>2, <4>1
    <3> QED BY <2>2, <3>1, <3>2
  <2>4. Length = e - 1
    BY <2>1 DEF Length
  <2> HIDE DEF e
  <2> QED BY <2>3, <2>4
<1> QED BY <1>1, <1>2

\* A message is posted while _event_task waits, and read before the next one comes.
LEMMA CallbackStep ==
    ASSUME TypeOK, PlaceInv, AckInv, PeerInv, Undisturbed, Undisturbed', WaitCallback \/ Callback
    PROVE  PeerInv'
<1>1. Arrived' = Arrived /\ sent' = sent
  BY ArrivedStays DEF WaitCallback, Callback, TakeCallback, PostEvent, queue
<1>2. Whole' = Whole /\ AtEnd(Arrived)' = AtEnd(Arrived)
  BY <1>1 DEF Whole, AtEnd
<1>3. UNCHANGED <<paket_buffer, buffer, events>>
  BY DEF WaitCallback, Callback, TakeCallback, PostEvent
<1>4. BufferInv' /\ WholeInv'
  BY <1>1, <1>3 DEF PeerInv, BufferInv, WholeInv, Filled
<1>5. CASE WaitCallback
  <2>1. wait_sem
    BY <1>5 DEF WaitCallback, Undisturbed
  <2>2. callback = "take" /\ ~callback_sem /\ Posted = Whole
    BY <1>5, <2>1 DEF WaitCallback, PeerInv, PostInv
  <2>3. /\ UNCHANGED <<callback, callback_sem, event_queue>>
        /\ receiver' = "receive" /\ ~wait_sem'
    BY <1>5 DEF WaitCallback
  <2>4. PostInv' /\ EventInv'
    BY <1>1, <1>2, <1>3, <2>2, <2>3 DEF PostInv, Posted, PeerInv, EventInv
  <2> QED BY <1>4, <2>4 DEF PeerInv
<1>6. CASE TakeCallback
  <2>1. receiver = "wait" /\ callback_sem
    BY <1>6 DEF TakeCallback, PeerInv, PostInv, TypeOK
  <2>2. /\ Arrived.msg # 0 /\ AtEnd(Arrived) /\ ~wait_sem
        /\ event_queue = <<>> /\ Posted = Whole - 1
    BY <2>1 DEF PeerInv, PostInv
  <2>3. /\ UNCHANGED <<receiver, wait_sem, event_queue>>
        /\ ~callback_sem' /\ callback' = "post"
    BY <1>6 DEF TakeCallback
  <2>4. PostInv' /\ EventInv'
    BY <1>1, <1>2, <1>3, <2>1, <2>2, <2>3 DEF PostInv, Posted, EventInv
  <2> QED BY <1>4, <2>4 DEF PeerInv
<1>7. CASE PostEvent
  <2>1. receiver = "wait" /\ callback = "post"
    BY <1>7 DEF PostEvent, PeerInv, PostInv, TypeOK
  <2>2. /\ Arrived.msg # 0 /\ AtEnd(Arrived) /\ ~callback_sem
        /\ event_queue = <<>> /\ Posted = Whole - 1
    BY <2>1 DEF PeerInv, PostInv
  <2>3. Length = Arrived.part
    <3> DEFINE m == Arrived.msg
               n == Arrived.part
    <3>1. m \in Message /\ m \in Nat \ {0} /\ n = sent[m]
      BY <2>2, Arrival, Counts DEF Message, AtEnd
    <3>2. n \in 1 .. Longest /\ Longest \in Nat
      BY <3>1, Counts
    <3>3. paket_buffer = [i \in 1 .. Longest |-> IF i <= n THEN m ELSE 0]
      BY <2>2 DEF PeerInv, BufferInv, Filled
    <3> HIDE DEF m, n
    <3>4. Length = n
      BY <3>1, <3>2, <3>3, LengthOfMessage
    <3> QED BY <3>4 DEF n
  <2>4. /\ UNCHANGED <<receiver, callback_sem>> /\ wait_sem' /\ callback' = "take"
        /\ event_queue' = Append(event_queue, [buffer |-> buffer, length |-> Length])
    BY <1>7 DEF PostEvent
  <2>5. event_queue' = <<[buffer |-> buffer, length |-> Arrived.part]>>
    BY <2>2, <2>3, <2>4
  <2>6. EventInv'
    BY <1>1, <1>2, <1>3, <2>2, <2>5 DEF EventInv
  <2>7. Posted' = Whole
    <3>1. Len(event_queue) = 0 /\ Len(event_queue') = 1
      BY <2>2, <2>5
    <3>2. Len(events) \in Nat /\ Whole \in Nat
      BY PostedWhole, Arrival, Counts
    <3> QED BY <1>3, <2>2, <3>1, <3>2 DEF Posted
  <2>8. PostInv'
    BY <1>1, <1>2, <2>1, <2>2, <2>4, <2>7 DEF PostInv
  <2> QED BY <1>4, <2>6, <2>8 DEF PeerInv
<1> QED BY <1>5, <1>6, <1>7 DEF Callback

\* The event handled is that of the message in the buffer, the next one to be read.
LEMMA HandleStep ==
    ASSUME TypeOK, PlaceInv, AckInv, PeerInv, Undisturbed, Undisturbed', Handle
    PROVE  PeerInv'
<1>1. Arrived' = Arrived /\ sent' = sent /\ UNCHANGED hand_over
  BY ArrivedStays DEF Handle, queue
<1>2. Whole' = Whole /\ AtEnd(Arrived)' = AtEnd(Arrived)
  BY <1>1 DEF Whole, AtEnd
<1> DEFINE m == Arrived.msg
           n == Arrived.part
<1>3. /\ m # 0 /\ AtEnd(Arrived)
      /\ event_queue = <<[buffer |-> buffer, length |-> n]>>
  BY DEF Handle, PeerInv, EventInv
<1>4. /\ m \in Message /\ m \in Nat \ {0} /\ n = sent[m] /\ n \in 1 .. Longest
      /\ Longest \in Nat /\ Whole = m
  BY <1>3, Arrival, Counts DEF Message, AtEnd, Whole
<1>5. paket_buffer = [i \in 1 .. Longest |-> IF i <= n THEN m ELSE 0]
  BY <1>3 DEF PeerInv, BufferInv, Filled
<1> HIDE DEF m, n
<1>6. /\ Head(event_queue).buffer = buffer /\ Head(event_queue).length = n
      /\ Tail(event_queue) = <<>> /\ Len(event_queue) = 1
  BY <1>3
<1> DEFINE text == [p \in 1 .. n |-> m]
<1>7. [p \in 1 .. n |-> paket_buffer[p]] = text
  BY <1>4, <1>5
<1>8. text \in Seq(Nat)
  BY <1>4
<1>9. events' = Append(events, text) /\ event_queue' = <<>>
  BY <1>6, <1>7 DEF Handle
<1> HIDE DEF text
<1>10. /\ events \in Seq(Seq(Nat)) /\ Len(events) = m - 1 /\ DOMAIN events = 1 .. m - 1
       /\ \A i \in DOMAIN events : events[i] = [p \in 1 .. sent[i] |-> i]
       /\ receiver = "receive" \/ wait_sem
       /\ Posted = Whole
  <2>1. Posted = Whole /\ (receiver = "receive" \/ wait_sem)
    BY <1>3 DEF PeerInv, PostInv
  <2>2. Len(events) \in Nat /\ DOMAIN events = 1 .. Len(events)
    BY PostedWhole
  <2>3. Len(events) = m - 1
    BY <1>4, <1>6, <2>1, <2>2 DEF Posted
  <2> QED BY <2>1, <2>2, <2>3 DEF PeerInv, WholeInv
<1>11. /\ events' \in Seq(Seq(Nat)) /\ Len(events') = m /\ DOMAIN events' = 1 .. m
       /\ \A i \in 1 .. m : events'[i] = IF i = m THEN text ELSE events[i]
  BY <1>4, <1>8, <1>9, <1>10
<1>12. WholeInv'
  <2>1. \A i \in 1 .. m : i # m => i \in 1 .. m - 1
    BY <1>4
  <2>2. \A i \in 1 .. m : events'[i] = [p \in 1 .. sent[i] |-> i]
    <3> TAKE i \in 1 .. m
    <3>1. CASE i = m
      BY <1>4, <1>11, <3>1 DEF text
    <3>2. CASE i # m
      BY <1>10, <1>11, <2>1, <3>2
    <3> QED BY <3>1, <3>2
  <2> QED BY <1>1, <1>11, <2>2 DEF WholeInv
<1>13. EventInv' /\ BufferInv'
  BY <1>1, <1>9 DEF EventInv, BufferInv, PeerInv, Filled, hand_over
<1>14. Posted' = Whole
  <2>1. Len(event_queue') = 0
    BY <1>9
  <2> QED BY <1>4, <1>11, <2>1 DEF Posted
<1>15. PostInv'
  BY <1>1, <1>2, <1>3, <1>10, <1>14 DEF PeerInv, PostInv, hand_over
<1> QED BY <1>12, <1>13, <1>15 DEF PeerInv

LEMMA NextArrive == ArriveInv /\ [Next]_vars => ArriveInv'
<1> SUFFICES ASSUME ArriveInv, [Next]_vars PROVE ArriveInv'
  OBVIOUS
<1>1. TypeOK /\ PlaceInv /\ TypeOK' /\ PlaceInv'
  BY PlaceStep DEF ArriveInv
<1>2. ASSUME Undisturbed' PROVE AckInv' /\ PeerInv'
  <2>1. Undisturbed
    BY <1>1, <1>2, StaysUndisturbed
  <2>2. AckInv /\ PeerInv
    BY <2>1 DEF ArriveInv, PeerInv
  <2>3. AckInv'
    BY <1>1, <1>2, <2>1, <2>2, AckStep
  <2>4. CASE Refuse \/ Sender \/ Caller \/ SenderTask \/ AckArrives \/ UNCHANGED vars
    <3>1. Arrived' = Arrived
      BY <1>1, <1>2, <2>1, <2>2, <2>4, ArrivedStays
    <3>2. UNCHANGED peer
      BY <2>4 DEF Refuse, Sender, Caller, Enqueue, TakeSent, Delete, Return, SenderTask,
                  NextMessage, Write, ClearAck, TakeAck, NextPacket, Give, AckArrives, vars
    <3> QED BY <1>1, <2>2, <2>3, <3>1, <3>2, PeerStays
  <2>5. CASE Receive
    BY <1>1, <1>2, <2>1, <2>2, <2>3, <2>5, ReceiveStep
  <2>6. CASE WaitCallback \/ Callback
    BY <1>1, <1>2, <2>1, <2>2, <2>3, <2>6, CallbackStep
  <2>7. CASE Handle
    BY <1>1, <1>2, <2>1, <2>2, <2>3, <2>7, HandleStep
  <2> QED BY <2>4, <2>5, <2>6, <2>7 DEF Next, Peer
<1> QED BY <1>1, <1>2 DEF ArriveInv, PeerInv

\* Whatever the messages, however many packets they have and whichever of them the
\* queue did not take: as long as nothing is lost, no wait ends early and each event
\* is handled before the buffer it points to is freed, each text the handler reads is
\* the next message of the queue, with all its packets and nothing else
\* (rs485.cpp:18-30, 35-129, 169-189, 255-296).
THEOREM MessagesArriveWhole == Spec => []ArriveWhole
<1>1. ArriveInv => ArriveWhole
  BY DEF ArriveInv, Undisturbed, WholeInv, ArriveWhole
<1> QED BY <1>1, InitArrive, NextArrive, PTL DEF Spec
=============================================================================
