---------------------------- MODULE DaliReceiver ----------------------------
(***************************************************************************)
(* The receiving half of the DALI driver (comp/dali.cpp): the edge         *)
(* interrupt int_handler, the end-of-frame alarm timer_alarm_cb and        *)
(* paket_task, which tells lamp answers (8 bits) from commands (16 and 24  *)
(* bits) by the number of half bits it counted.                            *)
(*                                                                         *)
(* Time advances in ticks of a quarter of a half bit.  Frames from several *)
(* senders may overlap on the line, where low wins; each sender has its    *)
(* own clock.  The interrupt may be switched on in the middle of a frame.  *)
(***************************************************************************)
EXTENDS Integers, Sequences, FiniteSets

CONSTANTS
    Scene,     \* [frames, enabled]: the frames on the line and the tick at which
               \* the receive interrupt is switched on
    Quiet,     \* ticks since the timer of the line was last set, at the start
    Silence    \* bound: the ticks that are modelled after the last frame

VARIABLES
    sent,             \* the frames on the line: [bits, start, half]
    enabled,          \* the tick of gpio_intr_enable(_rx)
    now,
    level,            \* the level of the line
    per, per_runs,    \* per_timer
    kom,              \* kom_timer
    start_bit_begin,
    bit_count,
    Hgelen,
    paket_queue,
    gelen,            \* what paket_task has made of the packets so far
    back_sem

\* Operators whose comment starts with "Faulty" are variants with one bug; the
\* specification does not use them.  They show that a property can fail.

timers == <<per, per_runs, kom>>
decoder == <<start_bit_begin, bit_count, Hgelen>>
world == <<sent, enabled>>
receiverVars == <<world, now, level, timers, decoder, paket_queue, gelen, back_sem>>

\* The times of dali.cpp:9-31 and 137-160, in microseconds.
HALF_PERIOD == 416
HALF_PERIOD_UP == HALF_PERIOD + 125
HALF_PERIOD_DOWN == HALF_PERIOD - 125
FULL_PERIOD_DOWN == 832 - 250
FULL_PERIOD_DOWN_3 == 1746
PARAZIT == 100
ALARM == (832 + 250) * 2
RELOAD == 1000000
Tick == HALF_PERIOD \div 4

\* A frame is its bits, the tick it starts at, and the length of a half bit in ticks,
\* by its sender's clock, which is off by a quarter at most.
ASSUME SceneAssumption ==
    \A s \in Scene :
        /\ IsFiniteSet(s.frames)
        /\ \A f \in s.frames : /\ f.bits \in Seq({0, 1}) /\ Len(f.bits) \in {8, 16, 24}
                              /\ f.start \in Nat \ {0} /\ f.half \in 3 .. 5
        /\ s.enabled \in Nat

\* Frames come after three periods of silence, by a timer that starts again at
\* RELOAD, and the alarm rings in the time that is modelled.
ASSUME TimeAssumption ==
    /\ Quiet \subseteq Nat
    /\ \A q \in Quiet, s \in Scene : \A f \in s.frames :
          ((q + f.start) * Tick) % RELOAD > FULL_PERIOD_DOWN_3
    /\ Silence \in Nat /\ Silence * Tick >= ALARM

ReceiverInit ==
    /\ \E s \in Scene : sent = s.frames /\ enabled = s.enabled
    /\ now = 0
    /\ level = 1
    /\ per = 0 /\ per_runs = FALSE
    /\ kom \in {(q * Tick) % RELOAD : q \in Quiet}
    /\ start_bit_begin = FALSE
    /\ bit_count = 0
    /\ Hgelen = <<>>
    /\ paket_queue = <<>>
    /\ gelen = <<>>
    /\ back_sem = FALSE
-----------------------------------------------------------------------------
(* The line *)

\* A frame is a start bit 1 and its bits; a bit b is the level 1 - b for half a
\* bit and then b.
Low(s, t) ==
    LET half == (t - s.start) \div s.half
        bit == IF half \div 2 = 0 THEN 1 ELSE s.bits[half \div 2]
    IN  /\ t >= s.start
        /\ half < 2 * (Len(s.bits) + 1)
        /\ bit = IF half % 2 = 0 THEN 1 ELSE 0

\* The silence after the last frame is over.
Finish == LET ends == {s.start + 2 * s.half * (Len(s.bits) + 1) : s \in sent}
          IN  (CHOOSE e \in ends : \A f \in ends : f <= e) + Silence

Line(t) == IF \E s \in sent : Low(s, t) THEN 0 ELSE 1
-----------------------------------------------------------------------------
(* int_handler, at an edge to lv, with the timers at p and k *)

\* A falling edge outside a frame: the start bit, if the line was idle for three
\* periods.
StartEdge(p, k) ==
    /\ IF k > FULL_PERIOD_DOWN_3
       THEN per' = 0 /\ per_runs' = TRUE /\ bit_count' = 0
       ELSE per' = p /\ UNCHANGED <<per_runs, bit_count>>
    /\ kom' = 0
    /\ Hgelen' = <<>>
    /\ UNCHANGED start_bit_begin

\* A rising edge outside a frame: the middle of the start bit, half a bit later.
StartMiddle(p, k) ==
    /\ IF p > HALF_PERIOD_DOWN /\ p < HALF_PERIOD_UP
       THEN per' = 0 /\ start_bit_begin' = TRUE /\ bit_count' = 0
       ELSE per' = p /\ UNCHANGED <<start_bit_begin, bit_count>>
    /\ kom' = k
    /\ UNCHANGED <<per_runs, Hgelen>>

\* Faulty: takes the value of a bit from the edge between two bits.
BitEdgeOdd(lv, p, k) ==
    /\ IF p > PARAZIT
       THEN /\ bit_count' = bit_count + (IF p > FULL_PERIOD_DOWN THEN 2 ELSE 1)
            /\ Hgelen' = IF bit_count' % 2 = 1 THEN Append(Hgelen, lv) ELSE Hgelen
            /\ per' = 0
       ELSE per' = p /\ UNCHANGED <<bit_count, Hgelen>>
    /\ kom' = k
    /\ UNCHANGED <<per_runs, start_bit_begin>>

\* An edge inside a frame, one or two half bits after the one before; those in
\* the middle of a bit carry its value.
BitEdge(lv, p, k) ==
    /\ IF p > PARAZIT
       THEN /\ bit_count' = bit_count + (IF p > FULL_PERIOD_DOWN THEN 2 ELSE 1)
            /\ Hgelen' = IF bit_count' % 2 = 0 THEN Append(Hgelen, lv) ELSE Hgelen
            /\ per' = 0
       ELSE per' = p /\ UNCHANGED <<bit_count, Hgelen>>
    /\ kom' = k
    /\ UNCHANGED <<per_runs, start_bit_begin>>

int_handler(lv, p, k) ==
    \/ ~start_bit_begin /\ lv = 0 /\ StartEdge(p, k)
    \/ ~start_bit_begin /\ lv = 1 /\ StartMiddle(p, k)
    \/ start_bit_begin /\ BitEdge(lv, p, k)

\* timer_alarm_cb: the frame is over, or what looked like one.
timer_alarm_cb(p, k) ==
    /\ paket_queue' = Append(paket_queue, [bits |-> Hgelen, count |-> bit_count])
    /\ start_bit_begin' = FALSE
    /\ per' = p
    /\ per_runs' = FALSE
    /\ kom' = 0
    /\ UNCHANGED <<bit_count, Hgelen>>

\* One tick: the timers count, then an edge of the line or the alarm.
Advance ==
    LET p == IF per_runs THEN per + Tick ELSE per
        k == (kom + Tick) % RELOAD
        lv == Line(now + 1)
    IN  /\ now < Finish
        /\ now' = now + 1
        /\ level' = lv
        /\ \/ /\ per_runs /\ p >= ALARM
              /\ timer_alarm_cb(p, k)
           \/ /\ ~(per_runs /\ p >= ALARM)
              /\ lv # level /\ now + 1 >= enabled
              /\ int_handler(lv, p, k)
              /\ UNCHANGED paket_queue
           \/ /\ ~(per_runs /\ p >= ALARM)
              /\ lv = level \/ now + 1 < enabled
              /\ per' = p /\ kom' = k
              /\ UNCHANGED <<per_runs, decoder, paket_queue>>
        /\ UNCHANGED <<world, gelen, back_sem>>
-----------------------------------------------------------------------------
(* paket_task *)

\* What a packet is taken for: a short one of no known length is a collision of
\* answers, read as 0xFF.
Yes == <<1, 1, 1, 1, 1, 1, 1, 1>>

\* Faulty: takes all that is no answer for a command, up to its length.
BlockTolerant(count) == CASE count \in {16, 17} -> 8
                          [] count <= 33 /\ count \notin {16, 17} -> 16
                          [] OTHER -> 24

Block(count) == CASE count \in {16, 17} -> 8
                  [] count \in {32, 33} -> 16
                  [] count > 40 -> 24
                  [] OTHER -> 0

\* Faulty: drops what has no known length.
paket_task_drops ==
    /\ paket_queue # <<>>
    /\ LET g == Head(paket_queue)
           block == Block(g.count)
       IN  /\ gelen' = Append(gelen, [block |-> block, bits |-> g.bits])
           /\ back_sem' = (back_sem \/ block = 8)
    /\ paket_queue' = Tail(paket_queue)
    /\ UNCHANGED <<world, now, level, timers, decoder>>

paket_task ==
    /\ paket_queue # <<>>
    /\ LET g == Head(paket_queue)
           block == Block(g.count)
           packet == IF block = 0 /\ g.count < 32
                     THEN [block |-> 8, bits |-> Yes]
                     ELSE [block |-> block, bits |-> g.bits]
       IN  /\ gelen' = Append(gelen, packet)
           /\ back_sem' = (back_sem \/ packet.block = 8)
    /\ paket_queue' = Tail(paket_queue)
    /\ UNCHANGED <<world, now, level, timers, decoder>>

ReceiverNext == Advance \/ paket_task

ReceiverSpec == ReceiverInit /\ [][ReceiverNext]_receiverVars
-----------------------------------------------------------------------------
(* Properties *)

Over == now = Finish /\ paket_queue = <<>>

\* dali.cpp:311-321: a frame that starts after a silence, from a single sender
\* whose clock may be off, is received once, with its length and all its bits.
SingleFrameReceived ==
    (Over /\ enabled = 0 /\ Cardinality(sent) = 1) =>
        \A s \in sent : gelen = <<[block |-> Len(s.bits), bits |-> s.bits]>>

\* How far apart overlapping answers may start: eight half bits for two, three for
\* more.  Further apart they may come to the half bits of a command, and do.
Spread == IF Cardinality(sent) <= 2 THEN 8 * 4 ELSE 3 * 4

\* When several lamps answer at once, each by its own clock and starting within
\* Spread of each other, the controller hears an answer (dali.cpp:481-498): COMPARE
\* must not take such a collision for silence.
CollisionHeard ==
    (/\ Over /\ enabled = 0
     /\ \A s, t \in sent : Len(s.bits) = 8 /\ t.start - s.start <= Spread)
    => back_sem

\* An answer or a command of 16 bits that was cut by switching the interrupt on
\* too late is never taken for a command (dali.cpp:469-490), which would be handed
\* to the callback.
CutFrameIsNoCommand ==
    (\A s \in sent : enabled > s.start + s.half /\ Len(s.bits) <= 16) =>
        \A i \in DOMAIN gelen : gelen[i].block \in {0, 8}
-----------------------------------------------------------------------------
(* What makes SingleFrameReceived and CutFrameIsNoCommand inductive, for one sender *)

\* The level of the line in half bit i of a frame; 0 and 1 are the start bit.
HalfLevel(s, i) ==
    LET bit == IF i \div 2 = 0 THEN 1 ELSE s.bits[i \div 2]
    IN  IF i >= 2 * (Len(s.bits) + 1) THEN 1
        ELSE IF i % 2 = 1 THEN bit ELSE 1 - bit

\* After an edge at half bit e the level is the same x ticks later: within the half
\* bit, within two if the first is the second of its bit, or when the frame is over.
Steady(s, e, x) ==
    \/ x < s.half
    \/ /\ e % 2 = 1 /\ e < 2 * Len(s.bits) /\ x < 2 * s.half
       /\ HalfLevel(s, e + 1) = HalfLevel(s, e)
    \/ e > 2 * Len(s.bits) /\ HalfLevel(s, e) = 1

\* The last edge was at half bit e, x ticks ago, which the timer says.
Since(s, e, x) ==
    /\ now = s.start + e * s.half + x
    /\ level = HalfLevel(s, e) /\ Steady(s, e, x)
    /\ per_runs /\ per = x * Tick

\* Edges of a frame, after its start, and the ticks from one to the next or the alarm.
Edges(s) == 1 .. 2 * Len(s.bits) + 2
Gaps == 0 .. 20

Nothing == paket_queue = <<>> /\ gelen = <<>>

\* Not begun, in its start bit, in its bits or over.
Before(s) ==
    /\ now < s.start /\ level = 1 /\ ~per_runs /\ ~start_bit_begin
    /\ \E q \in Quiet : kom = ((q + now) * Tick) % RELOAD
    /\ Nothing

Starting(s) ==
    /\ ~start_bit_begin /\ bit_count = 0 /\ Hgelen = <<>>
    /\ \E x \in Gaps : Since(s, 0, x)
    /\ Nothing

Receiving(s) ==
    /\ start_bit_begin
    /\ \E e \in Edges(s), x \in Gaps :
          /\ Since(s, e, x)
          /\ bit_count = e - 1
          /\ Hgelen = SubSeq(s.bits, 1, (e - 1) \div 2)
    /\ Nothing

Received(s) ==
    /\ now >= s.start + 2 * s.half * (Len(s.bits) + 1)
    /\ level = 1 /\ ~per_runs /\ ~start_bit_begin
    /\ \/ /\ \E c \in {0, 1} : paket_queue = <<[bits |-> s.bits, count |-> 2 * Len(s.bits) + c]>>
          /\ gelen = <<>>
       \/ /\ paket_queue = <<>>
          /\ gelen = <<[block |-> Len(s.bits), bits |-> s.bits]>>

SingleInv == \A s \in sent : enabled = 0 /\ sent = {s} =>
                Before(s) \/ Starting(s) \/ Receiving(s) \/ Received(s)

\* Of a frame that was cut the receiver counts less than the half bits of a command.
Short == 0 .. 31

ReceiverTypeOK ==
    /\ \E s \in Scene : sent = s.frames /\ enabled = s.enabled
    /\ now \in Nat /\ level \in {0, 1}
    /\ per \in Nat /\ per_runs \in BOOLEAN /\ kom \in Nat
    /\ start_bit_begin \in BOOLEAN /\ bit_count \in Nat /\ Hgelen \in Seq({0, 1})
    /\ paket_queue \in Seq([bits : Seq({0, 1}), count : Nat])
    /\ gelen \in Seq([block : {0, 8, 16, 24}, bits : Seq({0, 1})])
    /\ back_sem \in BOOLEAN

\* The timer of a frame runs from an edge that was seen, which the middle of a start
\* bit follows; the first that is seen is not that of the start bit.
CutInv == \A s \in sent :
    sent = {s} /\ enabled > s.start + s.half /\ Len(s.bits) <= 16 =>
        /\ level = Line(now)
        /\ per_runs => now >= enabled /\ now >= s.start + 2 * s.half
        /\ ~per_runs => ~start_bit_begin /\ (per = 0 \/ per >= ALARM)
        /\ start_bit_begin => \E e \in Edges(s), x \in Gaps : Since(s, e, x) /\ bit_count <= e - 3
        /\ bit_count \in Short
        /\ \A i \in DOMAIN paket_queue : paket_queue[i].count \in Short
        /\ \A i \in DOMAIN gelen : gelen[i].block = 8

ReceiverInv == ReceiverTypeOK /\ SingleInv /\ CutInv
=============================================================================
