------------------------ MODULE MdnsResponderProofs ------------------------
(***************************************************************************)
(* The safety of the names, for every number of controllers, and however   *)
(* often datagrams are lost, links fail and searches interfere.            *)
(***************************************************************************)
EXTENDS MdnsResponder, SequenceTheorems, TLAPS

State == {"OFF", "PROBE_1", "PROBE_2", "PROBE_3",
          "ANNOUNCE_1", "ANNOUNCE_2", "ANNOUNCE_3", "RUNNING"}

LEMMA StateNames == State = {States[i] : i \in DOMAIN States}
<1>1. DOMAIN States = 1 .. 8
  BY DEF States
<1>2. /\ States[1] = "OFF" /\ States[2] = "PROBE_1" /\ States[3] = "PROBE_2"
      /\ States[4] = "PROBE_3" /\ States[5] = "ANNOUNCE_1" /\ States[6] = "ANNOUNCE_2"
      /\ States[7] = "ANNOUNCE_3" /\ States[8] = "RUNNING"
  BY DEF States
<1>3. 1 .. 8 = {1, 2, 3, 4, 5, 6, 7, 8}
  OBVIOUS
<1> QED BY <1>1, <1>2, <1>3 DEF State

LEMMA RankIs ==
    ASSUME NEW i \in DOMAIN States
    PROVE  Rank(States[i]) = i
<1>1. DOMAIN States = 1 .. 8
  BY DEF States
<1>2. \A j \in DOMAIN States : States[j] = States[i] => j = i
  BY <1>1 DEF States
<1> QED BY <1>2 DEF Rank

LEMMA NextStates ==
    /\ NextState("PROBE_1") = "PROBE_2"
    /\ NextState("PROBE_2") = "PROBE_3"
    /\ NextState("PROBE_3") = "ANNOUNCE_1"
    /\ NextState("ANNOUNCE_1") = "ANNOUNCE_2"
    /\ NextState("ANNOUNCE_2") = "ANNOUNCE_3"
<1>1. /\ States[2] = "PROBE_1" /\ States[3] = "PROBE_2" /\ States[4] = "PROBE_3"
      /\ States[5] = "ANNOUNCE_1" /\ States[6] = "ANNOUNCE_2" /\ States[7] = "ANNOUNCE_3"
      /\ DOMAIN States = 1 .. 8
  BY DEF States
<1>2. /\ Rank(States[2]) = 2 /\ Rank(States[3]) = 3 /\ Rank(States[4]) = 4
      /\ Rank(States[5]) = 5 /\ Rank(States[6]) = 6
  BY <1>1, RankIs
<1> QED BY <1>1, <1>2 DEF NextState

LEMMA SentIs ==
    ASSUME NEW s
    PROVE  /\ s.state = "PROBE_1" => Sent(s) = 0
           /\ s.state = "PROBE_2" => Sent(s) = 1
           /\ s.state = "PROBE_3" => Sent(s) = 2
<1>1. /\ 0 + 2 \in 0 .. 4 /\ States[0 + 2] = "PROBE_1" /\ States[1 + 2] = "PROBE_2"
      /\ States[2 + 2] = "PROBE_3"
  BY DEF States
<1>2. 0 .. 2 = {0, 1, 2}
  OBVIOUS
<1> QED BY <1>1, <1>2 DEF Sent

-----------------------------------------------------------------------------
(* One pcb *)

\* What Named asks, and the bounds of Pcb, for the packet of a probe.
LEMMA ProbePackets ==
    ASSUME NEW services \in BOOLEAN, NEW ip \in BOOLEAN
    PROVE  /\ ProbePacket(services, ip) \in Packet
           /\ ProbePacket(services, ip).kind = "probe"
           /\ "srv" \in ProbePacket(services, ip).records <=> services
           /\ "a" \in ProbePacket(services, ip).records <=> ip
BY DEF ProbePacket, Packet

LEMMA ClearedPcb ==
    ASSUME NEW s \in Pcb
    PROVE  /\ Cleared(s) \in Pcb
           /\ Cleared(s).own.kind = "none" /\ Cleared(s).own.records = {}
           /\ Cleared(s).answers = 0
           /\ Cleared(s).host = s.host /\ Cleared(s).inst = s.inst
           /\ Cleared(s).state = s.state /\ Cleared(s).ready = s.ready
           /\ Cleared(s).running = s.running /\ Cleared(s).ip = s.ip
           /\ Cleared(s).services = s.services
           /\ Cleared(s).hostProbes = s.hostProbes /\ Cleared(s).instProbes = s.instProbes
<1>1. None \in Packet
  BY DEF None, Packet
<1> QED BY <1>1, StateNames DEF Cleared, Pcb, None

\* InitProbe: all names that it does not probe for have been probed for.
LEMMA ProbingPcb ==
    ASSUME NEW s \in Pcb, Named(s), NEW service \in BOOLEAN, NEW ip \in BOOLEAN,
           service => s.inst # 0,
           s.host # 0 /\ s.ready =>
               /\ ip \/ s.ip \/ s.hostProbes = 3
               /\ s.inst # 0 => service \/ s.services \/ s.instProbes = 3
    PROVE  /\ InitProbe(s, service, ip) \in Pcb
           /\ PcbInv(InitProbe(s, service, ip))
           /\ InitProbe(s, service, ip).host = s.host
           /\ InitProbe(s, service, ip).ready = s.ready
<1> DEFINE t == InitProbe(s, service, ip)
           c == Cleared(s)
<1>1. /\ c \in Pcb /\ c.own.kind = "none" /\ c.own.records = {} /\ c.answers = 0
      /\ c.host = s.host /\ c.inst = s.inst /\ c.state = s.state /\ c.ready = s.ready
      /\ c.running = s.running /\ c.ip = s.ip /\ c.services = s.services
      /\ c.hostProbes = s.hostProbes /\ c.instProbes = s.instProbes
  BY ClearedPcb
<1>2. CASE s.host = 0
  <2>1. t = [c EXCEPT !.state = "RUNNING"]
    BY <1>2 DEF InitProbe
  <2>2. "RUNNING" \in {States[i] : i \in DOMAIN States}
    BY StateNames DEF State
  <2> HIDE DEF t, c
  <2>3. /\ t \in Pcb /\ t.state = "RUNNING" /\ t.host = 0
        /\ t.own.kind = "none" /\ t.own.records = {} /\ t.answers = 0 /\ t.inst = s.inst
        /\ t.running = s.running /\ t.ip = s.ip /\ t.services = s.services
        /\ t.ready = s.ready
    BY <1>1, <1>2, <2>1, <2>2 DEF Pcb
  <2>4. s.inst = 0 /\ ~s.running /\ ~s.ip /\ ~s.services /\ t.services \in BOOLEAN
    BY <1>2, <2>3 DEF Named, Pcb
  <2>5. ~Probing(t) /\ Answering(t)
    BY <2>3 DEF Probing, Answering, Announcing
  <2>6. Named(t) /\ Scheduled(t)
    BY <2>3, <2>4, <2>5 DEF Named, Scheduled
  <2>7. Counts(t)
    BY <2>3, <2>4, <2>5 DEF Counts
  <2> QED BY <1>2, <2>3, <2>6, <2>7 DEF PcbInv, t
<1>3. CASE s.host # 0
  <2> DEFINE all == service \/ s.services
             host == ip \/ s.ip
  <2>1. t = [c EXCEPT !.own = ProbePacket(all, host),
                      !.services = all, !.ip = host,
                      !.running = TRUE, !.state = "PROBE_1"]
    BY <1>3 DEF InitProbe
  <2>2. all \in BOOLEAN /\ host \in BOOLEAN
    OBVIOUS
  <2> DEFINE probe == ProbePacket(all, host)
  <2>3. /\ probe \in Packet /\ probe.kind = "probe"
        /\ "srv" \in probe.records <=> all
        /\ "a" \in probe.records <=> host
    <3> HIDE DEF all, host
    <3> QED BY <2>2, ProbePackets
  <2>4. "PROBE_1" \in {States[i] : i \in DOMAIN States}
    BY StateNames DEF State
  <2>5. /\ all => s.inst # 0
        /\ s.ready => host \/ s.hostProbes = 3
        /\ s.ready /\ s.inst # 0 => all \/ s.instProbes = 3
    BY <1>3 DEF Named
  <2> HIDE DEF t, c, all, host
  <2>6. t = [c EXCEPT !.own = probe, !.services = all, !.ip = host,
                      !.running = TRUE, !.state = "PROBE_1"]
    BY <2>1
  <2>7. probe = ProbePacket(all, host)
    OBVIOUS
  <2> HIDE DEF probe
  <2>8. /\ t \in Pcb /\ t.state = "PROBE_1" /\ t.own = probe /\ t.services = all
        /\ t.ip = host /\ t.running = TRUE /\ t.answers = 0
        /\ t.host = s.host /\ t.inst = s.inst /\ t.ready = s.ready
        /\ t.hostProbes = s.hostProbes /\ t.instProbes = s.instProbes
    BY <1>1, <2>2, <2>3, <2>4, <2>6 DEF Pcb
  <2>9. Probing(t) /\ ~Answering(t) /\ Sent(t) = 0
    BY <2>8, SentIs DEF Probing, Answering, Announcing
  <2>10. Named(t) /\ Scheduled(t)
    BY <1>3, <2>3, <2>5, <2>8, <2>9 DEF Named, Scheduled
  <2>11. Counts(t)
    <3>1. t.hostProbes \in Nat /\ t.instProbes \in Nat
      BY <2>8 DEF Pcb
    <3> QED BY <1>3, <2>5, <2>7, <2>8, <2>9, <3>1 DEF Counts
  <2> QED BY <2>8, <2>10, <2>11 DEF PcbInv, t
<1> QED BY <1>2, <1>3

LEMMA RestartedPcb ==
    ASSUME NEW s \in Pcb, Named(s)
    PROVE  /\ RestartPcb(s) \in Pcb /\ PcbInv(RestartPcb(s)) /\ RestartPcb(s).host = s.host
           /\ RestartPcb(s).ready = s.ready
BY ProbingPcb DEF RestartPcb

LEMMA ForgottenPcb ==
    ASSUME NEW s \in Pcb, Named(s)
    PROVE  /\ Forgotten(s) \in Pcb /\ Named(Forgotten(s)) /\ Forgotten(s).host = s.host
           /\ ~Forgotten(s).services /\ Forgotten(s).ready = s.ready
BY DEF Forgotten, Pcb, Named

\* A pcb that is down keeps its state; it has nothing scheduled.
LEMMA RestartedAll ==
    ASSUME NEW s \in Pcb, Named(s), s.services => Probing(s)
    PROVE  /\ RestartAll(s) \in Pcb /\ PcbInv(RestartAll(s)) /\ RestartAll(s).host = s.host
           /\ RestartAll(s).ready = s.ready
<1>1. CASE s.ready
  BY <1>1, ForgottenPcb, RestartedPcb DEF RestartAll
<1>2. CASE ~s.ready
  <2> DEFINE t == Cleared(s)
  <2>1. /\ t \in Pcb /\ t.own.kind = "none" /\ t.own.records = {} /\ t.answers = 0
        /\ t.host = s.host /\ t.inst = s.inst /\ t.state = s.state /\ t.ready = s.ready
        /\ t.running = s.running /\ t.ip = s.ip /\ t.services = s.services
    BY ClearedPcb
  <2> HIDE DEF t
  <2>2. PcbInv(t)
    BY <1>2, <2>1 DEF PcbInv, Named, Scheduled, Counts, Probing
  <2> QED BY <1>2, <2>1, <2>2 DEF RestartAll, t
<1> QED BY <1>1, <1>2

LEMMA RenamedHost ==
    ASSUME NEW s \in Pcb, PcbInv(s)
    PROVE  /\ NewHost(s) \in Pcb /\ PcbInv(NewHost(s)) /\ NewHost(s).host # 0
           /\ NewHost(s).ready = s.ready
<1> DEFINE left == s.announced \ {"a", "srv"}
           name == s.host + 1
           t == [s EXCEPT !.host = name, !.hostProbes = 0, !.announced = left]
<1>0. /\ left \in SUBSET {"srv", "a"} /\ name \in Nat /\ name # 0 /\ 0 \in 0 .. 3
      /\ NewHost(s) = RestartAll(t)
  BY DEF Pcb, NewHost, Mangle
<1> HIDE DEF left, name
<1>1. /\ t \in Pcb /\ t.host = name /\ t.inst = s.inst /\ t.state = s.state
      /\ t.own = s.own /\ t.services = s.services /\ t.ready = s.ready
      /\ t.running = s.running /\ t.ip = s.ip
  BY <1>0 DEF Pcb
<1>2. t.host # 0
  BY <1>0, <1>1
<1> HIDE DEF t
<1>3. Named(t) /\ (t.services => Probing(t))
  BY <1>1, <1>2 DEF PcbInv, Named, Scheduled, Probing
<1> QED BY <1>0, <1>1, <1>2, <1>3, RestartedAll

\* A new service is probed for: the host name, when it is not, has been.
LEMMA NewService ==
    ASSUME NEW s \in Pcb, Named(s), s.inst # 0, s.services => Probing(s),
           s.own.kind = "probe" => Probing(s),
           s.own.kind = "announce" => Answering(s),
           s.answers > 0 => Answering(s),
           s.ready => s.ip \/ s.hostProbes = 3
    PROVE  /\ ProbeService(s) \in Pcb /\ PcbInv(ProbeService(s))
           /\ ProbeService(s).host = s.host /\ ProbeService(s).ready = s.ready
<1>1. CASE s.ready
  <2>1. ProbeService(s) = InitProbe(s, TRUE, FALSE)
    BY <1>1 DEF ProbeService
  <2> QED BY <2>1, ProbingPcb
<1>2. CASE ~s.ready
  <2>1. PcbInv(s)
    BY <1>2 DEF PcbInv, Scheduled, Counts
  <2> QED BY <1>2, <2>1 DEF ProbeService
<1> QED BY <1>1, <1>2

\* A pcb that is up and not probing has probed for its names.
LEMMA AnsweringPcb ==
    ASSUME NEW s \in Pcb, PcbInv(s), s.ready
    PROVE  /\ Probing(s) \/ Answering(s)
           /\ s.host # 0 => s.ip \/ s.hostProbes = 3
           /\ s.host # 0 /\ s.inst # 0 => s.services \/ s.instProbes = 3
<1>1. s.state \in State
  BY StateNames DEF Pcb
<1>2. Probing(s) \/ Answering(s)
  BY <1>1 DEF State, PcbInv, Counts, Probing, Answering, Announcing
<1>3. s.hostProbes \in 0 .. 3 /\ s.instProbes \in 0 .. 3
  BY DEF Pcb
<1> QED BY <1>2, <1>3 DEF PcbInv, Counts

LEMMA RenamedInstance ==
    ASSUME NEW s \in Pcb, PcbInv(s), s.inst # 0
    PROVE  /\ NewInstance(s) \in Pcb /\ PcbInv(NewInstance(s))
           /\ NewInstance(s).host = s.host /\ NewInstance(s).ready = s.ready
<1> DEFINE left == s.announced \ {"srv"}
           name == s.inst + 1
           t == [s EXCEPT !.inst = name, !.instProbes = 0, !.announced = left]
<1>0. /\ left \in SUBSET {"srv", "a"} /\ name \in Nat /\ name # 0 /\ 0 \in 0 .. 3
      /\ NewInstance(s) = ProbeService(t)
  BY DEF Pcb, NewInstance, Mangle
<1> HIDE DEF left, name
<1>1. /\ t \in Pcb /\ t.host = s.host /\ t.inst = name /\ t.state = s.state
      /\ t.own = s.own /\ t.services = s.services /\ t.ready = s.ready
      /\ t.running = s.running /\ t.ip = s.ip /\ t.answers = s.answers
      /\ t.hostProbes = s.hostProbes
  BY <1>0 DEF Pcb
<1>2. t.inst # 0 /\ s.host # 0
  BY <1>0, <1>1 DEF PcbInv, Named
<1> HIDE DEF t
<1>3. /\ Named(t) /\ (t.services => Probing(t))
      /\ t.own.kind = "probe" => Probing(t)
      /\ t.own.kind = "announce" => Answering(t)
      /\ t.answers > 0 => Answering(t)
  BY <1>1, <1>2 DEF PcbInv, Named, Scheduled, Probing, Answering, Announcing
<1>4. t.ready => t.ip \/ t.hostProbes = 3
  BY <1>1, <1>2, AnsweringPcb
<1> QED BY <1>0, <1>1, <1>2, <1>3, <1>4, NewService

-----------------------------------------------------------------------------
(* Records change one pcb *)

LEMMA SrvPcb ==
    ASSUME NEW r, r.s \in Pcb, PcbInv(r.s), NEW m
    PROVE  /\ OnSrv(r, m).s \in Pcb /\ PcbInv(OnSrv(r, m).s)
           /\ OnSrv(r, m).s.host = r.s.host /\ OnSrv(r, m).s.ready = r.s.ready
<1> DEFINE s == r.s
<1>1. CASE ~(Contends(s, m) /\ SrvLost(s, m))
  <2>1. OnSrv(r, m) = r
    BY <1>1 DEF OnSrv
  <2> QED BY <2>1
<1>2. CASE Contends(s, m) /\ SrvLost(s, m)
  <2>1. s.inst # 0 /\ s.host # 0
    BY <1>2 DEF SrvLost, PcbInv, Named
  <2>2. CASE s.running
    <3>1. OnSrv(r, m).s = NewInstance(s)
      BY <1>2, <2>2 DEF OnSrv
    <3> QED BY <2>1, <3>1, RenamedInstance
  <2>3. CASE ~s.running
    <3>1. OnSrv(r, m).s = InitProbe(s, TRUE, FALSE)
      BY <1>2, <2>3 DEF OnSrv
    <3>2. s.ready => s.ip \/ s.hostProbes = 3
      BY <2>1, AnsweringPcb
    <3> QED BY <2>1, <3>1, <3>2, ProbingPcb DEF PcbInv
  <2> QED BY <2>2, <2>3
<1> QED BY <1>1, <1>2

LEMMA APcb ==
    ASSUME NEW d, NEW r, r.s \in Pcb, PcbInv(r.s), NEW m
    PROVE  /\ OnA(d, r, m).s \in Pcb /\ PcbInv(OnA(d, r, m).s)
           /\ OnA(d, r, m).s.host = r.s.host \/ m.src > d
           /\ r.s.host # 0 => OnA(d, r, m).s.host # 0
           /\ OnA(d, r, m).s.ready = r.s.ready
<1> DEFINE s == r.s
<1>1. CASE ~(ALost(d, s, m) /\ ~TakenForResult(s, m))
  <2>1. OnA(d, r, m) = r
    BY <1>1 DEF OnA
  <2> QED BY <2>1
<1>2. CASE ALost(d, s, m) /\ ~TakenForResult(s, m)
  <2>1. s.host # 0 /\ m.src > d
    BY <1>2 DEF ALost
  <2>2. CASE s.running
    <3>1. OnA(d, r, m).s = NewHost(s)
      BY <1>2, <2>2 DEF OnA
    <3> QED BY <2>1, <3>1, RenamedHost
  <2>3. CASE ~s.running
    <3>1. OnA(d, r, m).s = InitProbe(s, FALSE, TRUE)
      BY <1>2, <2>3 DEF OnA
    <3>2. s.ready /\ s.inst # 0 => s.services \/ s.instProbes = 3
      BY <2>1, AnsweringPcb
    <3> QED BY <2>1, <3>1, <3>2, ProbingPcb DEF PcbInv
  <2> QED BY <2>2, <2>3
<1> QED BY <1>1, <1>2

\* The flag that a search is under way, and an answer to be sent later.
LEMMA MarkedPcb ==
    ASSUME NEW s \in Pcb, PcbInv(s), NEW flag \in BOOLEAN
    PROVE  LET t == [s EXCEPT !.searching = flag] IN
           t \in Pcb /\ PcbInv(t) /\ t.host = s.host
<1> DEFINE t == [s EXCEPT !.searching = flag]
<1>1. /\ t \in Pcb /\ t.host = s.host /\ t.inst = s.inst /\ t.state = s.state
      /\ t.own = s.own /\ t.services = s.services /\ t.ready = s.ready
      /\ t.running = s.running /\ t.ip = s.ip /\ t.answers = s.answers
      /\ t.hostProbes = s.hostProbes /\ t.instProbes = s.instProbes
  BY DEF Pcb
<1> HIDE DEF t
<1>2. PcbInv(t)
  BY <1>1 DEF PcbInv, Named, Scheduled, Counts, Probing, Answering, Announcing, Sent
<1> QED BY <1>1, <1>2 DEF t

LEMMA AnswerPcb ==
    ASSUME NEW s \in Pcb, PcbInv(s), Answering(s), s.inst # 0
    PROVE  LET t == [s EXCEPT !.answers = @ + 1] IN
           t \in Pcb /\ PcbInv(t) /\ t.host = s.host
<1> DEFINE t == [s EXCEPT !.answers = @ + 1]
<1>1. /\ t \in Pcb /\ t.host = s.host /\ t.inst = s.inst /\ t.state = s.state
      /\ t.own = s.own /\ t.services = s.services /\ t.ready = s.ready
      /\ t.running = s.running /\ t.ip = s.ip
      /\ t.hostProbes = s.hostProbes /\ t.instProbes = s.instProbes
  BY DEF Pcb
<1> HIDE DEF t
<1>2. PcbInv(t)
  BY <1>1 DEF PcbInv, Named, Scheduled, Counts, Probing, Answering, Announcing, Sent
<1> QED BY <1>1, <1>2 DEF t

-----------------------------------------------------------------------------
(* Sending changes one pcb *)

LEMMA CountedPcb ==
    ASSUME NEW s \in Pcb
    PROVE  LET t == Counted(s) IN
           /\ t \in Pcb
           /\ t.host = s.host /\ t.inst = s.inst /\ t.state = s.state /\ t.ready = s.ready
           /\ t.running = s.running /\ t.ip = s.ip /\ t.services = s.services
           /\ t.own = s.own /\ t.answers = s.answers
           /\ t.hostProbes >= s.hostProbes /\ t.instProbes >= s.instProbes
           /\ s.ready /\ "a" \in s.own.records =>
                 t.hostProbes = 3 \/ t.hostProbes >= s.hostProbes + 1
           /\ s.ready /\ "srv" \in s.own.records =>
                 t.instProbes = 3 \/ t.instProbes >= s.instProbes + 1
<1> DEFINE h == IF s.ready /\ "a" \in s.own.records /\ s.hostProbes < 3
                THEN s.hostProbes + 1 ELSE s.hostProbes
           i == IF s.ready /\ "srv" \in s.own.records /\ s.instProbes < 3
                THEN s.instProbes + 1 ELSE s.instProbes
           t == [s EXCEPT !.hostProbes = h, !.instProbes = i]
<1>1. Counted(s) = t
  BY DEF Counted
<1>2. s.hostProbes \in 0 .. 3 /\ s.instProbes \in 0 .. 3
  BY DEF Pcb
<1>3. /\ h \in 0 .. 3 /\ i \in 0 .. 3 /\ h >= s.hostProbes /\ i >= s.instProbes
      /\ s.ready /\ "a" \in s.own.records => h = 3 \/ h >= s.hostProbes + 1
      /\ s.ready /\ "srv" \in s.own.records => i = 3 \/ i >= s.instProbes + 1
  BY <1>2
<1> HIDE DEF h, i
<1>4. /\ t \in Pcb
      /\ t.host = s.host /\ t.inst = s.inst /\ t.state = s.state /\ t.ready = s.ready
      /\ t.running = s.running /\ t.ip = s.ip /\ t.services = s.services
      /\ t.own = s.own /\ t.answers = s.answers
      /\ t.hostProbes = h /\ t.instProbes = i
  BY <1>3 DEF Pcb
<1> QED BY <1>1, <1>3, <1>4

LEMMA AnnouncePackets ==
    ASSUME NEW probe \in Packet
    PROVE  /\ AnnouncePacket(probe) \in Packet
           /\ AnnouncePacket(probe).kind = "announce"
           /\ "srv" \in AnnouncePacket(probe).records => "srv" \in probe.records
           /\ "a" \in AnnouncePacket(probe).records =>
                 "a" \in probe.records \/ "srv" \in probe.records
BY DEF AnnouncePacket, Packet

LEMMA ProbedPcb ==
    ASSUME NEW s \in Pcb, PcbInv(s), s.own.kind = "probe"
    PROVE  LET t == AfterProbe(Counted(s)) IN
           t \in Pcb /\ PcbInv(t) /\ t.host = s.host
<1> DEFINE c == Counted(s)
           t == AfterProbe(c)
<1>1. /\ c \in Pcb
      /\ c.host = s.host /\ c.inst = s.inst /\ c.state = s.state /\ c.ready = s.ready
      /\ c.running = s.running /\ c.ip = s.ip /\ c.services = s.services
      /\ c.own = s.own /\ c.answers = s.answers
      /\ c.hostProbes >= s.hostProbes /\ c.instProbes >= s.instProbes
      /\ s.ready /\ "a" \in s.own.records =>
            c.hostProbes = 3 \/ c.hostProbes >= s.hostProbes + 1
      /\ s.ready /\ "srv" \in s.own.records =>
            c.instProbes = 3 \/ c.instProbes >= s.instProbes + 1
  BY CountedPcb
<1>2. /\ Probing(s) /\ ~Answering(s)
      /\ s.hostProbes \in 0 .. 3 /\ s.instProbes \in 0 .. 3
      /\ c.hostProbes \in 0 .. 3 /\ c.instProbes \in 0 .. 3
      /\ s.ip \in BOOLEAN /\ s.services \in BOOLEAN /\ s.answers \in Nat
  BY <1>1 DEF PcbInv, Scheduled, Probing, Answering, Announcing, Pcb
<1>3. s.answers = 0
  BY <1>2 DEF PcbInv, Scheduled
\* A record that is probed for was sent once more, the others had been already.
<1>4. ASSUME s.ready
      PROVE  /\ s.host # 0
             /\ s.own = ProbePacket(s.services, s.ip)
             /\ IF s.ip THEN c.hostProbes = 3 \/ c.hostProbes >= Sent(s) + 1
                        ELSE c.hostProbes = 3
             /\ s.inst # 0 =>
                   IF s.services THEN c.instProbes = 3 \/ c.instProbes >= Sent(s) + 1
                                 ELSE c.instProbes = 3
  <2>1. /\ "srv" \in ProbePacket(s.services, s.ip).records <=> s.services
        /\ "a" \in ProbePacket(s.services, s.ip).records <=> s.ip
    BY <1>2, ProbePackets
  <2>2. Sent(s) \in 0 .. 2
    BY <1>2, SentIs DEF Probing
  <2>3. /\ s.host # 0
        /\ s.own = ProbePacket(s.services, s.ip)
        /\ s.hostProbes >= IF s.ip THEN Sent(s) ELSE 3
        /\ s.inst # 0 => s.instProbes >= IF s.services THEN Sent(s) ELSE 3
    BY <1>2, <1>4 DEF PcbInv, Counts
  <2> HIDE DEF c
  <2>4. IF s.ip THEN c.hostProbes = 3 \/ c.hostProbes >= Sent(s) + 1
                ELSE c.hostProbes = 3
    BY <1>1, <1>2, <1>4, <2>1, <2>2, <2>3
  <2>5. s.inst # 0 =>
           IF s.services THEN c.instProbes = 3 \/ c.instProbes >= Sent(s) + 1
                         ELSE c.instProbes = 3
    BY <1>1, <1>2, <1>4, <2>1, <2>2, <2>3
  <2> QED BY <2>3, <2>4, <2>5
<1> HIDE DEF c
<1>5. CASE s.state \in {"PROBE_1", "PROBE_2"}
  <2>1. PICK next \in {"PROBE_2", "PROBE_3"} :
             /\ t = [c EXCEPT !.state = next]
             /\ next = IF s.state = "PROBE_1" THEN "PROBE_2" ELSE "PROBE_3"
    BY <1>1, <1>5, NextStates DEF AfterProbe
  <2>2. next \in {States[i] : i \in DOMAIN States}
    BY <2>1, StateNames DEF State
  <2> HIDE DEF t
  <2>3. /\ t \in Pcb /\ t.state = next
        /\ t.host = s.host /\ t.inst = s.inst /\ t.ready = s.ready
        /\ t.running = s.running /\ t.ip = s.ip /\ t.services = s.services
        /\ t.own = s.own /\ t.answers = s.answers
        /\ t.hostProbes = c.hostProbes /\ t.instProbes = c.instProbes
    BY <1>1, <2>1, <2>2 DEF Pcb
  <2>4. Probing(t) /\ ~Answering(t) /\ Sent(t) = Sent(s) + 1 /\ Sent(t) \in 1 .. 2
    <3>1. Probing(t) /\ ~Answering(t)
      BY <2>1, <2>3 DEF Probing, Answering, Announcing
    <3>2. CASE s.state = "PROBE_1"
      <4>1. t.state = "PROBE_2"
        BY <2>1, <2>3, <3>2
      <4>2. Sent(s) = 0 /\ Sent(t) = 1
        BY <3>2, <4>1, SentIs
      <4> QED BY <3>1, <4>2
    <3>3. CASE s.state = "PROBE_2"
      <4>1. t.state = "PROBE_3"
        BY <2>1, <2>3, <3>3
      <4>2. Sent(s) = 1 /\ Sent(t) = 2
        BY <3>3, <4>1, SentIs
      <4> QED BY <3>1, <4>2
    <3> QED BY <1>5, <3>2, <3>3
  <2>5. Named(t) /\ Scheduled(t)
    BY <1>3, <2>3, <2>4 DEF PcbInv, Named, Scheduled
  <2>6. Counts(t)
    <3>1. s.ready => s.state # "OFF" /\ (s.running <=> Probing(s))
      BY DEF PcbInv, Counts
    <3> QED BY <1>2, <1>4, <2>1, <2>3, <2>4, <3>1 DEF Counts
  <2> QED BY <2>3, <2>5, <2>6 DEF PcbInv, t, c
<1>6. CASE s.state = "PROBE_3"
  <2> DEFINE packet == AnnouncePacket(c.own)
  <2>1. t = [c EXCEPT !.state = "ANNOUNCE_1", !.own = packet,
                      !.running = FALSE, !.ip = FALSE, !.services = FALSE]
    <3>1. c.state \notin {"PROBE_1", "PROBE_2"} /\ NextState(c.state) = "ANNOUNCE_1"
      BY <1>1, <1>6, NextStates
    <3> QED BY <3>1, Zenon DEF AfterProbe
  <2>2. "ANNOUNCE_1" \in {States[i] : i \in DOMAIN States}
    BY StateNames DEF State
  <2>3. c.own \in Packet
    BY <1>1 DEF Pcb
  <2>4. /\ packet \in Packet /\ packet.kind = "announce"
        /\ "srv" \in packet.records => "srv" \in s.own.records
        /\ "a" \in packet.records => "a" \in s.own.records \/ "srv" \in s.own.records
    BY <1>1, <2>3, AnnouncePackets
  <2> HIDE DEF t, packet
  <2>5. /\ t \in Pcb /\ t.state = "ANNOUNCE_1" /\ t.own = packet
        /\ t.host = s.host /\ t.inst = s.inst /\ t.ready = s.ready
        /\ t.running = FALSE /\ t.ip = FALSE /\ t.services = FALSE
        /\ t.answers = s.answers
        /\ t.hostProbes = c.hostProbes /\ t.instProbes = c.instProbes
    BY <1>1, <2>1, <2>2, <2>4 DEF Pcb
  <2>6. ~Probing(t) /\ Answering(t) /\ Sent(s) = 2
    BY <1>6, <2>5, SentIs DEF Probing, Answering, Announcing
  <2>7. Named(t) /\ Scheduled(t)
    BY <1>3, <2>4, <2>5, <2>6 DEF PcbInv, Named, Scheduled
  <2>8. Counts(t)
    BY <1>2, <1>4, <2>5, <2>6 DEF Counts
  <2> QED BY <2>5, <2>7, <2>8 DEF PcbInv, t, c
<1> QED BY <1>2, <1>5, <1>6 DEF Probing

\* Whatever leaves the queue, a pcb that announces goes on announcing or runs.
LEMMA AnnouncedPcb ==
    ASSUME NEW s \in Pcb, PcbInv(s), NEW done \in Pcb, PcbInv(done),
           done.state = s.state, done.host = s.host
    PROVE  LET t == AfterAnnounce(s, done) IN
           t \in Pcb /\ PcbInv(t) /\ t.host = s.host
<1>1. ASSUME NEW u \in Pcb, PcbInv(u), Announcing(u), NEW next,
             next \in {"ANNOUNCE_2", "ANNOUNCE_3", "RUNNING"}
      PROVE  LET t == [u EXCEPT !.state = next] IN
             t \in Pcb /\ PcbInv(t) /\ t.host = u.host
  <2> DEFINE t == [u EXCEPT !.state = next]
  <2>1. next \in {States[i] : i \in DOMAIN States}
    BY <1>1, StateNames DEF State
  <2>2. /\ t \in Pcb /\ t.state = next /\ t.host = u.host /\ t.inst = u.inst
        /\ t.own = u.own /\ t.services = u.services /\ t.ready = u.ready
        /\ t.running = u.running /\ t.ip = u.ip /\ t.answers = u.answers
        /\ t.hostProbes = u.hostProbes /\ t.instProbes = u.instProbes
    BY <2>1 DEF Pcb
  <2> HIDE DEF t
  <2>3. /\ ~Probing(t) /\ Answering(t) /\ ~Probing(u) /\ Answering(u)
        /\ t.state # "OFF"
    BY <1>1, <2>2 DEF Probing, Answering, Announcing
  <2>4. PcbInv(t)
    BY <1>1, <2>2, <2>3 DEF PcbInv, Named, Scheduled, Counts
  <2> QED BY <2>2, <2>4 DEF t
<1>2. CASE s.state \in {"ANNOUNCE_1", "ANNOUNCE_2"}
  <2>1. \E next \in {"ANNOUNCE_2", "ANNOUNCE_3", "RUNNING"} :
           AfterAnnounce(s, done) = [s EXCEPT !.state = next]
    BY <1>2, NextStates DEF AfterAnnounce
  <2> QED BY <1>1, <1>2, <2>1 DEF Announcing
<1>3. CASE s.state = "ANNOUNCE_3"
  <2>1. AfterAnnounce(s, done) = [done EXCEPT !.state = "RUNNING"]
    BY <1>3 DEF AfterAnnounce
  <2> QED BY <1>1, <1>3, <2>1 DEF Announcing
<1>4. CASE s.state \notin {"ANNOUNCE_1", "ANNOUNCE_2", "ANNOUNCE_3"}
  BY <1>4 DEF AfterAnnounce
<1> QED BY <1>2, <1>3, <1>4

-----------------------------------------------------------------------------
(* The controllers *)

Boxes == [Devices -> Seq(Action)]
Places == {"init", "hostname", "service", "subtype", "ready"}

\* A step of one controller changes its pcb and its place in initialise_mdns.
LEMMA FrameNames ==
    ASSUME NamesInv, NEW d \in Devices, NEW t \in Pcb, PcbInv(t), NEW p \in Places,
           dev' = [dev EXCEPT ![d] = t], main' = [main EXCEPT ![d] = p],
           inbox' \in Boxes, events' \in [Devices -> Seq({"enable", "disable"})],
           p = "service" => t.host # 0,
           d = Largest => t.host \in {0, 1}
    PROVE  NamesInv'
<1>1. TypeOK'
  BY DEF NamesInv, TypeOK, Boxes, Places
<1>2. \A e \in Devices : /\ dev'[e] = IF e = d THEN t ELSE dev[e]
                         /\ main'[e] = IF e = d THEN p ELSE main[e]
  BY DEF NamesInv, TypeOK
<1>3. \A e \in Devices : PcbInv(dev'[e])
  BY <1>2 DEF NamesInv
<1>4. \A e \in Devices : main'[e] = "service" => dev'[e].host # 0
  BY <1>2 DEF NamesInv
<1>5. Largest \in Devices
  BY DevicesAssumption DEF Largest
<1>6. dev'[Largest].host \in {0, 1}
  BY <1>2, <1>5 DEF NamesInv, LargestKeepsHost
<1> QED BY <1>1, <1>3, <1>4, <1>6 DEF NamesInv, LargestKeepsHost

\* Most steps keep the host name and the place.
LEMMA FramePcb ==
    ASSUME NamesInv, NEW d \in Devices, NEW t \in Pcb, PcbInv(t),
           t.host = dev[d].host,
           dev' = [dev EXCEPT ![d] = t], main' = main,
           inbox' \in Boxes, events' \in [Devices -> Seq({"enable", "disable"})]
    PROVE  NamesInv'
<1>1. /\ main[d] \in Places /\ main' = [main EXCEPT ![d] = main[d]]
      /\ main[d] = "service" => t.host # 0
      /\ d = Largest => t.host \in {0, 1}
  BY DEF NamesInv, TypeOK, Places, LargestKeepsHost
<1> QED BY <1>1, FrameNames

\* The queues after a datagram, an action more or an action less.
LEMMA Delivered ==
    ASSUME NEW boxes \in Boxes, NEW d \in Devices, NEW m, NEW to,
           dev[d].ready => m \in Datagram, Deliver(boxes, d, m, to)
    PROVE  inbox' \in Boxes
<1>1. PICK missed \in SUBSET Heard(d, to) :
          inbox' = [o \in Devices |-> IF o \in Heard(d, to) \ missed
                                      THEN Append(boxes[o], m) ELSE boxes[o]]
  BY DEF Deliver
<1>2. ASSUME NEW o \in Devices
      PROVE  (IF o \in Heard(d, to) \ missed
              THEN Append(boxes[o], m) ELSE boxes[o]) \in Seq(Action)
  <2>1. boxes[o] \in Seq(Action)
    BY DEF Boxes
  <2>2. CASE o \in Heard(d, to) \ missed
    <3>1. m \in Action
      BY <2>2 DEF Heard, Action
    <3>2. Append(boxes[o], m) \in Seq(Action)
      BY <2>1, <3>1, AppendProperties
    <3> QED BY <2>2, <3>2
  <2> QED BY <2>1, <2>2
<1> QED BY <1>1, <1>2 DEF Boxes

LEMMA OneTaken ==
    ASSUME NamesInv, NEW d \in Devices, inbox[d] # <<>>
    PROVE  /\ Head(inbox[d]) \in Action
           /\ [inbox EXCEPT ![d] = Tail(@)] \in Boxes
<1>1. inbox \in Boxes /\ inbox[d] \in Seq(Action)
  BY DEF NamesInv, TypeOK, Boxes
<1>2. Head(inbox[d]) \in Action /\ Tail(inbox[d]) \in Seq(Action)
  BY <1>1, HeadTailProperties
<1> QED BY <1>1, <1>2 DEF Boxes

LEMMA OneMore ==
    ASSUME NamesInv, NEW d \in Devices, NEW type \in {"enable", "disable", "hostname"}
    PROVE  [inbox EXCEPT ![d] = Append(@, [type |-> type])] \in Boxes
<1>1. inbox \in Boxes /\ inbox[d] \in Seq(Action) /\ [type |-> type] \in Action
  BY DEF NamesInv, TypeOK, Boxes, Action
<1>2. Append(inbox[d], [type |-> type]) \in Seq(Action)
  BY <1>1, AppendProperties
<1> QED BY <1>1, <1>2 DEF Boxes

\* A message is a query, or its names have been probed for.
LEMMA Messages ==
    ASSUME NEW d \in Devices, NEW s \in Pcb, NEW query \in BOOLEAN, NEW records,
           query \/ /\ "srv" \in records => s.instProbes = 3
                    /\ "a" \in records => s.hostProbes = 3
    PROVE  Message(d, s, query, records) \in Datagram
BY DEF Message, Datagram, Pcb

\* What a pcb that is up answers and announces.
LEMMA ResponseProbed ==
    ASSUME NEW s \in Pcb, PcbInv(s), s.ready, Answering(s), NEW records,
           "srv" \in records => s.inst # 0,
           "a" \in records => s.host # 0
    PROVE  /\ "srv" \in records => s.instProbes = 3
           /\ "a" \in records => s.hostProbes = 3
BY DEF PcbInv, Counts

-----------------------------------------------------------------------------
LEMMA InitNames == Init => NamesInv
<1> SUFFICES ASSUME Init PROVE NamesInv
  OBVIOUS
<1>1. /\ Silent \in Pcb /\ Silent.host = 0 /\ PcbInv(Silent)
  <2>1. "OFF" \in {States[i] : i \in DOMAIN States} /\ None \in Packet
    BY StateNames DEF State, None, Packet
  <2>2. Silent \in Pcb
    BY <2>1 DEF Silent, Pcb
  <2> QED BY <2>2 DEF Silent, None, PcbInv, Named, Scheduled, Counts
<1>2. <<>> \in Seq(Action) /\ <<>> \in Seq({"enable", "disable"})
  OBVIOUS
<1>3. TypeOK
  BY <1>1, <1>2 DEF Init, TypeOK
<1>4. Largest \in Devices
  BY DevicesAssumption DEF Largest
<1> QED BY <1>1, <1>3, <1>4 DEF Init, NamesInv, LargestKeepsHost

LEMMA SendProbeNames ==
    ASSUME NamesInv, NEW d \in Devices, SendProbe(d)
    PROVE  NamesInv'
<1> DEFINE s == dev[d]
           t == AfterProbe(Counted(s))
<1>1. s \in Pcb /\ PcbInv(s) /\ s.own.kind = "probe" /\ inbox \in Boxes
  BY DEF SendProbe, NamesInv, TypeOK, Boxes
<1>2. t \in Pcb /\ PcbInv(t) /\ t.host = s.host
  BY <1>1, ProbedPcb
<1>3. Message(d, s, TRUE, s.own.records) \in Datagram
  BY <1>1, Messages
<1>4. /\ dev' = [dev EXCEPT ![d] = t] /\ UNCHANGED <<main, link, events>>
      /\ Deliver(inbox, d, Message(d, s, TRUE, s.own.records), Devices)
  BY DEF SendProbe
<1> HIDE DEF t
<1>5. inbox' \in Boxes
  BY <1>1, <1>3, <1>4, Delivered
<1> QED BY <1>2, <1>4, <1>5, FramePcb DEF NamesInv, TypeOK

LEMMA SendAnnounceNames ==
    ASSUME NamesInv, NEW d \in Devices, SendAnnounce(d)
    PROVE  NamesInv'
<1> DEFINE s == dev[d]
           all == IF s.ready THEN s.announced \cup s.own.records ELSE s.announced
           out == [s EXCEPT !.announced = all]
           done == [out EXCEPT !.own = None]
           t == AfterAnnounce(out, done)
<1>1. s \in Pcb /\ PcbInv(s) /\ s.own.kind = "announce" /\ inbox \in Boxes
  BY DEF SendAnnounce, NamesInv, TypeOK, Boxes
<1>2. all \in SUBSET {"srv", "a"} /\ None \in Packet
  BY <1>1 DEF Pcb, Packet, None
<1>3. /\ dev' = [dev EXCEPT ![d] = t] /\ UNCHANGED <<main, link, events>>
      /\ Deliver(inbox, d, Message(d, s, FALSE, s.own.records), Devices)
  BY DEF SendAnnounce
<1>4. dev[d].ready => Message(d, s, FALSE, s.own.records) \in Datagram
  <2> SUFFICES ASSUME s.ready PROVE Message(d, s, FALSE, s.own.records) \in Datagram
    OBVIOUS
  <2>1. /\ Answering(s)
        /\ "srv" \in s.own.records => s.inst # 0
        /\ "a" \in s.own.records => s.host # 0
    BY <1>1 DEF PcbInv, Named, Scheduled
  <2> QED BY <1>1, <2>1, Messages, ResponseProbed
<1> HIDE DEF all
<1>5. /\ out \in Pcb /\ out.own = s.own /\ done \in Pcb /\ done.own = None
      /\ \A x \in {out, done} :
            /\ x.host = s.host /\ x.inst = s.inst /\ x.state = s.state
            /\ x.services = s.services /\ x.ready = s.ready /\ x.running = s.running
            /\ x.ip = s.ip /\ x.answers = s.answers
            /\ x.hostProbes = s.hostProbes /\ x.instProbes = s.instProbes
  BY <1>1, <1>2 DEF Pcb
<1> HIDE DEF out, done
<1>6. ~Probing(s) /\ s.own.kind = "announce"
  BY <1>1 DEF PcbInv, Scheduled, Probing, Answering, Announcing
<1>7. PcbInv(out)
  BY <1>1, <1>5 DEF PcbInv, Named, Scheduled, Counts, Probing, Answering, Announcing, Sent
<1>8. PcbInv(done)
  BY <1>1, <1>5, <1>6 DEF PcbInv, Named, Scheduled, Counts, Probing, Answering,
                          Announcing, None
<1>9. t \in Pcb /\ PcbInv(t) /\ t.host = s.host
  BY <1>5, <1>7, <1>8, AnnouncedPcb
<1> HIDE DEF t
<1>10. inbox' \in Boxes
  BY <1>1, <1>3, <1>4, Delivered
<1> QED BY <1>3, <1>9, <1>10, FramePcb DEF NamesInv, TypeOK

LEMMA SendAnswerNames ==
    ASSUME NamesInv, NEW d \in Devices, SendAnswer(d)
    PROVE  NamesInv'
<1> DEFINE s == dev[d]
           done == [s EXCEPT !.answers = s.answers - 1]
           t == AfterAnnounce(s, done)
<1>1. s \in Pcb /\ PcbInv(s) /\ s.answers \in Nat /\ s.answers > 0 /\ inbox \in Boxes
  BY DEF SendAnswer, NamesInv, TypeOK, Boxes, Pcb
<1>2. /\ dev' = [dev EXCEPT ![d] = t] /\ UNCHANGED <<main, link, events>>
      /\ Deliver(inbox, d, Message(d, s, FALSE, {"srv", "a"}), Devices)
  BY DEF SendAnswer
<1>3. dev[d].ready => Message(d, s, FALSE, {"srv", "a"}) \in Datagram
  <2> SUFFICES ASSUME s.ready PROVE Message(d, s, FALSE, {"srv", "a"}) \in Datagram
    OBVIOUS
  <2>1. Answering(s) /\ s.inst # 0 /\ s.host # 0
    BY <1>1 DEF PcbInv, Named, Scheduled
  <2> QED BY <1>1, <2>1, Messages, ResponseProbed
<1>4. /\ done \in Pcb /\ done.host = s.host /\ done.inst = s.inst /\ done.state = s.state
      /\ done.own = s.own /\ done.answers = s.answers - 1
      /\ done.services = s.services /\ done.ready = s.ready /\ done.running = s.running
      /\ done.ip = s.ip
      /\ done.hostProbes = s.hostProbes /\ done.instProbes = s.instProbes
  <2>1. s.answers - 1 \in Nat
    BY <1>1
  <2> QED BY <1>1, <2>1 DEF Pcb
<1> HIDE DEF done
<1>5. PcbInv(done)
  BY <1>1, <1>4 DEF PcbInv, Named, Scheduled, Counts, Probing, Answering, Announcing, Sent
<1>6. t \in Pcb /\ PcbInv(t) /\ t.host = s.host
  BY <1>1, <1>4, <1>5, AnnouncedPcb
<1> HIDE DEF t
<1>7. inbox' \in Boxes
  BY <1>1, <1>2, <1>3, Delivered
<1> QED BY <1>2, <1>6, <1>7, FramePcb DEF NamesInv, TypeOK

LEMMA ReceiveNames ==
    ASSUME NamesInv, NEW d \in Devices, Receive(d)
    PROVE  NamesInv'
<1> DEFINE s == dev[d]
           m == Head(inbox[d])
           r0 == [s |-> s, reply |-> TRUE]
           r == OnA(d, OnSrv(r0, m), m)
           t == r.s
           boxes == [inbox EXCEPT ![d] = Tail(@)]
           sent == r.reply /\ m.query /\ ~m.ptr /\ Answering(t) /\ Reply(t, m) # {}
           later == m.ptr /\ Answering(t) /\ t.inst # 0
           u == IF later THEN [t EXCEPT !.answers = @ + 1] ELSE t
<1>1. s \in Pcb /\ PcbInv(s) /\ inbox[d] # <<>> /\ UNCHANGED <<main, link, events>>
  BY DEF Receive, NamesInv, TypeOK
<1>2. m \in Action /\ boxes \in Boxes
  BY <1>1, OneTaken
<1>3. m.src \in Devices
  <2>1. m.type = "rx"
    BY DEF Receive
  <2> HIDE DEF m
  <2> QED BY <1>2, <2>1 DEF Action, Datagram
<1>4. \/ sent /\ dev' = [dev EXCEPT ![d] = t]
         /\ \E to : Deliver(boxes, d, Message(d, t, FALSE, Reply(t, m)), to)
      \/ ~sent /\ dev' = [dev EXCEPT ![d] = u] /\ inbox' = boxes
  BY DEF Receive, Parse
<1>5. r0.s = s
  OBVIOUS
<1> HIDE DEF r0, m, boxes
<1>6. /\ OnSrv(r0, m).s \in Pcb /\ PcbInv(OnSrv(r0, m).s)
      /\ OnSrv(r0, m).s.host = s.host /\ OnSrv(r0, m).s.ready = s.ready
  BY <1>1, <1>5, SrvPcb
<1>7. /\ t \in Pcb /\ PcbInv(t) /\ t.ready = s.ready
      /\ t.host = s.host \/ m.src > d
      /\ s.host # 0 => t.host # 0
  BY <1>6, APcb
<1> HIDE DEF r
<1>8. u \in Pcb /\ PcbInv(u) /\ u.host = t.host
  BY <1>7, AnswerPcb
<1>9. inbox' \in Boxes
  <2>1. CASE ~sent
    BY <1>2, <1>4, <2>1
  <2>2. CASE sent
    <3>1. ASSUME s.ready PROVE Message(d, t, FALSE, Reply(t, m)) \in Datagram
      <4>1. /\ "srv" \in Reply(t, m) => t.inst # 0
            /\ "a" \in Reply(t, m) => t.host # 0
        BY <1>7 DEF Reply, PcbInv, Named
      <4> HIDE DEF t
      <4> QED BY <1>7, <2>2, <3>1, <4>1, ResponseProbed, Messages
    <3> QED BY <1>2, <1>4, <2>2, <3>1, Delivered
  <2> QED BY <2>1, <2>2
<1> DEFINE v == IF sent THEN t ELSE u
<1>10. v \in Pcb /\ PcbInv(v) /\ v.host = t.host /\ dev' = [dev EXCEPT ![d] = v]
  BY <1>4, <1>7, <1>8
<1> HIDE DEF v, t, u, sent
<1>11. /\ main[d] \in Places /\ main' = [main EXCEPT ![d] = main[d]]
       /\ events' \in [Devices -> Seq({"enable", "disable"})]
       /\ main[d] = "service" => v.host # 0
  BY <1>1, <1>7, <1>10 DEF NamesInv, TypeOK, Places
<1>12. d = Largest => v.host \in {0, 1}
  <2>1. d = Largest => m.src <= d
    BY <1>3, DevicesAssumption DEF Largest
  <2>2. m.src \in Nat /\ d \in Nat
    BY <1>3, DevicesAssumption
  <2>3. d = Largest => s.host \in {0, 1}
    BY DEF NamesInv, LargestKeepsHost
  <2> QED BY <1>7, <1>10, <2>1, <2>2, <2>3
<1> QED BY <1>9, <1>10, <1>11, <1>12, FrameNames

\* The other actions of the mdns task.
LEMMA EnabledPcb ==
    ASSUME NEW s \in Pcb, PcbInv(s)
    PROVE  LET t == RestartPcb([s EXCEPT !.ready = TRUE]) IN
           t \in Pcb /\ PcbInv(t) /\ t.host = s.host
<1> DEFINE t == [s EXCEPT !.ready = TRUE]
<1>1. t \in Pcb /\ Named(t) /\ t.host = s.host
  BY DEF Pcb, PcbInv, Named
<1> HIDE DEF t
<1>2. RestartPcb(t) \in Pcb /\ PcbInv(RestartPcb(t)) /\ RestartPcb(t).host = s.host
  BY <1>1, RestartedPcb
<1> QED BY <1>2 DEF t

LEMMA EnableNames ==
    ASSUME NamesInv, NEW d \in Devices, Enable(d)
    PROVE  NamesInv'
<1> DEFINE s == dev[d]
           t == IF s.ready \/ link[d] THEN RestartPcb([s EXCEPT !.ready = TRUE]) ELSE s
<1>1. s \in Pcb /\ PcbInv(s)
  BY DEF NamesInv, TypeOK
<1>2. t \in Pcb /\ PcbInv(t) /\ t.host = s.host
  BY <1>1, EnabledPcb
<1>3. dev' = [dev EXCEPT ![d] = t] /\ UNCHANGED <<main, events>>
  BY DEF Enable
<1>4. inbox' \in Boxes
  BY OneTaken DEF Enable
<1> HIDE DEF t
<1> QED BY <1>2, <1>3, <1>4, FramePcb DEF NamesInv, TypeOK

LEMMA DisableNames ==
    ASSUME NamesInv, NEW d \in Devices, Disable(d)
    PROVE  NamesInv'
<1> DEFINE s == dev[d]
           c == Cleared(Forgotten(s))
           t == [c EXCEPT !.state = "OFF", !.ready = FALSE, !.ip = FALSE]
<1>1. s \in Pcb /\ PcbInv(s)
  BY DEF NamesInv, TypeOK
<1>2. /\ Forgotten(s) \in Pcb /\ Forgotten(s).host = s.host
      /\ Named(Forgotten(s)) /\ ~Forgotten(s).services
  BY <1>1, ForgottenPcb DEF PcbInv
<1>3. /\ c \in Pcb /\ c.own.kind = "none" /\ c.own.records = {} /\ c.answers = 0
      /\ c.host = s.host /\ c.inst = Forgotten(s).inst /\ ~c.services
      /\ c.running = Forgotten(s).running
  BY <1>2, ClearedPcb
<1>4. "OFF" \in {States[i] : i \in DOMAIN States}
  BY StateNames DEF State
<1>5. dev' = [dev EXCEPT ![d] = t] /\ UNCHANGED <<main, events>>
  BY DEF Disable
<1> HIDE DEF c
<1>6. /\ t \in Pcb /\ ~t.ready /\ t.own.kind = "none" /\ t.own.records = {}
      /\ t.answers = 0 /\ t.host = s.host /\ t.inst = c.inst /\ ~t.services /\ ~t.ip
      /\ t.running = c.running
  BY <1>3, <1>4 DEF Pcb
<1> HIDE DEF t
<1>7. PcbInv(t)
  BY <1>2, <1>3, <1>6 DEF PcbInv, Named, Scheduled, Counts
<1>8. inbox' \in Boxes
  BY OneTaken DEF Disable
<1> QED BY <1>5, <1>6, <1>7, <1>8, FramePcb DEF NamesInv, TypeOK

LEMMA SetHostnameNames ==
    ASSUME NamesInv, NEW d \in Devices, SetHostname(d)
    PROVE  NamesInv'
<1> DEFINE s == dev[d]
           n == [s EXCEPT !.host = 1]
           t == RestartAll(n)
<1>1. s \in Pcb /\ PcbInv(s)
  BY DEF NamesInv, TypeOK
<1>2. n \in Pcb /\ n.host = 1 /\ Named(n) /\ (n.services => Probing(n))
  BY <1>1 DEF Pcb, PcbInv, Named, Scheduled, Probing
<1>3. /\ dev' = [dev EXCEPT ![d] = t] /\ main' = [main EXCEPT ![d] = "service"]
      /\ events' = events
  BY DEF SetHostname
<1> HIDE DEF n
<1>4. t \in Pcb /\ PcbInv(t) /\ t.host = 1
  BY <1>2, RestartedAll
<1>5. inbox' \in Boxes
  BY OneTaken DEF SetHostname
<1> HIDE DEF t
<1>6. "service" \in Places /\ events' \in [Devices -> Seq({"enable", "disable"})]
  BY <1>3 DEF Places, NamesInv, TypeOK
<1>7. t.host # 0 /\ t.host \in {0, 1}
  BY <1>4
<1> QED BY <1>3, <1>4, <1>5, <1>6, <1>7, FrameNames

-----------------------------------------------------------------------------
(* app_main and the event loop *)

LEMMA StartNames ==
    ASSUME NamesInv, NEW d \in Devices, Start(d)
    PROVE  NamesInv'
<1> DEFINE s == dev[d]
           t == RestartPcb([s EXCEPT !.ready = TRUE])
<1>1. s \in Pcb /\ PcbInv(s)
  BY DEF NamesInv, TypeOK
<1>2. t \in Pcb /\ PcbInv(t) /\ t.host = s.host
  BY <1>1, EnabledPcb
<1>3. /\ dev' = [dev EXCEPT ![d] = t] /\ main' = [main EXCEPT ![d] = "hostname"]
      /\ events' = events
  BY DEF Start
<1>4. inbox' \in Boxes
  BY OneMore DEF Start
<1>5. /\ "hostname" \in Places /\ events' \in [Devices -> Seq({"enable", "disable"})]
      /\ d = Largest => s.host \in {0, 1}
  BY <1>3 DEF Places, NamesInv, TypeOK, LargestKeepsHost
<1> HIDE DEF t
<1> QED BY <1>2, <1>3, <1>4, <1>5, FrameNames

LEMMA AddServiceNames ==
    ASSUME NamesInv, NEW d \in Devices, AddService(d)
    PROVE  NamesInv'
<1> DEFINE s == dev[d]
           n == [s EXCEPT !.inst = 1]
           t == ProbeService(n)
<1>1. s \in Pcb /\ PcbInv(s) /\ s.host # 0
  BY DEF AddService, NamesInv, TypeOK
<1>2. /\ dev' = [dev EXCEPT ![d] = t] /\ main' = [main EXCEPT ![d] = "subtype"]
      /\ UNCHANGED <<inbox, events>>
  BY DEF AddService
<1>3. /\ n \in Pcb /\ n.inst = 1 /\ n.host = s.host /\ n.state = s.state
      /\ n.own = s.own /\ n.services = s.services /\ n.ready = s.ready
      /\ n.running = s.running /\ n.ip = s.ip /\ n.answers = s.answers
      /\ n.hostProbes = s.hostProbes
  BY <1>1 DEF Pcb
<1> HIDE DEF n
<1>4. /\ Named(n) /\ (n.services => Probing(n))
      /\ n.own.kind = "probe" => Probing(n)
      /\ n.own.kind = "announce" => Answering(n)
      /\ n.answers > 0 => Answering(n)
  BY <1>1, <1>3 DEF PcbInv, Named, Scheduled, Probing, Answering, Announcing
<1>5. n.ready => n.ip \/ n.hostProbes = 3
  BY <1>1, <1>3, AnsweringPcb
<1>6. t \in Pcb /\ PcbInv(t) /\ t.host = s.host
  BY <1>3, <1>4, <1>5, NewService
<1> HIDE DEF t
<1>7. /\ "subtype" \in Places /\ events' \in [Devices -> Seq({"enable", "disable"})]
      /\ inbox' \in Boxes /\ (d = Largest => s.host \in {0, 1})
  BY <1>2 DEF Places, NamesInv, TypeOK, LargestKeepsHost, Boxes
<1> QED BY <1>2, <1>6, <1>7, FrameNames

LEMMA AddSubtypeNames ==
    ASSUME NamesInv, NEW d \in Devices, AddSubtype(d)
    PROVE  NamesInv'
<1>1. /\ dev' = dev /\ dev[d] \in Pcb /\ PcbInv(dev[d])
      /\ dev' = [dev EXCEPT ![d] = dev[d]]
      /\ main' = [main EXCEPT ![d] = "ready"] /\ "ready" \in Places
      /\ events' \in [Devices -> Seq({"enable", "disable"})] /\ inbox' \in Boxes
      /\ d = Largest => dev[d].host \in {0, 1}
  BY DEF AddSubtype, NamesInv, TypeOK, Boxes, Places, LargestKeepsHost
<1> QED BY <1>1, FrameNames

LEMMA PanicNames ==
    ASSUME NamesInv, NEW d \in Devices, Panic(d)
    PROVE  NamesInv'
<1>1. Silent \in Pcb /\ Silent.host = 0 /\ PcbInv(Silent)
  <2>1. "OFF" \in {States[i] : i \in DOMAIN States} /\ None \in Packet
    BY StateNames DEF State, None, Packet
  <2>2. Silent \in Pcb
    BY <2>1 DEF Silent, Pcb
  <2> QED BY <2>2 DEF Silent, None, PcbInv, Named, Scheduled, Counts
<1>2. /\ dev' = [dev EXCEPT ![d] = Silent] /\ main' = [main EXCEPT ![d] = "init"]
      /\ inbox' = [inbox EXCEPT ![d] = <<>>] /\ events' = [events EXCEPT ![d] = <<>>]
  BY DEF Panic
<1>3. /\ <<>> \in Seq(Action) /\ <<>> \in Seq({"enable", "disable"})
      /\ "init" \in Places
  BY DEF Places
<1>4. inbox' \in Boxes /\ events' \in [Devices -> Seq({"enable", "disable"})]
  BY <1>2, <1>3 DEF NamesInv, TypeOK, Boxes
<1> QED BY <1>1, <1>2, <1>3, <1>4, FrameNames

LEMMA SearchNames ==
    ASSUME NamesInv, NEW d \in Devices, BeginSearch(d) \/ EndSearch(d)
    PROVE  NamesInv'
<1> DEFINE s == dev[d]
<1>1. s \in Pcb /\ PcbInv(s)
  BY DEF NamesInv, TypeOK
<1>2. PICK flag \in BOOLEAN : dev' = [dev EXCEPT ![d] = [s EXCEPT !.searching = flag]]
  BY DEF BeginSearch, EndSearch
<1> DEFINE t == [s EXCEPT !.searching = flag]
<1>3. t \in Pcb /\ PcbInv(t) /\ t.host = s.host
  BY <1>1, MarkedPcb
<1> HIDE DEF t
<1>4. inbox' \in Boxes
  <2>1. inbox \in Boxes
    BY DEF NamesInv, TypeOK, Boxes
  <2>2. CASE EndSearch(d)
    BY <2>1, <2>2 DEF EndSearch
  <2>3. CASE BeginSearch(d)
    <3>1. Search(d) \in Action
      BY DEF Search, Action, Datagram
    <3>2. \A o \in Devices : Append(inbox[o], Search(d)) \in Seq(Action)
      BY <2>1, <3>1, AppendProperties DEF Boxes
    <3>3. inbox' = [o \in Devices |-> IF o \in Heard(d, Devices)
                                      THEN Append(inbox[o], Search(d)) ELSE inbox[o]]
      BY <2>3 DEF BeginSearch
    <3>4. \A o \in Devices : (IF o \in Heard(d, Devices) THEN Append(inbox[o], Search(d))
                              ELSE inbox[o]) \in Seq(Action)
      BY <2>1, <3>2 DEF Boxes
    <3> QED BY <3>3, <3>4 DEF Boxes
  <2> QED BY <2>2, <2>3
<1>5. main' = main /\ events' = events
  BY DEF BeginSearch, EndSearch
<1> QED BY <1>2, <1>3, <1>4, <1>5, FramePcb DEF NamesInv, TypeOK, t

\* The cable, the driver's events, and steps that change nothing.
LEMMA LinkNames ==
    ASSUME NamesInv, NEW d \in Devices, Unplug(d) \/ Plug(d) \/ SystemEvent(d)
    PROVE  NamesInv'
<1>1. UNCHANGED <<main, dev>>
  BY DEF Unplug, Plug, SystemEvent
<1>2. /\ dev[d] \in Pcb /\ PcbInv(dev[d]) /\ dev' = [dev EXCEPT ![d] = dev[d]]
      /\ inbox \in Boxes
      /\ events \in [Devices -> Seq({"enable", "disable"})]
  BY <1>1 DEF NamesInv, TypeOK, Boxes
<1>3. events[d] \in Seq({"enable", "disable"})
  BY <1>2
<1>4. events' \in [Devices -> Seq({"enable", "disable"})]
  <2>1. \E e \in Seq({"enable", "disable"}) : events' = [events EXCEPT ![d] = e]
    <3>1. \A x \in {"enable", "disable"} :
             Append(events[d], x) \in Seq({"enable", "disable"})
      BY <1>3, AppendProperties
    <3>2. events[d] # <<>> => Tail(events[d]) \in Seq({"enable", "disable"})
      BY <1>3, HeadTailProperties
    <3> QED BY <3>1, <3>2 DEF Unplug, Plug, SystemEvent
  <2> QED BY <1>2, <2>1
<1>5. inbox' \in Boxes
  <2>1. events[d] # <<>> => Head(events[d]) \in {"enable", "disable"}
    BY <1>3, HeadTailProperties
  <2> QED BY <1>2, <2>1, OneMore DEF Unplug, Plug, SystemEvent
<1> QED BY <1>1, <1>2, <1>4, <1>5, FramePcb

-----------------------------------------------------------------------------
LEMMA NextNames == NamesInv /\ [Next]_vars => NamesInv'
<1> SUFFICES ASSUME NamesInv, [Next]_vars PROVE NamesInv'
  OBVIOUS
<1>1. ASSUME NEW d \in Devices, Device(d) PROVE NamesInv'
  <2>1. CASE Work(d)
    BY <2>1, ReceiveNames, EnableNames, DisableNames, SetHostnameNames DEF Work
  <2>2. CASE Send(d)
    BY <2>2, SendProbeNames, SendAnnounceNames, SendAnswerNames DEF Send
  <2>3. CASE Boot(d)
    BY <2>3, StartNames, AddServiceNames, AddSubtypeNames, PanicNames DEF Boot
  <2> QED BY <1>1, <2>1, <2>2, <2>3, SearchNames, LinkNames DEF Device
<1>2. CASE UNCHANGED vars
  <2>1. UNCHANGED <<main, dev, inbox, events>>
    BY <1>2 DEF vars
  <2> QED BY <2>1 DEF NamesInv, TypeOK, LargestKeepsHost
<1> QED BY <1>1, <1>2 DEF Next

(* The list of the services that are probed for exists only while the pcb  *)
(* is probing, so the new list that _mdns_init_pcb_probe_new_service       *)
(* allocates has room for the old one (mdns.c:2258-2282).                  *)
THEOREM OldListFits == Spec => []ProbeListFits
<1>1. NamesInv => ProbeListFits
  BY DEF NamesInv, PcbInv, Scheduled, ProbeListFits
<1> QED BY <1>1, InitNames, NextNames, PTL DEF Spec

(* No announcement and no answer carries a name that has not been probed   *)
(* for three times: what a pcb does not probe for it has probed for, every *)
(* new name starts from none, and a pcb answers only when it has finished. *)
THEOREM NothingUnprobedLeaves == Spec => []ProbedFirst
<1>1. NamesInv => ProbedFirst
  <2> SUFFICES ASSUME NamesInv, NEW d \in Devices, NEW i \in DOMAIN inbox[d],
                      inbox[d][i].type = "rx"
               PROVE  inbox[d][i].query \/ inbox[d][i].probed
    BY DEF ProbedFirst
  <2>1. inbox[d] \in Seq(Action)
    BY DEF NamesInv, TypeOK
  <2>2. inbox[d][i] \in Action
    BY <2>1, ElementOfSeq, LenProperties
  <2> QED BY <2>2 DEF Action, Datagram
<1> QED BY <1>1, InitNames, NextNames, PTL DEF Spec

(* The controller with the largest address keeps its host name: only a     *)
(* larger address wins a conflict (mdns.c:2981-3010).                      *)
THEOREM LargestAddressWins == Spec => []LargestKeepsHost
<1>1. NamesInv => LargestKeepsHost
  BY DEF NamesInv
<1> QED BY <1>1, InitNames, NextNames, PTL DEF Spec
=============================================================================
