---------------------------- MODULE MdnsResponder ----------------------------
(***************************************************************************)
(* The mDNS responder (managed_components/espressif__mdns/mdns.c) as the   *)
(* controllers use it (main/tools/smqmdns.cpp): each claims one host name  *)
(* and one instance of _http._tcp, both from the same setting, so two      *)
(* controllers on a network begin with the same names and settle the       *)
(* conflict by probing, mangling and announcing.                           *)
(*                                                                         *)
(* One IPv4 interface per controller; a controller is named by its         *)
(* address.  A name is 1 for the configured one, n for the one mangled to  *)
(* "...-n", and 0 for none: a longer suffix is the larger name, which is   *)
(* the order _mdns_check_srv_collision compares by.  All TXT records are   *)
(* alike.  Times are abstracted to the order of sending: the answer to a   *)
(* search may leave before or after a scheduled announcement.              *)
(***************************************************************************)
EXTENDS Naturals, Sequences

CONSTANTS Devices,      \* the controllers, by IPv4 address
          MaxLost,      \* bound: datagrams lost on the network
          MaxDown,      \* bound: link failures
          MaxSearch,    \* bound: searches (find_mdns)
          MaxFaults,    \* bound: lost datagrams, link failures and searches together
          MaxFlight     \* bound: actions queued before a scheduled packet is sent

(* There are finitely many controllers, so one has the largest address. *)
ASSUME DevicesAssumption == /\ Devices \subseteq Nat
                            /\ \E d \in Devices : \A o \in Devices : o <= d

VARIABLES
    main,       \* main[d]: where app_main of d stands in initialise_mdns
    dev,        \* dev[d]: the names of d and the state of its pcb
    inbox,      \* inbox[d]: the action queue of d
    link,       \* link[d]: whether the network cable of d is in
    events,     \* events[d]: driver events that the event loop of d has not handled
    faults      \* datagrams lost, link failures and searches so far

vars == <<main, dev, inbox, link, events, faults>>

None == [kind |-> "none", records |-> {}]

(* The order of mdns_pcb_state_t. *)
States == <<"OFF", "PROBE_1", "PROBE_2", "PROBE_3",
            "ANNOUNCE_1", "ANNOUNCE_2", "ANNOUNCE_3", "RUNNING">>
Rank(state) == CHOOSE i \in DOMAIN States : States[i] = state
NextState(state) == States[Rank(state) + 1]

Probing(s) == s.state \in {"PROBE_1", "PROBE_2", "PROBE_3"}
Announcing(s) == s.state \in {"ANNOUNCE_1", "ANNOUNCE_2", "ANNOUNCE_3"}

(* A controller before mdns_init. *)
Silent == [host |-> 0, inst |-> 0, state |-> "OFF", ready |-> FALSE,
           running |-> FALSE, ip |-> FALSE, services |-> FALSE,
           own |-> None, answers |-> 0, searching |-> FALSE,
           hostProbes |-> 0, instProbes |-> 0, announced |-> {}]

(***************************************************************************)
(* Probing.                                                                *)
(***************************************************************************)

(* A scheduled probe asks for the names of its records. *)
ProbePacket(services, ip) ==
    [kind |-> "probe",
     records |-> (IF services THEN {"srv"} ELSE {}) \cup (IF ip THEN {"a"} ELSE {})]

(* An announcement repeats the records of the probe; a service brings its *)
(* host along.                                                            *)
AnnouncePacket(probe) ==
    [kind |-> "announce",
     records |-> probe.records \cup (IF "srv" \in probe.records THEN {"a"} ELSE {})]

Cleared(s) == [s EXCEPT !.own = None, !.answers = 0]

(* service: the service is among those to probe; ip: so is the host name. *)
InitProbe(s, service, ip) ==
    IF s.host = 0
    THEN [Cleared(s) EXCEPT !.state = "RUNNING"]
    ELSE LET all == service \/ s.services
             host == ip \/ s.ip
         IN  [Cleared(s) EXCEPT !.own = ProbePacket(all, host),
                                !.services = all, !.ip = host,
                                !.running = TRUE, !.state = "PROBE_1"]

Forgotten(s) == [s EXCEPT !.services = FALSE, !.running = FALSE]

RestartPcb(s) == InitProbe(s, s.inst # 0, TRUE)

RestartAll(s) == IF s.ready THEN RestartPcb(Forgotten(s)) ELSE Cleared(s)

ProbeService(s) == IF s.ready THEN InitProbe(s, TRUE, FALSE) ELSE s

(* The next name of a row: "-2" is appended, or the number counted up. *)
Mangle(name) == name + 1

NewHost(s) ==
    RestartAll([s EXCEPT !.host = Mangle(@), !.hostProbes = 0,
                         !.announced = @ \ {"a", "srv"}])

NewInstance(s) ==
    ProbeService([s EXCEPT !.inst = Mangle(@), !.instProbes = 0,
                           !.announced = @ \ {"srv"}])

(***************************************************************************)
(* Datagrams.  A query carries questions; a response is authoritative.     *)
(***************************************************************************)

Search(d) == [type |-> "rx", src |-> d, query |-> TRUE, ptr |-> TRUE, unicast |-> FALSE,
              sinst |-> 0, shost |-> 0, ahost |-> 0, probed |-> TRUE]

(* The records of a packet as _mdns_dispatch_tx_packet writes them: the   *)
(* names are those of the moment it is sent.                              *)
Message(d, s, query, records) ==
    [type |-> "rx", src |-> d, query |-> query, ptr |-> FALSE,
     unicast |-> query /\ s.state = "PROBE_1",
     sinst |-> IF "srv" \in records THEN s.inst ELSE 0,
     shost |-> IF "srv" \in records THEN s.host ELSE 0,
     ahost |-> IF "a" \in records THEN s.host ELSE 0,
     probed |-> /\ "srv" \in records => s.instProbes = 3
                /\ "a" \in records => s.hostProbes = 3]

Spare == faults.lost + faults.downs + faults.searches < MaxFaults

(* Those that a datagram of d reaches. *)
Heard(d, to) ==
    {o \in to \ {d} : link[d] /\ dev[d].ready /\ link[o] /\ dev[o].ready}

(* The network delivers m to those addressed, except a few. *)
Deliver(boxes, d, m, to) ==
    \E missed \in SUBSET Heard(d, to) :
        /\ missed # {} => faults.lost < MaxLost /\ Spare
        /\ faults' = [faults EXCEPT !.lost = IF missed = {} THEN @ ELSE @ + 1]
        /\ inbox' = [o \in Devices |-> IF o \in Heard(d, to) \ missed
                                       THEN Append(boxes[o], m) ELSE boxes[o]]

Room == \A o \in Devices : Len(inbox[o]) < MaxFlight

(***************************************************************************)
(* Sending what is scheduled: ACTION_TX_HANDLE.                            *)
(***************************************************************************)

Counted(s) ==
    [s EXCEPT !.hostProbes = IF s.ready /\ "a" \in s.own.records /\ @ < 3 THEN @ + 1 ELSE @,
              !.instProbes = IF s.ready /\ "srv" \in s.own.records /\ @ < 3 THEN @ + 1 ELSE @]

(* Faulty: the probed services stay on the list. *)
AfterProbeKeepsList(s) ==
    IF s.state \in {"PROBE_1", "PROBE_2"}
    THEN [s EXCEPT !.state = NextState(@)]
    ELSE [s EXCEPT !.state = NextState(@), !.own = AnnouncePacket(@),
                   !.running = FALSE, !.ip = FALSE]

(* Faulty: two probes are taken for enough. *)
AfterSecondProbe(s) ==
    IF s.state = "PROBE_1"
    THEN [s EXCEPT !.state = NextState(@)]
    ELSE [s EXCEPT !.state = "ANNOUNCE_1", !.own = AnnouncePacket(@),
                   !.running = FALSE, !.ip = FALSE, !.services = FALSE]

(* What becomes of the pcb once its probe is out. *)
AfterProbe(s) ==
    IF s.state \in {"PROBE_1", "PROBE_2"}
    THEN [s EXCEPT !.state = NextState(@)]
    ELSE [s EXCEPT !.state = NextState(@), !.own = AnnouncePacket(@),
                   !.running = FALSE, !.ip = FALSE, !.services = FALSE]

(* Any other packet sent while announcing counts as an announcement, and  *)
(* is kept to be sent again; done tells how the packet leaves the queue.  *)
AfterAnnounce(s, done) ==
    IF s.state \in {"ANNOUNCE_1", "ANNOUNCE_2"} THEN [s EXCEPT !.state = NextState(@)]
    ELSE IF s.state = "ANNOUNCE_3" THEN [done EXCEPT !.state = "RUNNING"]
    ELSE done

SendProbe(d) ==
    LET s == dev[d] IN
    /\ s.own.kind = "probe"
    /\ Room
    /\ dev' = [dev EXCEPT ![d] = AfterProbe(Counted(s))]
    /\ Deliver(inbox, d, Message(d, s, TRUE, s.own.records), Devices)
    /\ UNCHANGED <<main, link, events>>

SendAnnounce(d) ==
    LET s == dev[d]
        out == [s EXCEPT !.announced = IF s.ready THEN @ \cup s.own.records ELSE @]
    IN  /\ s.own.kind = "announce"
        /\ Room
        /\ dev' = [dev EXCEPT ![d] = AfterAnnounce(out, [out EXCEPT !.own = None])]
        /\ Deliver(inbox, d, Message(d, s, FALSE, s.own.records), Devices)
        /\ UNCHANGED <<main, link, events>>

(* The answer to a search, scheduled when the search was heard. *)
SendAnswer(d) ==
    LET s == dev[d] IN
    /\ s.answers > 0
    /\ Room
    /\ dev' = [dev EXCEPT ![d] = AfterAnnounce(s, [s EXCEPT !.answers = @ - 1])]
    /\ Deliver(inbox, d, Message(d, s, FALSE, {"srv", "a"}), Devices)
    /\ UNCHANGED <<main, link, events>>

(***************************************************************************)
(* Receiving: mdns_parse_packet.  The records change the pcb one after the *)
(* other; reply becomes FALSE when one of them is a lost conflict.         *)
(***************************************************************************)

IsOurs(s, m) == \/ s.host # 0 /\ m.ahost = s.host
                \/ s.inst # 0 /\ m.sinst = s.inst

(* A probe for one of our names, or a response, can be a conflict. *)
Contends(s, m) == ~m.query \/ IsOurs(s, m)

(* _mdns_check_srv_collision: the larger data win, equal data agree. *)
SrvLost(s, m) == m.sinst # 0 /\ m.sinst = s.inst /\ m.shost > s.host

OnSrv(r, m) ==
    LET s == r.s IN
    IF Contends(s, m) /\ SrvLost(s, m)
    THEN [s |-> IF s.running THEN NewInstance(s) ELSE InitProbe(s, TRUE, FALSE),
          reply |-> FALSE]
    ELSE r

(* Faulty: the smaller address wins. *)
ALostToSmaller(d, s, m) == m.ahost # 0 /\ m.ahost = s.host /\ m.src < d

(* Faulty: a conflict is settled while probing only. *)
OnAProbing(d, r, m) ==
    IF r.s.running /\ m.ahost # 0 /\ m.ahost = r.s.host /\ m.src > d
    THEN [s |-> NewHost(r.s), reply |-> FALSE] ELSE r

(* _mdns_check_a_collision: the larger address wins. *)
ALost(d, s, m) == m.ahost # 0 /\ m.ahost = s.host /\ m.src > d

(* An SRV record of another instance is taken for a running search, and   *)
(* search_result keeps it for the A record that follows.                  *)
TakenForResult(s, m) == s.searching /\ ~m.query /\ m.sinst \notin {0, s.inst}

OnA(d, r, m) ==
    LET s == r.s IN
    IF ALost(d, s, m) /\ ~TakenForResult(s, m)
    THEN [s |-> IF s.running THEN NewHost(s) ELSE InitProbe(s, FALSE, TRUE),
          reply |-> FALSE]
    ELSE r

(* What a probe of ours is answered with, at once. *)
Reply(s, m) == (IF s.inst # 0 /\ m.sinst = s.inst THEN {"srv", "a"} ELSE {})
               \cup (IF s.host # 0 /\ m.ahost = s.host THEN {"a"} ELSE {})

Answering(s) == Announcing(s) \/ s.state = "RUNNING"

Parse(d, m) ==
    LET s == dev[d]
        r == OnA(d, OnSrv([s |-> s, reply |-> TRUE], m), m)
        t == r.s
        boxes == [inbox EXCEPT ![d] = Tail(@)]
    IN  IF r.reply /\ m.query /\ ~m.ptr /\ Answering(t) /\ Reply(t, m) # {}
        THEN /\ dev' = [dev EXCEPT ![d] = t]
             /\ Deliver(boxes, d, Message(d, t, FALSE, Reply(t, m)),
                        IF m.unicast THEN {m.src} ELSE Devices)
        ELSE /\ dev' = [dev EXCEPT ![d] =
                   IF m.ptr /\ Answering(t) /\ t.inst # 0
                   THEN [t EXCEPT !.answers = @ + 1] ELSE t]
             /\ inbox' = boxes
             /\ UNCHANGED faults

(* The mdns task takes the next action of its queue. *)
Receive(d) ==
    /\ inbox[d] # <<>>
    /\ Head(inbox[d]).type = "rx"
    /\ Parse(d, Head(inbox[d]))
    /\ UNCHANGED <<main, link, events>>

Enable(d) ==
    /\ inbox[d] # <<>>
    /\ Head(inbox[d]).type = "enable"
    /\ dev' = [dev EXCEPT ![d] = IF @.ready \/ link[d]
                                 THEN RestartPcb([@ EXCEPT !.ready = TRUE]) ELSE @]
    /\ inbox' = [inbox EXCEPT ![d] = Tail(@)]
    /\ UNCHANGED <<main, link, events, faults>>

Disable(d) ==
    /\ inbox[d] # <<>>
    /\ Head(inbox[d]).type = "disable"
    /\ dev' = [dev EXCEPT ![d] =
           [Cleared(Forgotten(@)) EXCEPT !.state = "OFF", !.ready = FALSE, !.ip = FALSE]]
    /\ inbox' = [inbox EXCEPT ![d] = Tail(@)]
    /\ UNCHANGED <<main, link, events, faults>>

(* ACTION_HOSTNAME_SET; app_main waits for it. *)
SetHostname(d) ==
    /\ inbox[d] # <<>>
    /\ Head(inbox[d]).type = "hostname"
    /\ dev' = [dev EXCEPT ![d] = RestartAll([@ EXCEPT !.host = 1])]
    /\ main' = [main EXCEPT ![d] = "service"]
    /\ inbox' = [inbox EXCEPT ![d] = Tail(@)]
    /\ UNCHANGED <<link, events, faults>>

Work(d) == Receive(d) \/ Enable(d) \/ Disable(d) \/ SetHostname(d)

(* A packet is scheduled for 120 ms or more after it was made, and the    *)
(* subtype is added in the same breath as the service.                    *)
Send(d) == main[d] # "subtype" /\ (SendProbe(d) \/ SendAnnounce(d) \/ SendAnswer(d))

(***************************************************************************)
(* app_main in initialise_mdns, and the event loop's find_mdns.            *)
(***************************************************************************)

(* mdns_init and mdns_hostname_set: the interface is up, nameless. *)
Start(d) ==
    /\ main[d] = "init"
    /\ link[d]
    /\ dev' = [dev EXCEPT ![d] = RestartPcb([@ EXCEPT !.ready = TRUE])]
    /\ inbox' = [inbox EXCEPT ![d] = Append(@, [type |-> "hostname"])]
    /\ main' = [main EXCEPT ![d] = "hostname"]
    /\ UNCHANGED <<link, events, faults>>

AddService(d) ==
    /\ main[d] = "service"
    /\ dev' = [dev EXCEPT ![d] = ProbeService([@ EXCEPT !.inst = 1])]
    /\ main' = [main EXCEPT ![d] = "subtype"]
    /\ UNCHANGED <<inbox, link, events, faults>>

(* The service is looked up by the configured name once more. *)
AddSubtype(d) ==
    /\ main[d] = "subtype"
    /\ dev[d].inst = 1
    /\ main' = [main EXCEPT ![d] = "ready"]
    /\ UNCHANGED <<dev, inbox, link, events, faults>>

(* ESP_ERROR_CHECK of a lookup that fails: the controller restarts. *)
Panic(d) ==
    /\ main[d] = "subtype"
    /\ dev[d].inst # 1
    /\ main' = [main EXCEPT ![d] = "init"]
    /\ dev' = [dev EXCEPT ![d] = Silent]
    /\ inbox' = [inbox EXCEPT ![d] = <<>>]
    /\ events' = [events EXCEPT ![d] = <<>>]
    /\ UNCHANGED <<link, faults>>

Boot(d) == Start(d) \/ AddService(d) \/ AddSubtype(d) \/ Panic(d)

(* query_mdns_service: ACTION_SEARCH_ADD and the first ACTION_SEARCH_SEND. *)
BeginSearch(d) ==
    /\ main[d] = "ready" /\ ~dev[d].searching
    /\ faults.searches < MaxSearch /\ Spare
    /\ Room
    /\ dev' = [dev EXCEPT ![d].searching = TRUE]
    /\ inbox' = [o \in Devices |-> IF o \in Heard(d, Devices)
                                   THEN Append(inbox[o], Search(d)) ELSE inbox[o]]
    /\ faults' = [faults EXCEPT !.searches = @ + 1]
    /\ UNCHANGED <<main, link, events>>

EndSearch(d) ==
    /\ dev[d].searching
    /\ dev' = [dev EXCEPT ![d].searching = FALSE]
    /\ UNCHANGED <<main, inbox, link, events, faults>>

(***************************************************************************)
(* The cable.  The event loop hands the driver's events to the queue as    *)
(* actions, and not before a search that keeps it waiting has ended.       *)
(***************************************************************************)
Unplug(d) ==
    /\ link[d] /\ main[d] # "init"
    /\ faults.downs < MaxDown /\ Spare
    /\ link' = [link EXCEPT ![d] = FALSE]
    /\ events' = [events EXCEPT ![d] = Append(@, "disable")]
    /\ faults' = [faults EXCEPT !.downs = @ + 1]
    /\ UNCHANGED <<main, dev, inbox>>

Plug(d) ==
    /\ ~link[d]
    /\ link' = [link EXCEPT ![d] = TRUE]
    /\ events' = [events EXCEPT ![d] = Append(@, "enable")]
    /\ UNCHANGED <<main, dev, inbox, faults>>

(* Without a server (before mdns_init) the event is dropped. *)
SystemEvent(d) ==
    /\ events[d] # <<>> /\ ~dev[d].searching
    /\ events' = [events EXCEPT ![d] = Tail(@)]
    /\ inbox' = IF main[d] = "init" THEN inbox
                ELSE [inbox EXCEPT ![d] = Append(@, [type |-> Head(events[d])])]
    /\ UNCHANGED <<main, dev, link, faults>>

Init ==
    /\ main = [d \in Devices |-> "init"]
    /\ dev = [d \in Devices |-> Silent]
    /\ inbox = [d \in Devices |-> <<>>]
    /\ link = [d \in Devices |-> TRUE]
    /\ events = [d \in Devices |-> <<>>]
    /\ faults = [lost |-> 0, downs |-> 0, searches |-> 0]

Device(d) == \/ Work(d) \/ Send(d) \/ Boot(d)
             \/ BeginSearch(d) \/ EndSearch(d) \/ Unplug(d) \/ Plug(d)
             \/ SystemEvent(d)

Next == \E d \in Devices : Device(d)

Spec == Init /\ [][Next]_vars

(* The tasks of a controller run, its timer fires, a search ends after its *)
(* three seconds, and somebody puts the cable back.                        *)
Fairness == \A d \in Devices :
    /\ WF_vars(Work(d)) /\ WF_vars(Boot(d)) /\ WF_vars(EndSearch(d)) /\ WF_vars(Plug(d))
    /\ WF_vars(SystemEvent(d))
    /\ SF_vars(Send(d))

FairSpec == Spec /\ Fairness
(***************************************************************************)
(* Properties.                                                             *)
(***************************************************************************)

(* _mdns_init_pcb_probe_new_service allocates the list for the new services *)
(* only, unless the pcb is probing, and copies the old list behind them:    *)
(* outside probing there must be no old list (mdns.c:2258-2282).            *)
ProbeListFits == \A d \in Devices : dev[d].services => Probing(dev[d])

(* No response carries a name that was not probed for three times: neither *)
(* an announcement nor an answer claims what another may own.              *)
ProbedFirst == \A d \in Devices : \A i \in DOMAIN inbox[d] :
    inbox[d][i].type = "rx" => inbox[d][i].query \/ inbox[d][i].probed

(* Of two controllers with one host name the larger address keeps it: the  *)
(* largest of all is never renamed (mdns.c:2981-3010).                     *)
Largest == CHOOSE d \in Devices : \A o \in Devices : o <= d
LargestKeepsHost == dev[Largest].host \in {0, 1}

Different(d, o) == dev[d].host # dev[o].host /\ dev[d].inst # dev[o].inst
Settled(d) == main[d] = "ready" /\ dev[d].state = "RUNNING"
Announced(d) == dev[d].announced = {"srv", "a"}

(* In the end every controller runs under announced names of its own,     *)
(* although one datagram was lost, a link failed or a search interfered    *)
(* (mdns_parse_packet, mdns.c:3927-4210).                                  *)
NamesSettle == <>[](/\ \A d \in Devices : Settled(d) /\ Announced(d)
                    /\ \A d, o \in Devices : d # o => Different(d, o))

(***************************************************************************)
(* The inductive invariant behind the three invariants                     *)
(* (MdnsResponderProofs).                                                  *)
(***************************************************************************)
Packet == [kind : {"none", "probe", "announce"}, records : SUBSET {"srv", "a"}]

Pcb == [host : Nat, inst : Nat, state : {States[i] : i \in DOMAIN States},
        ready : BOOLEAN, running : BOOLEAN, ip : BOOLEAN, services : BOOLEAN,
        own : Packet, answers : Nat, searching : BOOLEAN,
        hostProbes : 0 .. 3, instProbes : 0 .. 3, announced : SUBSET {"srv", "a"}]

(* Each response was probed for. *)
Datagram == {m \in [type : {"rx"}, src : Devices, query : BOOLEAN, ptr : BOOLEAN,
                    unicast : BOOLEAN, sinst : Nat, shost : Nat, ahost : Nat,
                    probed : BOOLEAN] : m.query \/ m.probed}

Action == Datagram \cup [type : {"enable", "disable", "hostname"}]

TypeOK == /\ main \in [Devices -> {"init", "hostname", "service", "subtype", "ready"}]
          /\ dev \in [Devices -> Pcb]
          /\ inbox \in [Devices -> Seq(Action)]
          /\ events \in [Devices -> Seq({"enable", "disable"})]

(* Nothing is probed for, scheduled or under way without a name. *)
Named(s) == /\ s.inst # 0 => s.host # 0
            /\ s.services => s.inst # 0
            /\ s.running \/ s.ip => s.host # 0
            /\ "srv" \in s.own.records => s.inst # 0
            /\ "a" \in s.own.records => s.host # 0

(* What is scheduled fits the state of the pcb. *)
Scheduled(s) == /\ s.services => Probing(s)
                /\ s.own.kind = "probe" => Probing(s)
                /\ s.own.kind = "announce" => Answering(s)
                /\ s.answers > 0 => Answering(s) /\ s.inst # 0

(* The probes sent since the pcb was set to probing. *)
Sent(s) == CHOOSE n \in 0 .. 2 : s.state = States[n + 2]

(* A pcb that is up probes for the records of its probe, and all its other *)
(* names have been probed for three times.                                 *)
Counts(s) == s.ready =>
    /\ s.state # "OFF"
    /\ s.running <=> Probing(s)
    /\ Probing(s) =>
          /\ s.host # 0
          /\ s.own = ProbePacket(s.services, s.ip)
          /\ s.hostProbes >= IF s.ip THEN Sent(s) ELSE 3
          /\ s.inst # 0 => s.instProbes >= IF s.services THEN Sent(s) ELSE 3
    /\ Answering(s) => /\ s.host # 0 => s.hostProbes = 3
                       /\ s.inst # 0 => s.instProbes = 3

PcbInv(s) == Named(s) /\ Scheduled(s) /\ Counts(s)

NamesInv == /\ TypeOK
            /\ \A d \in Devices : PcbInv(dev[d])
            /\ \A d \in Devices : main[d] = "service" => dev[d].host # 0
            /\ LargestKeepsHost
=============================================================================
