-------------------------------- MODULE Boot --------------------------------
(***************************************************************************)
(* How the controller starts (app_main, config(), the Ethernet and Wi-Fi   *)
(* classes, their event handlers) and what its servers change on the disk  *)
(* afterwards: the settings page (comp/http.c, webwrite) and the requests  *)
(* of the TCP server that write a table (tools/tcp_events.cpp).            *)
(*                                                                         *)
(* The power may fail between any two steps.  A restart, whatever its      *)
(* reason, loses the memory and starts app_main again; the disk stays.     *)
(*                                                                         *)
(* The settings are two records, GlobalConfig and NetworkConfig, in a file *)
(* each.  The tables are files of rows: lamps, groups, time schedules.  A  *)
(* row is "free" (as config() writes it) or "used": a lamp, or a schedule   *)
(* that is active.                                                         *)
(***************************************************************************)
EXTENDS Storage

CONSTANTS
    Tables,     \* the tables in the order of config(): GEAR_FILE first, ZAMAN_FILE last
    Rows,       \* rows of each table
    Values,     \* what the text fields of a form can hold
    DefaultValue,
    Forms,      \* the forms a client submits
    NoForm,
    WIFI_MAXIMUM_RETRY,
    MaxSaves,   \* bound on the requests to the web server
    MaxWrites,  \* bound on the requests to the TCP server
    MaxCuts     \* bound on the power cuts and on the changes of the cable

Records == {"GLOBAL_FILE", "NETWORK_FILE"}
TableFiles == {Tables[i] : i \in DOMAIN Tables}
GEAR_FILE == Tables[1]
ZAMAN_FILE == Tables[Len(Tables)]

ASSUME RowsAssumption == Rows \in Nat \ {0}
ASSUME TablesAssumption ==
    /\ Tables \in Seq(STRING) /\ Len(Tables) > 1
    /\ Records \cap TableFiles = {}
    /\ \A i, j \in DOMAIN Tables : Tables[i] = Tables[j] => i = j
ASSUME FormsAssumption ==
    /\ Forms \subseteq [wan_type : {0, 1, 2}, http : {0, 1}, tcp : {0, 1}, value : Values]
    /\ NoForm \notin Forms
    /\ DefaultValue \in Values
ASSUME RetryAssumption == WIFI_MAXIMUM_RETRY \in 0 .. 255
ASSUME BoundAssumption == {MaxSaves, MaxWrites, MaxCuts} \subseteq Nat

GlobalRecords == [open_default : {0, 1}, http_start : {0, 1}, tcpserver_start : {0, 1}]
NetworkRecords == [home_default : {0, 1}, wan_type : {0, 1, 2}, value : Values]

ASSUME MissingAssumption ==
    /\ Missing \notin {<<r>> : r \in GlobalRecords \cup NetworkRecords}
    /\ Missing \notin Seq({"free", "used"})

WAN_ETHERNET == 1
WAN_WIFI == 2

\* The records with every field zero, as they are when the memory is fresh.
ZeroGlobal == [open_default |-> 0, http_start |-> 0, tcpserver_start |-> 0]
ZeroNetwork == [home_default |-> 0, wan_type |-> 0, value |-> DefaultValue]

DefaultGlobal == [open_default |-> 1, http_start |-> 1, tcpserver_start |-> 1]
DefaultNetwork == [home_default |-> 1, wan_type |-> WAN_ETHERNET, value |-> DefaultValue]

VARIABLES
    disk,
    main,          \* where app_main is
    table, row,    \* the table that config() creates, and the row
    GlobalConfig, NetworkConfig,
    Net_Connect, BroadcastAdr,
    link,          \* "off", "eth", "sta" or "ap"
    up,            \* that link has an address
    bits,          \* the event group that app_main waits for
    retry,
    web,           \* the web server: "off", "idle", then the steps of a save
    form,          \* the form in its buffer
    netconfig, globalconfig, \* its own copies of the settings
    timer,         \* the timer that restarts the device is running
    clearing,      \* the row that clear_number writes next, or 0
    cable,         \* the Ethernet cable leads to a network
    answered,      \* the last form answered with "The configuration is saved"
    torn,          \* the tables whose rows a restart kept from being written
    saves, writes, cuts

records == <<GlobalConfig, NetworkConfig>>
startup == <<table, row, Net_Connect, BroadcastAdr>>
network == <<link, up, bits, retry>>
server == <<web, form, netconfig, globalconfig, timer>>
bounds == <<saves, writes, cuts>>
vars == <<disk, main, startup, records, network, server, clearing, cable, answered, torn, bounds>>

\* The memory and the tasks after a restart.
Fresh ==
    /\ main' = "global"
    /\ table' = 1 /\ row' = 1
    /\ GlobalConfig' = ZeroGlobal /\ NetworkConfig' = ZeroNetwork
    /\ Net_Connect' = FALSE /\ BroadcastAdr' = FALSE
    /\ link' = "off" /\ up' = FALSE /\ bits' = {} /\ retry' = 0
    /\ web' = "off" /\ form' = NoForm
    /\ netconfig' = ZeroNetwork /\ globalconfig' = ZeroGlobal
    /\ timer' = FALSE /\ clearing' = 0

Restart ==
    /\ Fresh
    /\ torn' = torn \cup {f \in TableFiles : \/ main = "rows" /\ f = Tables[table]
                                             \/ clearing # 0 /\ f = GEAR_FILE}
    /\ UNCHANGED <<disk, cable, answered>>

Init ==
    /\ disk = [f \in Records \cup TableFiles |-> Missing]
    /\ main = "global"
    /\ table = 1 /\ row = 1
    /\ GlobalConfig = ZeroGlobal /\ NetworkConfig = ZeroNetwork
    /\ Net_Connect = FALSE /\ BroadcastAdr = FALSE
    /\ link = "off" /\ up = FALSE /\ bits = {} /\ retry = 0
    /\ web = "off" /\ form = NoForm
    /\ netconfig = ZeroNetwork /\ globalconfig = ZeroGlobal
    /\ timer = FALSE /\ clearing = 0
    /\ cable \in BOOLEAN
    /\ answered = NoForm /\ torn = {}
    /\ saves = 0 /\ writes = 0 /\ cuts = 0
-----------------------------------------------------------------------------
(* config(): the settings *)

OthersOfConfig == UNCHANGED <<startup, network, server, clearing, cable, answered, torn, bounds>>

ReadGlobal ==
    /\ main = "global"
    /\ GlobalConfig' = ReadFile(disk, "GLOBAL_FILE", 1, GlobalConfig)
    /\ main' = IF GlobalConfig'.open_default = 0 THEN "default_global" ELSE "network"
    /\ UNCHANGED <<disk, NetworkConfig>>
    /\ OthersOfConfig

\* default_config creates the file and then writes the record.
CreateGlobal ==
    /\ main = "default_global"
    /\ GlobalConfig' = DefaultGlobal
    /\ disk' = FileControl(disk, "GLOBAL_FILE")
    /\ main' = "write_global"
    /\ UNCHANGED NetworkConfig
    /\ OthersOfConfig

WriteGlobal ==
    /\ main = "write_global"
    /\ disk' \in WriteFile(disk, "GLOBAL_FILE", 1, GlobalConfig)
    /\ main' = "check_global"
    /\ UNCHANGED records
    /\ OthersOfConfig

\* The record is read back; FATAL_MSG restarts the device where there is none.
CheckGlobal ==
    /\ main = "check_global"
    /\ LET read == ReadFile(disk, "GLOBAL_FILE", 1, GlobalConfig)
       IN  IF read.open_default = 0 THEN Restart /\ UNCHANGED bounds
           ELSE /\ GlobalConfig' = read
                /\ main' = "network"
                /\ UNCHANGED <<disk, NetworkConfig>>
                /\ OthersOfConfig

ReadNetwork ==
    /\ main = "network"
    /\ NetworkConfig' = ReadFile(disk, "NETWORK_FILE", 1, NetworkConfig)
    /\ main' = IF NetworkConfig'.home_default = 0 THEN "default_network" ELSE "tables"
    /\ UNCHANGED <<disk, GlobalConfig>>
    /\ OthersOfConfig

CreateNetwork ==
    /\ main = "default_network"
    /\ NetworkConfig' = DefaultNetwork
    /\ disk' = FileControl(disk, "NETWORK_FILE")
    /\ main' = "write_network"
    /\ UNCHANGED GlobalConfig
    /\ OthersOfConfig

WriteNetwork ==
    /\ main = "write_network"
    /\ disk' \in WriteFile(disk, "NETWORK_FILE", 1, NetworkConfig)
    /\ main' = "check_network"
    /\ UNCHANGED records
    /\ OthersOfConfig

CheckNetwork ==
    /\ main = "check_network"
    /\ LET read == ReadFile(disk, "NETWORK_FILE", 1, NetworkConfig)
       IN  IF read.home_default = 0 THEN Restart /\ UNCHANGED bounds
           ELSE /\ NetworkConfig' = read
                /\ main' = "tables"
                /\ UNCHANGED <<disk, GlobalConfig>>
                /\ OthersOfConfig
-----------------------------------------------------------------------------
(* config(): the tables.  A table that exists is left as it is. *)

OthersOfTables ==
    UNCHANGED <<records, Net_Connect, BroadcastAdr, network, server, clearing, cable, answered,
                torn, bounds>>

ControlTable ==
    /\ main = "tables"
    /\ IF table > Len(Tables)
       THEN main' = "link" /\ UNCHANGED <<disk, table, row>>
       ELSE /\ disk' = FileControl(disk, Tables[table])
            /\ IF FileSearch(disk, Tables[table])
               THEN table' = table + 1 /\ UNCHANGED <<main, row>>
               ELSE main' = "rows" /\ row' = 1 /\ UNCHANGED table
    /\ OthersOfTables

\* Faulty: the last row is not written.
LastRowEarly == Rows - 1

LastRow == Rows

WriteRow ==
    /\ main = "rows"
    /\ disk' \in WriteFile(disk, Tables[table], row, "free")
    /\ IF row < LastRow THEN row' = row + 1 /\ UNCHANGED <<main, table>>
       ELSE main' = "tables" /\ table' = table + 1 /\ UNCHANGED row
    /\ OthersOfTables
-----------------------------------------------------------------------------
(* app_main: the link *)

OthersOfLink ==
    UNCHANGED <<disk, table, row, records, server, BroadcastAdr, clearing, cable, answered, torn,
                bounds>>

\* w5500.start or wifi.Station_Start; without a link the device goes on alone.
StartLink ==
    /\ main = "link"
    /\ Net_Connect' = FALSE /\ bits' = {} /\ up' = FALSE
    /\ CASE NetworkConfig.wan_type = WAN_ETHERNET -> link' = "eth" /\ main' = "eth_wait"
         [] NetworkConfig.wan_type = WAN_WIFI -> link' = "sta" /\ main' = "wifi_wait"
         [] OTHER -> link' = "off" /\ main' = "write_back"
    /\ retry' = 0
    /\ OthersOfLink

\* A bit is set, by an address or by a failure, which is not told apart.
LinkStarted ==
    /\ main \in {"eth_wait", "wifi_wait"} /\ bits # {}
    /\ Net_Connect' = TRUE /\ bits' = {}
    /\ main' = "write_back"
    /\ UNCHANGED <<link, up, retry>>
    /\ OthersOfLink

\* Eight seconds without an address: FATAL_MSG.
EthernetTimeout ==
    /\ main = "eth_wait" /\ bits = {}
    /\ Restart /\ UNCHANGED bounds
-----------------------------------------------------------------------------
(* app_main: the servers *)

OthersOfServers == UNCHANGED <<table, row, records, Net_Connect, network, clearing, cable,
                               answered, torn, bounds>>

WriteBack ==
    /\ main = "write_back"
    /\ disk' \in WriteFile(disk, "GLOBAL_FILE", 1, GlobalConfig)
    /\ main' = "http"
    /\ UNCHANGED <<server, BroadcastAdr>>
    /\ OthersOfServers

\* start_rest_server takes copies of the settings.
StartHttp ==
    /\ main = "http"
    /\ IF Net_Connect /\ GlobalConfig.http_start = 1
       THEN web' = "idle" /\ netconfig' = NetworkConfig /\ globalconfig' = GlobalConfig
       ELSE UNCHANGED <<web, netconfig, globalconfig>>
    /\ main' = "tcp"
    /\ UNCHANGED <<disk, BroadcastAdr, form, timer>>
    /\ OthersOfServers

\* The TCP and UDP servers; only with them there is an address to announce to.
StartTcp ==
    /\ main = "tcp"
    /\ BroadcastAdr' = (Net_Connect /\ GlobalConfig.tcpserver_start = 1)
    /\ main' = "announce"
    /\ UNCHANGED <<disk, server>>
    /\ OthersOfServers

\* The broadcast "server" message: inet_addr of a null pointer faults.
Announce ==
    /\ main = "announce"
    /\ IF BroadcastAdr
       THEN main' = "services" /\ UNCHANGED <<disk, server, BroadcastAdr>> /\ OthersOfServers
       ELSE Restart /\ UNCHANGED bounds

\* init_cron, the heartbeat task and mDNS; app_main then sleeps for ever.
Services ==
    /\ main = "services"
    /\ main' = "up"
    /\ UNCHANGED <<disk, server, BroadcastAdr>>
    /\ OthersOfServers

Main ==
    \/ ReadGlobal \/ CreateGlobal \/ WriteGlobal \/ CheckGlobal
    \/ ReadNetwork \/ CreateNetwork \/ WriteNetwork \/ CheckNetwork
    \/ ControlTable \/ WriteRow
    \/ StartLink \/ LinkStarted \/ EthernetTimeout
    \/ WriteBack \/ StartHttp \/ StartTcp \/ Announce \/ Services
-----------------------------------------------------------------------------
(* The event loop: ip_handler, eth_handler and wifi_handler.  One request  *)
(* of the TCP server is handled at a time, and no event meanwhile.         *)

OthersOfEvents == UNCHANGED <<disk, main, startup, records, server, clearing, answered, torn>>

\* IP_EVENT_ETH_GOT_IP or IP_EVENT_STA_GOT_IP
GotIp ==
    /\ clearing = 0 /\ ~up
    /\ (link = "eth" /\ cable) \/ link = "sta"
    /\ up' = TRUE
    /\ bits' = bits \cup {"connected"}
    /\ retry' = IF link = "sta" THEN 0 ELSE retry
    /\ UNCHANGED <<link, cable, bounds>>
    /\ OthersOfEvents

\* ETHERNET_EVENT_DISCONNECTED.  While app_main waits, the link may also go
\* down again before it has an address.
EthernetDown ==
    /\ clearing = 0 /\ link = "eth" /\ ~cable
    /\ up \/ main = "eth_wait"
    /\ up' = FALSE
    /\ bits' = bits \cup {"fail"}
    /\ UNCHANGED <<link, retry, cable, bounds>>
    /\ OthersOfEvents

\* Faulty: app_main is not told that the access point is up.
WifiDownUntold ==
    /\ clearing = 0 /\ link = "sta"
    /\ up' = FALSE
    /\ IF retry < WIFI_MAXIMUM_RETRY THEN retry' = retry + 1 /\ UNCHANGED link
       ELSE link' = "ap" /\ UNCHANGED retry
    /\ UNCHANGED <<bits, cable, bounds>>
    /\ OthersOfEvents

\* WIFI_EVENT_STA_DISCONNECTED: another try, or the device becomes the access
\* point that its owner can reach it by.
WifiDown ==
    /\ clearing = 0 /\ link = "sta"
    /\ up' = FALSE
    /\ IF retry < WIFI_MAXIMUM_RETRY THEN retry' = retry + 1 /\ UNCHANGED <<link, bits>>
       ELSE link' = "ap" /\ bits' = bits \cup {"connected"} /\ UNCHANGED retry
    /\ UNCHANGED <<cable, bounds>>
    /\ OthersOfEvents

Events == GotIp \/ EthernetDown \/ WifiDown
-----------------------------------------------------------------------------
(* The event loop: requests that write a table *)

OthersOfTcp == UNCHANGED <<main, startup, records, network, server, cable, answered, torn>>

StoreRow(f, n, record) ==
    /\ BroadcastAdr /\ clearing = 0 /\ writes < MaxWrites
    /\ disk' \in WriteFile(disk, f, n, record)
    /\ writes' = writes + 1
    /\ UNCHANGED <<clearing, saves, cuts>>
    /\ OthersOfTcp

\* A lamp that a search has found; no other row of GEAR_FILE is written.
StoreLamp(n) == StoreRow(GEAR_FILE, n, "used")

\* set_zaman writes the schedule whatever was in its row; without times it is not
\* active, and the row free.
SetZaman(n, record) == StoreRow(ZAMAN_FILE, n, record)

\* clear_number empties the file of the lamps and writes it row by row.
ClearNumber ==
    /\ BroadcastAdr /\ clearing = 0 /\ writes < MaxWrites
    /\ disk' = FileEmpty(disk, GEAR_FILE)
    /\ clearing' = 1
    /\ writes' = writes + 1
    /\ UNCHANGED <<saves, cuts>>
    /\ OthersOfTcp

ClearRow ==
    /\ clearing # 0
    /\ disk' \in WriteFile(disk, GEAR_FILE, clearing, "free")
    /\ clearing' = IF clearing < LastRow THEN clearing + 1 ELSE 0
    /\ UNCHANGED bounds
    /\ OthersOfTcp

\* The request "reset": esp_restart.
Reset ==
    /\ BroadcastAdr /\ clearing = 0 /\ writes < MaxWrites
    /\ Restart
    /\ writes' = writes + 1
    /\ UNCHANGED <<saves, cuts>>

Tcp ==
    \/ \E n \in 1 .. Rows :
          StoreLamp(n) \/ \E record \in {"free", "used"} : SetZaman(n, record)
    \/ ClearNumber \/ ClearRow \/ Reset
-----------------------------------------------------------------------------
(* The web server: save_handler and default_handler *)

OthersOfWeb == UNCHANGED <<main, startup, records, network, clearing, cable, torn, writes, cuts>>

SavedNetwork(f) == [home_default |-> 1, wan_type |-> f.wan_type, value |-> f.value]
SavedGlobal(f) == [open_default |-> 1, http_start |-> f.http, tcpserver_start |-> f.tcp]

\* The fields of the form go into the copies.
Save(f) ==
    /\ web = "idle" /\ saves < MaxSaves
    /\ form' = f
    /\ netconfig' = [netconfig EXCEPT !.wan_type = f.wan_type, !.value = f.value]
    /\ globalconfig' = [globalconfig EXCEPT !.http_start = f.http, !.tcpserver_start = f.tcp]
    /\ web' = "save_network"
    /\ saves' = saves + 1
    /\ UNCHANGED <<disk, timer, answered>>
    /\ OthersOfWeb

\* webwrite writes one file and then the other.
SaveNetwork ==
    /\ web = "save_network"
    /\ disk' \in WriteFile(disk, "NETWORK_FILE", 1, netconfig)
    /\ web' = "save_global"
    /\ UNCHANGED <<form, netconfig, globalconfig, timer, answered, saves>>
    /\ OthersOfWeb

\* Faulty: the settings that the device started with are written.
SaveGlobalOld ==
    /\ web = "save_global"
    /\ disk' \in WriteFile(disk, "GLOBAL_FILE", 1, GlobalConfig)
    /\ web' = "answer"
    /\ UNCHANGED <<form, netconfig, globalconfig, timer, answered, saves>>
    /\ OthersOfWeb

SaveGlobal ==
    /\ web = "save_global"
    /\ disk' \in WriteFile(disk, "GLOBAL_FILE", 1, globalconfig)
    /\ web' = "answer"
    /\ UNCHANGED <<form, netconfig, globalconfig, timer, answered, saves>>
    /\ OthersOfWeb

\* The page of getBack, and half a second later esp_restart.
Answer ==
    /\ web = "answer"
    /\ answered' = form
    /\ form' = NoForm
    /\ web' = "idle" /\ timer' = TRUE
    /\ UNCHANGED <<disk, netconfig, globalconfig, saves>>
    /\ OthersOfWeb

\* default_handler posts an event that no handler is registered for.
DefaultReset ==
    /\ web = "idle" /\ saves < MaxSaves
    /\ timer' = TRUE
    /\ saves' = saves + 1
    /\ UNCHANGED <<disk, web, form, netconfig, globalconfig, answered>>
    /\ OthersOfWeb

\* timerCallBack
TimerFires ==
    /\ timer
    /\ Restart /\ UNCHANGED bounds

Web == (\E f \in Forms : Save(f)) \/ SaveNetwork \/ SaveGlobal \/ Answer \/ DefaultReset
-----------------------------------------------------------------------------
(* The surroundings *)

PowerCut ==
    /\ cuts < MaxCuts
    /\ Restart
    /\ cuts' = cuts + 1
    /\ UNCHANGED <<saves, writes>>

Plug ==
    /\ cuts < MaxCuts
    /\ cable' = ~cable
    /\ cuts' = cuts + 1
    /\ UNCHANGED <<disk, main, startup, records, network, server, clearing, answered, torn,
                   saves, writes>>

Next == Main \/ Events \/ Tcp \/ Web \/ TimerFires \/ PowerCut \/ Plug

Spec == Init /\ [][Next]_vars

EthernetGotIp == link = "eth" /\ GotIp
WifiResult == link = "sta" /\ ~up /\ (GotIp \/ WifiDown)

\* The tasks and the timer go on; every try of the Wi-Fi station ends, one way
\* or the other; and the network at the end of the cable gives an address in
\* less than eight seconds at some time, if it is asked often enough.
FairSpec ==
    /\ Spec
    /\ WF_vars(Main) /\ SF_vars(EthernetGotIp) /\ WF_vars(WifiResult)
    /\ WF_vars(ClearRow)
    /\ WF_vars(SaveNetwork \/ SaveGlobal \/ Answer) /\ WF_vars(TimerFires)
-----------------------------------------------------------------------------
BeforeLink == {"tables", "rows", "link"}
AfterConfig == {"eth_wait", "wifi_wait", "write_back", "http", "tcp", "announce", "services", "up"}

\* Whatever a power cut has left of the two files, config() ends with both
\* records on the disk and in memory, and its checks never stop the device.
ConfigRepaired ==
    /\ main = "check_global" => disk["GLOBAL_FILE"] = <<GlobalConfig>>
    /\ main = "check_network" => disk["NETWORK_FILE"] = <<NetworkConfig>>
    /\ main \in BeforeLink \cup AfterConfig =>
          /\ GlobalConfig.open_default = 1 /\ NetworkConfig.home_default = 1
          /\ \A f \in Records : disk[f] \notin {Missing, <<>>}

\* Once config() is past them, a table has all its rows unless a restart came
\* while they were written, or the rows are being written again.
TablesWhole ==
    main \in AfterConfig =>
        \A f \in TableFiles \ torn :
            /\ disk[f] # Missing
            /\ Len(disk[f]) = Rows \/ (f = GEAR_FILE /\ clearing = Len(disk[f]) + 1)

\* A lamp or a schedule that was stored is there after every restart and every other
\* request: the rows of the lamps go when clear_number empties the file, a schedule
\* when set_zaman names its very row and has no times (tcp_events.cpp:73, 307-311).
RowsKept ==
    [][\A f \in TableFiles : disk[f] # Missing =>
          \A n \in DOMAIN disk[f] :
              disk[f][n] = "used" =>
                  \/ disk'[f] # Missing /\ n \in DOMAIN disk'[f] /\ disk'[f][n] = "used"
                  \/ f = GEAR_FILE /\ ClearNumber
                  \/ f = ZAMAN_FILE /\ SetZaman(n, "free")]_vars

-----------------------------------------------------------------------------
DefaultSettings == [f \in Records |-> IF f = "GLOBAL_FILE" THEN DefaultGlobal ELSE DefaultNetwork]

\* The settings that the next start will find.
Settings ==
    [f \in Records |-> IF disk[f] \in {Missing, <<>>} THEN DefaultSettings[f] ELSE disk[f][1]]

SavedPart ==
    [f \in Records |-> [g \in Forms |-> IF f = "GLOBAL_FILE" THEN SavedGlobal(g) ELSE SavedNetwork(g)]]

\* The settings page keeps the promise of SettingsStore through files, copies,
\* boots that write the record back and restarts at any step.
Store == INSTANCE SettingsStore
            WITH Parts <- Records, Part <- SavedPart, Default <- DefaultSettings, settings <- Settings
KeepsSettings == Store!Spec

\* The settings start the TCP server over some link.
Startable ==
    /\ Settings["GLOBAL_FILE"].tcpserver_start = 1
    /\ Settings["NETWORK_FILE"].wan_type # 0

\* With a cable that stays in, the device always comes up again, from any
\* restart and over either link, if its settings start the TCP server.
BootEnds == <>[]cable => []<>(main = "up" \/ ~Startable)

\* getBack: "The configuration is saved and the device is reset. Please
\* reconnect to the device": after that answer and the reset it comes up.
Reconnectable == <>[]cable => (timer /\ answered # NoForm) ~> (main = "up" /\ ~timer)
=============================================================================
