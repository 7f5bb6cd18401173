----------------------------- MODULE BootProofs -----------------------------
(***************************************************************************)
(* The settings and the tables survive every restart: proofs about Boot    *)
(* for any tables, rows, forms and bounds.  The inductive invariant IInv   *)
(* says, place by place, what config() and the web server have made of the *)
(* files so far.                                                           *)
(***************************************************************************)
EXTENDS Boot, TLAPS

GoodGlobal == {r \in GlobalRecords : r.open_default = 1}
GoodNetwork == {r \in NetworkRecords : r.home_default = 1}

\* Where app_main is before it has read or made the one and the other record.
WithoutGlobal == {"global", "default_global", "write_global", "check_global"}
WithoutNetwork == {"network", "default_network", "write_network", "check_network"}

\* A settings file holds at most one record, and a record is never half filled.
FileInv ==
    /\ DOMAIN disk = Records \cup TableFiles
    /\ disk["GLOBAL_FILE"] \in {Missing, <<>>} \cup {<<r>> : r \in GoodGlobal}
    /\ disk["NETWORK_FILE"] \in {Missing, <<>>} \cup {<<r>> : r \in GoodNetwork}

\* The global record, in memory and on the disk, until it is written back.
GlobalInv ==
    /\ main = "global" => GlobalConfig = ZeroGlobal
    /\ main = "default_global" => disk["GLOBAL_FILE"] \in {Missing, <<>>}
    /\ main = "write_global" => disk["GLOBAL_FILE"] = <<>> /\ GlobalConfig = DefaultGlobal
    /\ main \notin {"global", "default_global", "write_global"} =>
          GlobalConfig \in GoodGlobal /\ disk["GLOBAL_FILE"] \notin {Missing, <<>>}
    /\ main \in {"check_global", "link", "eth_wait", "wifi_wait", "write_back"} \cup WithoutNetwork \cup {"tables", "rows"} =>
          disk["GLOBAL_FILE"] = <<GlobalConfig>>

NetworkInv ==
    /\ main \in WithoutGlobal \cup {"network"} => NetworkConfig = ZeroNetwork
    /\ main = "default_network" => disk["NETWORK_FILE"] \in {Missing, <<>>}
    /\ main = "write_network" => disk["NETWORK_FILE"] = <<>> /\ NetworkConfig = DefaultNetwork
    /\ main = "check_network" => disk["NETWORK_FILE"] = <<NetworkConfig>>
    /\ main \notin WithoutGlobal \cup {"network", "default_network", "write_network"} =>
          NetworkConfig \in GoodNetwork /\ disk["NETWORK_FILE"] \notin {Missing, <<>>}

\* The web server writes its own copies, and one file after the other.
WebInv ==
    /\ web \in {"off", "idle", "save_network", "save_global", "answer"}
    /\ web # "off" => main \in {"tcp", "announce", "services", "up"}
    /\ web # "off" => netconfig \in GoodNetwork /\ globalconfig \in GoodGlobal
    /\ web \in {"off", "idle"} => form = NoForm
    /\ web \in {"save_network", "save_global", "answer"} =>
          form \in Forms /\ netconfig = SavedNetwork(form) /\ globalconfig = SavedGlobal(form)
    /\ web \in {"save_global", "answer"} => disk["NETWORK_FILE"] = <<netconfig>>
    /\ web = "answer" => disk["GLOBAL_FILE"] = <<globalconfig>>

\* Rows are written in order: the file that config() or clear_number is writing
\* ends before the row at hand, and every other file that no restart has torn
\* is whole.
TableInv ==
    /\ table \in 1 .. Len(Tables) + 1 /\ row \in 1 .. Rows /\ clearing \in 0 .. Rows
    /\ \A f \in TableFiles : disk[f] # Missing =>
          disk[f] \in Seq({"free", "used"}) /\ Len(disk[f]) <= Rows
    /\ \A i \in 1 .. table - 1 : disk[Tables[i]] # Missing
    /\ main = "rows" =>
          /\ table <= Len(Tables)
          /\ disk[Tables[table]] # Missing /\ Len(disk[Tables[table]]) = row - 1
    /\ main \in AfterConfig \cup {"link"} => table = Len(Tables) + 1
    /\ BroadcastAdr \/ clearing # 0 => main \in {"announce", "services", "up"}
    /\ clearing # 0 => disk[GEAR_FILE] # Missing /\ Len(disk[GEAR_FILE]) = clearing - 1
    /\ \A f \in TableFiles \ torn : disk[f] # Missing =>
          \/ Len(disk[f]) = Rows
          \/ main = "rows" /\ f = Tables[table]
          \/ clearing # 0 /\ f = GEAR_FILE

SettingsInv == FileInv /\ GlobalInv /\ NetworkInv /\ WebInv

-----------------------------------------------------------------------------
(* What the file operations do to a file of one record. *)

\* Writing one file leaves the others and their names alone.
LEMMA OthersKept ==
    ASSUME NEW d, NEW f \in DOMAIN d, NEW n, NEW rec, NEW e \in WriteFile(d, f, n, rec)
    PROVE  /\ DOMAIN e = DOMAIN d
           /\ \A g \in DOMAIN d : g # f => e[g] = d[g]
BY DEF WriteFile, FileSearch

\* The record of an empty file becomes its only one.
LEMMA WriteEmpty ==
    ASSUME NEW d, NEW f \in DOMAIN d, d[f] = <<>>, NEW rec, NEW e \in WriteFile(d, f, 1, rec)
    PROVE  e = [d EXCEPT ![f] = <<rec>>]
<1>1. <<>> # Missing
  <2>1. <<>> \in Seq({"free", "used"})
    OBVIOUS
  <2>2. QED
    BY <2>1, MissingAssumption
<1>2. Len(d[f]) = 0 /\ Append(d[f], rec) = <<rec>>
  OBVIOUS
<1>3. QED
  BY <1>1, <1>2 DEF WriteFile, FileSearch

\* The record of a file of one record is replaced.
LEMMA WriteOne ==
    ASSUME NEW d, NEW f \in DOMAIN d, NEW r \in GlobalRecords \cup NetworkRecords, d[f] = <<r>>,
           NEW rec, NEW e \in WriteFile(d, f, 1, rec)
    PROVE  e = [d EXCEPT ![f] = <<rec>>]
<1>1. d[f] # Missing
  BY MissingAssumption
<1>2. Len(d[f]) = 1 /\ [d[f] EXCEPT ![1] = rec] = <<rec>>
  OBVIOUS
<1>3. e = [d EXCEPT ![f] = [d[f] EXCEPT ![1] = rec]]
  BY <1>1, <1>2 DEF WriteFile, FileSearch
<1>4. QED
  BY <1>2, <1>3

\* A record is read from where one is, and the old one is kept elsewhere.
LEMMA ReadOne ==
    ASSUME NEW d, NEW f, NEW old
    PROVE  /\ d[f] \in {Missing, <<>>} => ReadFile(d, f, 1, old) = old
           /\ \A r \in GlobalRecords \cup NetworkRecords : d[f] = <<r>> => ReadFile(d, f, 1, old) = r
<1>1. ASSUME d[f] \in {Missing, <<>>} PROVE ReadFile(d, f, 1, old) = old
  BY <1>1 DEF ReadFile, FileSearch
<1>2. ASSUME NEW r \in GlobalRecords \cup NetworkRecords, d[f] = <<r>> PROVE ReadFile(d, f, 1, old) = r
  <2>1. d[f] # Missing
    BY <1>2, MissingAssumption
  <2>2. 1 <= Len(<<r>>) /\ <<r>>[1] = r
    OBVIOUS
  <2>3. QED
    BY <1>2, <2>1, <2>2 DEF ReadFile, FileSearch
<1>3. QED
  BY <1>1, <1>2
-----------------------------------------------------------------------------
(* SettingsInv is inductive. *)

\* It holds of a new device.
LEMMA SettingsInit == Init => SettingsInv
BY TablesAssumption DEF Init, SettingsInv, FileInv, GlobalInv, NetworkInv, WebInv, WithoutGlobal,
   WithoutNetwork, Records

\* A restart forgets what the memory held; the files are as they were.
LEMMA RestartKeepsSettings ==
    ASSUME SettingsInv, Restart
    PROVE  SettingsInv'
<1>1. /\ disk' = disk /\ main' = "global" /\ web' = "off" /\ form' = NoForm
      /\ GlobalConfig' = ZeroGlobal /\ NetworkConfig' = ZeroNetwork
  BY DEF Restart, Fresh
<1>2. FileInv' /\ GlobalInv'
  BY <1>1 DEF SettingsInv, FileInv, GlobalInv, WithoutNetwork
<1>3. NetworkInv' /\ WebInv'
  BY <1>1 DEF NetworkInv, WithoutGlobal, WebInv
<1>4. QED
  BY <1>2, <1>3 DEF SettingsInv

Copies == <<GlobalConfig, NetworkConfig, web, form, netconfig, globalconfig>>
Starting == {"tables", "rows", "link", "eth_wait", "wifi_wait", "write_back"}
Serving == {"tcp", "announce", "services", "up"}

\* Steps that touch neither the settings files nor the settings in memory, and
\* leave app_main among the places before the servers, or among those after.
LEMMA MoveKeepsSettings ==
    ASSUME SettingsInv, UNCHANGED Copies,
           main' = main \/ (main \in Starting /\ main' \in Starting)
                        \/ (main \in Serving /\ main' \in Serving),
           DOMAIN disk' = DOMAIN disk, \A f \in Records : disk'[f] = disk[f]
    PROVE  SettingsInv'
<1>1. disk'["GLOBAL_FILE"] = disk["GLOBAL_FILE"] /\ disk'["NETWORK_FILE"] = disk["NETWORK_FILE"]
  BY DEF Records
<1>2. FileInv'
  BY <1>1 DEF SettingsInv, FileInv
<1>3. GlobalInv'
  BY <1>1 DEF SettingsInv, GlobalInv, Copies, Starting, Serving, WithoutNetwork
<1>4. NetworkInv'
  BY <1>1 DEF SettingsInv, NetworkInv, Copies, Starting, Serving, WithoutGlobal
<1>5. WebInv'
  BY <1>1 DEF SettingsInv, WebInv, Copies, Starting, Serving
<1>6. QED
  BY <1>2, <1>3, <1>4, <1>5 DEF SettingsInv

\* Tables are written without touching the settings files.
LEMMA TableWriteKeepsRecords ==
    ASSUME SettingsInv, NEW f \in TableFiles, NEW n, NEW rec,
           disk' \in WriteFile(disk, f, n, rec) \cup {FileControl(disk, f), FileEmpty(disk, f), disk}
    PROVE  DOMAIN disk' = DOMAIN disk /\ \A g \in Records : disk'[g] = disk[g]
<1>1. f \in DOMAIN disk /\ Records \subseteq DOMAIN disk /\ f \notin Records
  BY TablesAssumption DEF SettingsInv, FileInv
<1>2. CASE disk' \in WriteFile(disk, f, n, rec)
  BY <1>1, <1>2, OthersKept
<1>3. CASE disk' \in {FileControl(disk, f), FileEmpty(disk, f), disk}
  BY <1>1, <1>3 DEF FileControl, FileEmpty
<1>4. QED
  BY <1>2, <1>3

\* Facts about the files and records that every step below needs.
LEMMA RecordFacts ==
    ASSUME SettingsInv
    PROVE  /\ "GLOBAL_FILE" \in DOMAIN disk /\ "NETWORK_FILE" \in DOMAIN disk
           /\ GoodGlobal \subseteq GlobalRecords /\ GoodNetwork \subseteq NetworkRecords
           /\ DefaultGlobal \in GoodGlobal /\ DefaultNetwork \in GoodNetwork
           /\ \A r \in GlobalRecords \cup NetworkRecords : <<r>> \notin {Missing, <<>>}
<1>1. DefaultGlobal \in GoodGlobal /\ DefaultNetwork \in GoodNetwork
  BY FormsAssumption DEF GoodGlobal, GoodNetwork, DefaultGlobal, DefaultNetwork,
     GlobalRecords, NetworkRecords, WAN_ETHERNET
<1>2. \A r \in GlobalRecords \cup NetworkRecords : <<r>> \notin {Missing, <<>>}
  BY MissingAssumption
<1>3. QED
  BY <1>1, <1>2 DEF SettingsInv, FileInv, Records, GoodGlobal, GoodNetwork

\* config() finds the record, or knows that it has to make it.
LEMMA ReadGlobalKeepsSettings == SettingsInv /\ ReadGlobal => SettingsInv'
<1> SUFFICES ASSUME SettingsInv, ReadGlobal PROVE SettingsInv'
  OBVIOUS
<1> USE DEF SettingsInv, FileInv, GlobalInv, NetworkInv, WebInv, WithoutGlobal, WithoutNetwork
<1>1. /\ main = "global" /\ GlobalConfig = ZeroGlobal /\ NetworkConfig = ZeroNetwork /\ web = "off"
      /\ UNCHANGED <<disk, NetworkConfig, web, form, netconfig, globalconfig>>
  BY DEF ReadGlobal, OthersOfConfig, server
<1>2. CASE disk["GLOBAL_FILE"] \in {Missing, <<>>}
  <2>1. GlobalConfig' = ZeroGlobal /\ main' = "default_global"
    BY <1>1, <1>2, ReadOne DEF ReadGlobal, ZeroGlobal
  <2>2. QED
    BY <1>1, <1>2, <2>1
<1>3. CASE disk["GLOBAL_FILE"] \notin {Missing, <<>>}
  <2>1. PICK r \in GoodGlobal : disk["GLOBAL_FILE"] = <<r>>
    BY <1>3
  <2>2. GlobalConfig' = r /\ r.open_default = 1
    BY <2>1, ReadOne, RecordFacts DEF ReadGlobal, GoodGlobal
  <2>3. main' = "network"
    BY <2>2 DEF ReadGlobal
  <2>4. QED
    BY <1>1, <1>3, <2>1, <2>2, <2>3
<1>4. QED
  BY <1>2, <1>3

\* The default record is made in memory, and its file if there is none.
LEMMA CreateGlobalKeepsSettings == SettingsInv /\ CreateGlobal => SettingsInv'
<1> SUFFICES ASSUME SettingsInv, CreateGlobal PROVE SettingsInv'
  OBVIOUS
<1> USE DEF SettingsInv, FileInv, GlobalInv, NetworkInv, WebInv, WithoutGlobal, WithoutNetwork
<1>1. /\ main = "default_global" /\ disk["GLOBAL_FILE"] \in {Missing, <<>>}
      /\ NetworkConfig = ZeroNetwork /\ web = "off"
      /\ main' = "write_global" /\ GlobalConfig' = DefaultGlobal
      /\ UNCHANGED <<NetworkConfig, web, form, netconfig, globalconfig>>
  BY DEF CreateGlobal, OthersOfConfig, server
<1>2. /\ DOMAIN disk' = DOMAIN disk
      /\ disk'["GLOBAL_FILE"] = <<>> /\ disk'["NETWORK_FILE"] = disk["NETWORK_FILE"]
  BY <1>1, RecordFacts DEF CreateGlobal, FileControl, FileSearch
<1>3. QED
  BY <1>1, <1>2

\* The default record is the only one of its file.
LEMMA WriteGlobalKeepsSettings == SettingsInv /\ WriteGlobal => SettingsInv'
<1> SUFFICES ASSUME SettingsInv, WriteGlobal PROVE SettingsInv'
  OBVIOUS
<1> USE DEF SettingsInv, FileInv, GlobalInv, NetworkInv, WebInv, WithoutGlobal, WithoutNetwork
<1>1. /\ disk["GLOBAL_FILE"] = <<>> /\ GlobalConfig = DefaultGlobal
      /\ NetworkConfig = ZeroNetwork /\ web = "off" /\ main' = "check_global"
      /\ UNCHANGED Copies
  BY DEF WriteGlobal, OthersOfConfig, server, records, Copies
<1>2. disk' = [disk EXCEPT !["GLOBAL_FILE"] = <<DefaultGlobal>>]
  BY <1>1, WriteEmpty, RecordFacts DEF WriteGlobal
<1>3. /\ DOMAIN disk' = DOMAIN disk
      /\ disk'["GLOBAL_FILE"] = <<DefaultGlobal>> /\ disk'["NETWORK_FILE"] = disk["NETWORK_FILE"]
  BY <1>2, RecordFacts
<1>4. <<DefaultGlobal>> \notin {Missing, <<>>}
  BY RecordFacts
<1>5. QED
  BY <1>1, <1>3, <1>4, RecordFacts DEF Copies

\* What was just written is read back, so the device is not stopped.
LEMMA CheckGlobalKeepsSettings ==
    ASSUME SettingsInv, CheckGlobal
    PROVE  SettingsInv' /\ UNCHANGED disk
<1> USE DEF SettingsInv, FileInv, GlobalInv, NetworkInv, WebInv, WithoutGlobal, WithoutNetwork
<1>1. /\ main = "check_global" /\ GlobalConfig \in GoodGlobal
      /\ disk["GLOBAL_FILE"] = <<GlobalConfig>> /\ NetworkConfig = ZeroNetwork /\ web = "off"
  BY DEF CheckGlobal
<1>2. ReadFile(disk, "GLOBAL_FILE", 1, GlobalConfig) = GlobalConfig
  BY <1>1, ReadOne, RecordFacts
<1>3. GlobalConfig.open_default # 0
  BY <1>1 DEF GoodGlobal
<1>4. /\ main' = "network" /\ GlobalConfig' = GlobalConfig
      /\ UNCHANGED <<disk, NetworkConfig, web, form, netconfig, globalconfig>>
  BY <1>2, <1>3 DEF CheckGlobal, OthersOfConfig, server
<1>5. QED
  BY <1>1, <1>4

\* The same four steps for the network record.
LEMMA ReadNetworkKeepsSettings == SettingsInv /\ ReadNetwork => SettingsInv'
<1> SUFFICES ASSUME SettingsInv, ReadNetwork PROVE SettingsInv'
  OBVIOUS
<1> USE DEF SettingsInv, FileInv, GlobalInv, NetworkInv, WebInv, WithoutGlobal, WithoutNetwork
<1>1. /\ main = "network" /\ NetworkConfig = ZeroNetwork /\ web = "off"
      /\ UNCHANGED <<disk, GlobalConfig, web, form, netconfig, globalconfig>>
  BY DEF ReadNetwork, OthersOfConfig, server
<1>2. CASE disk["NETWORK_FILE"] \in {Missing, <<>>}
  <2>1. NetworkConfig' = ZeroNetwork /\ main' = "default_network"
    BY <1>1, <1>2, ReadOne DEF ReadNetwork, ZeroNetwork
  <2>2. QED
    BY <1>1, <1>2, <2>1
<1>3. CASE disk["NETWORK_FILE"] \notin {Missing, <<>>}
  <2>1. PICK r \in GoodNetwork : disk["NETWORK_FILE"] = <<r>>
    BY <1>3
  <2>2. NetworkConfig' = r /\ r.home_default = 1
    BY <2>1, ReadOne, RecordFacts DEF ReadNetwork, GoodNetwork
  <2>3. main' = "tables"
    BY <2>2 DEF ReadNetwork
  <2>4. QED
    BY <1>1, <1>3, <2>1, <2>2, <2>3
<1>4. QED
  BY <1>2, <1>3

\* The default network record is made in memory, and its file.
LEMMA CreateNetworkKeepsSettings == SettingsInv /\ CreateNetwork => SettingsInv'
<1> SUFFICES ASSUME SettingsInv, CreateNetwork PROVE SettingsInv'
  OBVIOUS
<1> USE DEF SettingsInv, FileInv, GlobalInv, NetworkInv, WebInv, WithoutGlobal, WithoutNetwork
<1>1. /\ main = "default_network" /\ disk["NETWORK_FILE"] \in {Missing, <<>>} /\ web = "off"
      /\ main' = "write_network" /\ NetworkConfig' = DefaultNetwork
      /\ UNCHANGED <<GlobalConfig, web, form, netconfig, globalconfig>>
  BY DEF CreateNetwork, OthersOfConfig, server
<1>2. /\ DOMAIN disk' = DOMAIN disk
      /\ disk'["NETWORK_FILE"] = <<>> /\ disk'["GLOBAL_FILE"] = disk["GLOBAL_FILE"]
  BY <1>1, RecordFacts DEF CreateNetwork, FileControl, FileSearch
<1>3. QED
  BY <1>1, <1>2

\* The default network record is the only one of its file.
LEMMA WriteNetworkKeepsSettings == SettingsInv /\ WriteNetwork => SettingsInv'
<1> SUFFICES ASSUME SettingsInv, WriteNetwork PROVE SettingsInv'
  OBVIOUS
<1> USE DEF SettingsInv, FileInv, GlobalInv, NetworkInv, WebInv, WithoutGlobal, WithoutNetwork
<1>1. /\ disk["NETWORK_FILE"] = <<>> /\ NetworkConfig = DefaultNetwork /\ web = "off"
      /\ main = "write_network" /\ main' = "check_network" /\ UNCHANGED Copies
  BY DEF WriteNetwork, OthersOfConfig, server, records, Copies
<1>2. disk' = [disk EXCEPT !["NETWORK_FILE"] = <<DefaultNetwork>>]
  BY <1>1, WriteEmpty, RecordFacts DEF WriteNetwork
<1>3. /\ DOMAIN disk' = DOMAIN disk
      /\ disk'["NETWORK_FILE"] = <<DefaultNetwork>> /\ disk'["GLOBAL_FILE"] = disk["GLOBAL_FILE"]
  BY <1>2, RecordFacts
<1>4. <<DefaultNetwork>> \notin {Missing, <<>>}
  BY RecordFacts
<1>5. QED
  BY <1>1, <1>3, <1>4, RecordFacts DEF Copies

\* The network record is read back too.
LEMMA CheckNetworkKeepsSettings ==
    ASSUME SettingsInv, CheckNetwork
    PROVE  SettingsInv' /\ UNCHANGED disk
<1> USE DEF SettingsInv, FileInv, GlobalInv, NetworkInv, WebInv, WithoutGlobal, WithoutNetwork
<1>1. /\ main = "check_network" /\ NetworkConfig \in GoodNetwork
      /\ disk["NETWORK_FILE"] = <<NetworkConfig>> /\ web = "off"
  BY DEF CheckNetwork
<1>2. ReadFile(disk, "NETWORK_FILE", 1, NetworkConfig) = NetworkConfig
  BY <1>1, ReadOne, RecordFacts
<1>3. NetworkConfig.home_default # 0
  BY <1>1 DEF GoodNetwork
<1>4. /\ main' = "tables" /\ NetworkConfig' = NetworkConfig
      /\ UNCHANGED <<disk, GlobalConfig, web, form, netconfig, globalconfig>>
  BY <1>2, <1>3 DEF CheckNetwork, OthersOfConfig, server
<1>5. QED
  BY <1>1, <1>4

\* What app_main writes back is what it has read.
LEMMA WriteBackKeepsSettings ==
    ASSUME SettingsInv, WriteBack
    PROVE  /\ SettingsInv'
           /\ DOMAIN disk' = DOMAIN disk /\ \A f \in DOMAIN disk : disk'[f] = disk[f]
<1> USE DEF SettingsInv, FileInv, GlobalInv, NetworkInv, WebInv, WithoutGlobal, WithoutNetwork
<1>1. /\ main = "write_back" /\ GlobalConfig \in GoodGlobal
      /\ disk["GLOBAL_FILE"] = <<GlobalConfig>> /\ web = "off"
      /\ main' = "http" /\ UNCHANGED Copies
  BY DEF WriteBack, OthersOfServers, server, records, Copies
<1>2. disk' = [disk EXCEPT !["GLOBAL_FILE"] = <<GlobalConfig>>]
  BY <1>1, WriteOne, RecordFacts DEF WriteBack
<1>3. DOMAIN disk' = DOMAIN disk /\ \A f \in DOMAIN disk : disk'[f] = disk[f]
  BY <1>1, <1>2
<1>4. disk'["GLOBAL_FILE"] = disk["GLOBAL_FILE"] /\ disk'["NETWORK_FILE"] = disk["NETWORK_FILE"]
  BY <1>3, RecordFacts
<1>5. QED
  BY <1>1, <1>3, <1>4 DEF Copies

\* The web server starts with copies of whole records.
LEMMA StartHttpKeepsSettings == SettingsInv /\ StartHttp => SettingsInv'
<1> SUFFICES ASSUME SettingsInv, StartHttp PROVE SettingsInv'
  OBVIOUS
<1> USE DEF SettingsInv, FileInv, GlobalInv, NetworkInv, WebInv, WithoutGlobal, WithoutNetwork
<1>1. /\ main = "http" /\ main' = "tcp" /\ web = "off" /\ form = NoForm
      /\ GlobalConfig \in GoodGlobal /\ NetworkConfig \in GoodNetwork
      /\ UNCHANGED <<disk, GlobalConfig, NetworkConfig, form>>
  BY DEF StartHttp, OthersOfServers, records
<1>2. \/ web' = "idle" /\ netconfig' = NetworkConfig /\ globalconfig' = GlobalConfig
      \/ UNCHANGED <<web, netconfig, globalconfig>>
  BY DEF StartHttp
<1>3. QED
  BY <1>1, <1>2

\* The steps of app_main that write neither file.
LEMMA OtherMainKeepsSettings ==
    ASSUME SettingsInv, TableInv,
           ControlTable \/ WriteRow \/ StartLink \/ LinkStarted \/ EthernetTimeout
             \/ StartTcp \/ Announce \/ Services
    PROVE  SettingsInv' /\ \A f \in Records : disk'[f] = disk[f]
<1> USE DEF Copies, records, server, Starting, Serving
<1>1. CASE ControlTable
  <2>1. CASE table > Len(Tables)
    BY <1>1, <2>1, MoveKeepsSettings DEF ControlTable, OthersOfTables
  <2>2. CASE ~(table > Len(Tables))
    <3>1. Tables[table] \in TableFiles
      BY <2>2, TablesAssumption DEF TableInv, TableFiles
    <3>2. DOMAIN disk' = DOMAIN disk /\ \A g \in Records : disk'[g] = disk[g]
      BY <1>1, <2>2, <3>1, TableWriteKeepsRecords DEF ControlTable
    <3>3. main = "tables" /\ main' \in {"tables", "rows"} /\ UNCHANGED Copies
      BY <1>1, <2>2 DEF ControlTable, OthersOfTables
    <3>4. QED
      BY <3>2, <3>3, MoveKeepsSettings
  <2>3. QED
    BY <2>1, <2>2
<1>2. CASE WriteRow
  <2>1. Tables[table] \in TableFiles
    BY <1>2, TablesAssumption DEF WriteRow, TableInv, TableFiles
  <2>2. DOMAIN disk' = DOMAIN disk /\ \A g \in Records : disk'[g] = disk[g]
    BY <1>2, <2>1, TableWriteKeepsRecords DEF WriteRow
  <2>3. main = "rows" /\ main' \in {"tables", "rows"} /\ UNCHANGED Copies
    BY <1>2 DEF WriteRow, OthersOfTables
  <2>4. QED
    BY <2>2, <2>3, MoveKeepsSettings
<1>3. CASE StartLink \/ LinkStarted
  <2>1. UNCHANGED <<disk, Copies>> /\ main \in Starting /\ main' \in Starting
    BY <1>3 DEF StartLink, LinkStarted, OthersOfLink
  <2>2. QED
    BY <2>1, MoveKeepsSettings
<1>4. CASE StartTcp \/ Services
  <2>1. UNCHANGED <<disk, Copies>> /\ main \in Serving /\ main' \in Serving
    BY <1>4 DEF StartTcp, Services, OthersOfServers
  <2>2. QED
    BY <2>1, MoveKeepsSettings
<1>5. CASE EthernetTimeout
  BY <1>5, RestartKeepsSettings DEF EthernetTimeout, Restart
<1>6. CASE Announce
  <2>1. CASE BroadcastAdr
    <3>1. UNCHANGED <<disk, Copies>> /\ main \in Serving /\ main' \in Serving
      BY <1>6, <2>1 DEF Announce, OthersOfServers
    <3>2. QED
      BY <3>1, MoveKeepsSettings
  <2>2. CASE ~BroadcastAdr
    BY <1>6, <2>2, RestartKeepsSettings DEF Announce, Restart
  <2>3. QED
    BY <2>1, <2>2
<1>7. QED
  BY <1>1, <1>2, <1>3, <1>4, <1>5, <1>6

\* The event loop: addresses and failures of the link, requests, power cuts.
LEMMA EventsKeepSettings ==
    ASSUME SettingsInv, TableInv, Events \/ Tcp \/ PowerCut \/ Plug \/ TimerFires \/ UNCHANGED vars
    PROVE  SettingsInv' /\ \A f \in Records : disk'[f] = disk[f]
<1> USE DEF Copies, records, server
<1>0. GEAR_FILE \in TableFiles
  BY TablesAssumption DEF GEAR_FILE, TableFiles
<1>1. CASE Events \/ Plug \/ UNCHANGED vars
  <2>1. UNCHANGED <<disk, main, Copies>>
    BY <1>1 DEF Events, GotIp, EthernetDown, WifiDown, OthersOfEvents, Plug, vars
  <2>2. QED
    BY <2>1, MoveKeepsSettings
<1>2. ASSUME NEW f \in TableFiles, NEW n \in 1 .. Rows, NEW record, StoreRow(f, n, record)
      PROVE  SettingsInv' /\ \A g \in Records : disk'[g] = disk[g]
  <2>1. UNCHANGED <<main, Copies>>
    BY <1>2 DEF StoreRow, OthersOfTcp
  <2>2. DOMAIN disk' = DOMAIN disk /\ \A g \in Records : disk'[g] = disk[g]
    BY <1>2, TableWriteKeepsRecords DEF StoreRow
  <2>3. QED
    BY <2>1, <2>2, MoveKeepsSettings
<1>3. CASE ClearNumber \/ ClearRow
  <2>1. UNCHANGED <<main, Copies>>
    BY <1>3 DEF ClearNumber, ClearRow, OthersOfTcp
  <2>2. DOMAIN disk' = DOMAIN disk /\ \A g \in Records : disk'[g] = disk[g]
    BY <1>0, <1>3, TableWriteKeepsRecords DEF ClearNumber, ClearRow
  <2>3. QED
    BY <2>1, <2>2, MoveKeepsSettings
<1>4. CASE Reset \/ PowerCut \/ TimerFires
  BY <1>4, RestartKeepsSettings DEF Reset, PowerCut, TimerFires, Restart
<1>5. ZAMAN_FILE \in TableFiles
  BY TablesAssumption DEF ZAMAN_FILE, TableFiles
<1>6. QED
  BY <1>0, <1>1, <1>2, <1>3, <1>4, <1>5 DEF Tcp, StoreLamp, SetZaman

\* A form goes into the copies, not yet to the files.
LEMMA SaveKeepsSettings ==
    ASSUME SettingsInv, NEW f \in Forms, Save(f)
    PROVE  SettingsInv' /\ UNCHANGED disk
<1> USE DEF SettingsInv, FileInv, GlobalInv, NetworkInv, WebInv
<1>1. /\ web = "idle" /\ web' = "save_network" /\ form' = f
      /\ netconfig \in GoodNetwork /\ globalconfig \in GoodGlobal
      /\ UNCHANGED <<disk, main, GlobalConfig, NetworkConfig>>
  BY DEF Save, OthersOfWeb, records
<1>2. /\ f.wan_type \in {0, 1, 2} /\ f.value \in Values
      /\ f.http \in {0, 1} /\ f.tcp \in {0, 1}
  BY FormsAssumption
<1>3. netconfig' = SavedNetwork(f) /\ netconfig' \in GoodNetwork
  BY <1>1, <1>2 DEF Save, GoodNetwork, NetworkRecords, SavedNetwork
<1>4. globalconfig' = SavedGlobal(f) /\ globalconfig' \in GoodGlobal
  BY <1>1, <1>2 DEF Save, GoodGlobal, GlobalRecords, SavedGlobal
<1>5. QED
  BY <1>1, <1>3, <1>4

\* The copy of the network record replaces the one on the disk.
LEMMA SaveNetworkKeepsSettings ==
    ASSUME SettingsInv, SaveNetwork
    PROVE  /\ SettingsInv'
           /\ form \in Forms /\ disk'["NETWORK_FILE"] = <<SavedNetwork(form)>>
           /\ disk["NETWORK_FILE"] \notin {Missing, <<>>} /\ disk'["GLOBAL_FILE"] = disk["GLOBAL_FILE"]
<1> USE DEF SettingsInv, FileInv, GlobalInv, NetworkInv, WebInv, WithoutGlobal, WithoutNetwork
<1>1. /\ web = "save_network" /\ web' = "save_global" /\ main \in Serving
      /\ netconfig \in GoodNetwork /\ netconfig = SavedNetwork(form) /\ form \in Forms
      /\ UNCHANGED <<main, GlobalConfig, NetworkConfig, form, netconfig, globalconfig>>
  BY DEF SaveNetwork, OthersOfWeb, records, Serving
<1>2. PICK r \in GoodNetwork : disk["NETWORK_FILE"] = <<r>>
  BY <1>1 DEF Serving
<1>3. disk' = [disk EXCEPT !["NETWORK_FILE"] = <<netconfig>>]
  BY <1>2, WriteOne, RecordFacts DEF SaveNetwork
<1>4. /\ DOMAIN disk' = DOMAIN disk
      /\ disk'["NETWORK_FILE"] = <<netconfig>> /\ disk'["GLOBAL_FILE"] = disk["GLOBAL_FILE"]
  BY <1>3, RecordFacts
<1>5. <<netconfig>> \notin {Missing, <<>>} /\ <<r>> \notin {Missing, <<>>}
  BY <1>1, RecordFacts
<1>6. QED
  BY <1>1, <1>2, <1>4, <1>5 DEF Serving

\* The copy of the global record follows.
LEMMA SaveGlobalKeepsSettings ==
    ASSUME SettingsInv, SaveGlobal
    PROVE  /\ SettingsInv'
           /\ form \in Forms /\ disk'["GLOBAL_FILE"] = <<SavedGlobal(form)>>
           /\ disk["GLOBAL_FILE"] \notin {Missing, <<>>} /\ disk'["NETWORK_FILE"] = disk["NETWORK_FILE"]
<1> USE DEF SettingsInv, FileInv, GlobalInv, NetworkInv, WebInv, WithoutGlobal, WithoutNetwork
<1>1. /\ web = "save_global" /\ web' = "answer" /\ main \in Serving
      /\ globalconfig \in GoodGlobal /\ globalconfig = SavedGlobal(form) /\ form \in Forms
      /\ UNCHANGED <<main, GlobalConfig, NetworkConfig, form, netconfig, globalconfig>>
  BY DEF SaveGlobal, OthersOfWeb, records, Serving
<1>2. PICK r \in GoodGlobal : disk["GLOBAL_FILE"] = <<r>>
  BY <1>1 DEF Serving
<1>3. disk' = [disk EXCEPT !["GLOBAL_FILE"] = <<globalconfig>>]
  BY <1>2, WriteOne, RecordFacts DEF SaveGlobal
<1>4. /\ DOMAIN disk' = DOMAIN disk
      /\ disk'["GLOBAL_FILE"] = <<globalconfig>> /\ disk'["NETWORK_FILE"] = disk["NETWORK_FILE"]
  BY <1>3, RecordFacts
<1>5. <<globalconfig>> \notin {Missing, <<>>} /\ <<r>> \notin {Missing, <<>>}
  BY <1>1, RecordFacts
<1>6. QED
  BY <1>1, <1>2, <1>4, <1>5 DEF Serving

\* Answers write nothing.
LEMMA AnswerKeepsSettings ==
    ASSUME SettingsInv, Answer \/ DefaultReset
    PROVE  SettingsInv' /\ UNCHANGED disk
BY DEF Answer, DefaultReset, OthersOfWeb, records, SettingsInv, FileInv, GlobalInv, NetworkInv, WebInv

\* The settings files through any step.
LEMMA SettingsStep ==
    ASSUME SettingsInv, TableInv, [Next]_vars
    PROVE  SettingsInv'
<1>1. CASE Main
  BY <1>1, ReadGlobalKeepsSettings, CreateGlobalKeepsSettings, WriteGlobalKeepsSettings,
     CheckGlobalKeepsSettings, ReadNetworkKeepsSettings, CreateNetworkKeepsSettings,
     WriteNetworkKeepsSettings, CheckNetworkKeepsSettings, WriteBackKeepsSettings,
     StartHttpKeepsSettings, OtherMainKeepsSettings DEF Main
<1>2. CASE Web
  BY <1>2, SaveKeepsSettings, SaveNetworkKeepsSettings, SaveGlobalKeepsSettings,
     AnswerKeepsSettings DEF Web
<1>3. CASE Events \/ Tcp \/ TimerFires \/ PowerCut \/ Plug \/ UNCHANGED vars
  BY <1>3, EventsKeepSettings
<1>4. QED
  BY <1>1, <1>2, <1>3 DEF Next
-----------------------------------------------------------------------------
(* The tables. *)

Cells == {"free", "used"}

\* Writing a row changes no other row and adds at most one at the end.
LEMMA RowWritten ==
    ASSUME NEW d, NEW f \in DOMAIN d, d[f] \in Seq(Cells), NEW n \in Nat \ {0},
           NEW rec \in Cells, NEW e \in WriteFile(d, f, n, rec)
    PROVE  /\ e[f] \in Seq(Cells)
           /\ n <= Len(d[f]) => Len(e[f]) = Len(d[f])
           /\ n = Len(d[f]) + 1 => Len(e[f]) = n
           /\ Len(e[f]) = Len(d[f]) \/ (n > Len(d[f]) /\ Len(e[f]) = Len(d[f]) + 1)
           /\ \A m \in DOMAIN d[f] : m \in DOMAIN e[f] /\ (m # n => e[f][m] = d[f][m])
           /\ n \in DOMAIN d[f] => e[f][n] = rec
<1>1. d[f] # Missing
  BY MissingAssumption DEF Cells
<1>2. CASE n <= Len(d[f])
  <2>1. e[f] = [d[f] EXCEPT ![n] = rec]
    BY <1>1, <1>2 DEF WriteFile, FileSearch
  <2>2. QED
    BY <1>2, <2>1
<1>3. CASE ~(n <= Len(d[f]))
  <2>1. e[f] = Append(d[f], rec) \/ (e[f] = d[f] /\ n # Len(d[f]) + 1)
    BY <1>1, <1>3 DEF WriteFile, FileSearch
  <2>2. QED
    BY <1>3, <2>1
<1>4. QED
  BY <1>2, <1>3

RowsStay ==
    \A f \in TableFiles : disk[f] # Missing =>
        \A n \in DOMAIN disk[f] :
            disk[f][n] = "used" => \/ disk'[f] # Missing /\ n \in DOMAIN disk'[f] /\ disk'[f][n] = "used"
                                   \/ f = GEAR_FILE /\ ClearNumber
                                   \/ f = ZAMAN_FILE /\ SetZaman(n, "free")

\* A new device has no tables, and nobody is writing one.
LEMMA TableInit == Init => TableInv
<1> SUFFICES ASSUME Init PROVE TableInv
  OBVIOUS
<1>1. /\ main = "global" /\ table = 1 /\ row = 1 /\ clearing = 0 /\ ~BroadcastAdr
      /\ \A f \in TableFiles : disk[f] = Missing
  BY DEF Init
<1>2. table \in 1 .. Len(Tables) + 1 /\ row \in 1 .. Rows /\ clearing \in 0 .. Rows
  BY <1>1, TablesAssumption, RowsAssumption
<1>3. main \notin AfterConfig \cup {"link", "rows"} /\ 1 .. table - 1 = {}
  BY <1>1 DEF AfterConfig
<1>4. QED
  BY <1>1, <1>2, <1>3 DEF TableInv

\* A restart writes no row, and counts the table being written as torn.
LEMMA RestartKeepsTables ==
    ASSUME TableInv, Restart
    PROVE  TableInv' /\ RowsStay
BY TablesAssumption, RowsAssumption DEF Restart, Fresh, TableInv, RowsStay, AfterConfig, TableFiles

\* Steps that leave the tables and their writers as they are.
LEMMA OtherStepKeepsTables ==
    ASSUME TableInv, UNCHANGED <<table, row, clearing, torn>>,
           \A f \in TableFiles : disk'[f] = disk[f],
           main' = "rows" <=> main = "rows",
           main' \in AfterConfig \cup {"link"} => main \in AfterConfig \cup {"link"},
           BroadcastAdr' \/ clearing' # 0 => main' \in {"announce", "services", "up"}
    PROVE  TableInv' /\ RowsStay
<1>1. Tables \in Seq(STRING) /\ GEAR_FILE \in TableFiles
  BY TablesAssumption DEF TableFiles, GEAR_FILE
<1>2. table \in Nat /\ \A i \in 1 .. table - 1 : Tables[i] \in TableFiles
  BY <1>1 DEF TableInv, TableFiles
<1>3. main = "rows" => Tables[table] \in TableFiles
  BY <1>1 DEF TableInv, TableFiles
<1>4. /\ \A i \in 1 .. table - 1 : disk'[Tables[i]] = disk[Tables[i]]
      /\ main = "rows" => disk'[Tables[table]] = disk[Tables[table]]
      /\ disk'[GEAR_FILE] = disk[GEAR_FILE]
  BY <1>1, <1>2, <1>3
<1>5. TableInv'
  BY <1>4 DEF TableInv
<1>6. RowsStay
  BY DEF RowsStay
<1>7. QED
  BY <1>5, <1>6

\* An absent table is created without rows, and one that exists is passed over.
LEMMA ControlTableKeepsTables ==
    ASSUME SettingsInv, TableInv, ControlTable
    PROVE  TableInv' /\ RowsStay
<1>1. Tables \in Seq(STRING) /\ \A i \in DOMAIN Tables : Tables[i] \in TableFiles
  BY TablesAssumption DEF TableFiles
<1>2. /\ main = "tables" /\ clearing = 0 /\ ~BroadcastAdr
      /\ UNCHANGED <<BroadcastAdr, clearing, torn>>
  BY DEF ControlTable, OthersOfTables, TableInv
<1>3. CASE table > Len(Tables)
  <2>1. main' = "link" /\ UNCHANGED <<disk, table, row>> /\ table = Len(Tables) + 1
    BY <1>1, <1>3 DEF ControlTable, TableInv
  <2>2. QED
    BY <1>2, <2>1 DEF TableInv, RowsStay
<1>4. CASE table <= Len(Tables) /\ disk[Tables[table]] # Missing
  <2>1. disk' = disk /\ table' = table + 1 /\ main' = main /\ row' = row
    BY <1>1, <1>4 DEF ControlTable, FileControl, FileSearch, TableInv
  <2>2. \A i \in 1 .. table' - 1 : disk'[Tables[i]] # Missing
    BY <1>4, <2>1 DEF TableInv
  <2>3. table' \in 1 .. Len(Tables) + 1
    BY <1>1, <1>4, <2>1 DEF TableInv
  <2>4. QED
    BY <1>2, <2>1, <2>2, <2>3 DEF TableInv, RowsStay, AfterConfig
<1>5. CASE table <= Len(Tables) /\ disk[Tables[table]] = Missing
  <2>1. /\ disk' = [disk EXCEPT ![Tables[table]] = <<>>]
        /\ table' = table /\ main' = "rows" /\ row' = 1
    BY <1>1, <1>5 DEF ControlTable, FileControl, FileSearch, TableInv
  <2>2. /\ Tables[table] \in DOMAIN disk /\ TableFiles \subseteq DOMAIN disk
        /\ <<>> \in Seq(Cells) /\ <<>> # Missing /\ Len(<<>>) = 0
    <3>1. <<>> \in Seq(Cells) /\ Len(<<>>) = 0
      OBVIOUS
    <3>2. <<>> # Missing
      BY <3>1, MissingAssumption DEF Cells
    <3>3. Tables[table] \in TableFiles
      BY <1>1, <1>5 DEF TableInv
    <3>4. QED
      BY <3>1, <3>2, <3>3 DEF SettingsInv, FileInv
  <2>3. \A f \in TableFiles : disk'[f] = IF f = Tables[table] THEN <<>> ELSE disk[f]
    BY <2>1, <2>2
  <2>4. RowsStay
    BY <1>5, <2>3 DEF RowsStay
  <2>5. \A i \in 1 .. table - 1 : disk'[Tables[i]] # Missing
    BY <1>1, <2>2, <2>3 DEF TableInv
  <2>6. \A f \in TableFiles : disk'[f] # Missing => disk'[f] \in Seq(Cells) /\ Len(disk'[f]) <= Rows
    <3>1. 0 <= Rows
      BY RowsAssumption
    <3>2. SUFFICES ASSUME NEW f \in TableFiles, disk'[f] # Missing
                   PROVE  disk'[f] \in Seq(Cells) /\ Len(disk'[f]) <= Rows
      OBVIOUS
    <3>3. CASE f = Tables[table]
      BY <2>2, <2>3, <3>1, <3>3
    <3>4. CASE f # Tables[table]
      BY <2>3, <3>2, <3>4 DEF TableInv, Cells
    <3>5. QED
      BY <3>3, <3>4
  <2>7. \A f \in TableFiles \ torn : disk'[f] # Missing => Len(disk'[f]) = Rows \/ f = Tables[table]
    BY <1>2, <2>3 DEF TableInv
  <2>8. disk'[Tables[table]] = <<>> /\ disk'[Tables[table]] # Missing
    BY <2>1, <2>2
  <2>9. QED
    BY <1>2, <1>5, <2>1, <2>2, <2>4, <2>5, <2>6, <2>7, <2>8, RowsAssumption DEF TableInv, AfterConfig, Cells
<1>6. QED
  BY <1>1, <1>3, <1>4, <1>5 DEF TableInv

\* config() writes the row after the last one.
LEMMA WriteRowKeepsTables ==
    ASSUME SettingsInv, TableInv, WriteRow
    PROVE  TableInv' /\ RowsStay
<1> DEFINE f == Tables[table]
<1>1. /\ main = "rows" /\ clearing = 0 /\ ~BroadcastAdr /\ row \in 1 .. Rows
      /\ UNCHANGED <<BroadcastAdr, clearing, torn>>
      /\ table \in 1 .. Len(Tables) /\ Tables \in Seq(STRING)
      /\ disk[f] # Missing /\ disk[f] \in Seq(Cells) /\ Len(disk[f]) = row - 1
      /\ f \in TableFiles /\ f \in DOMAIN disk /\ TableFiles \subseteq DOMAIN disk
  <2>1. table \in DOMAIN Tables /\ Tables \in Seq(STRING)
    BY TablesAssumption DEF WriteRow, TableInv
  <2>2. f \in TableFiles
    BY <2>1 DEF TableFiles
  <2>3. QED
    BY <2>1, <2>2, TablesAssumption DEF WriteRow, OthersOfTables, TableInv, SettingsInv, FileInv, Cells
<1>2. disk' \in WriteFile(disk, f, row, "free") /\ "free" \in Cells /\ row \in Nat \ {0}
  BY <1>1 DEF WriteRow, Cells
<1>3. /\ disk'[f] \in Seq(Cells) /\ Len(disk'[f]) = row
      /\ \A m \in DOMAIN disk[f] : m \in DOMAIN disk'[f] /\ disk'[f][m] = disk[f][m]
  BY <1>1, <1>2, RowWritten
<1>4. \A g \in TableFiles : g # f => disk'[g] = disk[g]
  BY <1>1, <1>2, OthersKept
<1>5. disk'[f] # Missing
  BY <1>3, MissingAssumption DEF Cells
<1>6. RowsStay
  BY <1>3, <1>4, <1>5 DEF RowsStay
<1>7. \A g \in TableFiles : disk'[g] # Missing => disk'[g] \in Seq(Cells) /\ Len(disk'[g]) <= Rows
  BY <1>1, <1>3, <1>4 DEF TableInv, Cells
<1>8. \A i \in 1 .. table : Tables[i] \in TableFiles /\ disk'[Tables[i]] # Missing
  <2>1. ASSUME NEW i \in 1 .. table PROVE Tables[i] \in TableFiles /\ disk'[Tables[i]] # Missing
    <3>1. Tables[i] \in TableFiles
      BY <1>1 DEF TableFiles
    <3>2. i = table \/ i \in 1 .. table - 1
      BY <1>1
    <3>3. QED
      BY <1>4, <1>5, <3>1, <3>2 DEF TableInv
  <2>2. QED
    BY <2>1
<1>9. \A g \in TableFiles \ torn : disk'[g] # Missing => Len(disk'[g]) = Rows \/ g = f
  BY <1>1, <1>4 DEF TableInv
<1>10. CASE row < Rows
  <2>1. row' = row + 1 /\ main' = main /\ table' = table
    BY <1>10 DEF WriteRow, LastRow
  <2>2. QED
    BY <1>1, <1>3, <1>5, <1>6, <1>7, <1>8, <1>9, <1>10, <2>1, RowsAssumption DEF TableInv, AfterConfig, Cells
<1>11. CASE ~(row < Rows)
  <2>1. row' = row /\ main' = "tables" /\ table' = table + 1 /\ row = Rows
    BY <1>1, <1>11, RowsAssumption DEF WriteRow, LastRow
  <2>2. QED
    BY <1>1, <1>3, <1>5, <1>6, <1>7, <1>8, <1>9, <2>1 DEF TableInv, AfterConfig, Cells
<1>12. QED
  BY <1>10, <1>11

\* Once the servers run every table exists, and config() writes none.
LEMMA ServedTables ==
    ASSUME SettingsInv, TableInv, BroadcastAdr \/ clearing # 0
    PROVE  /\ main \in {"announce", "services", "up"}
           /\ GEAR_FILE \in TableFiles /\ TableFiles \subseteq DOMAIN disk
           /\ \A f \in TableFiles : disk[f] # Missing /\ disk[f] \in Seq(Cells)
<1>1. main \in {"announce", "services", "up"} /\ table = Len(Tables) + 1
  BY DEF TableInv, AfterConfig
<1>2. ASSUME NEW f \in TableFiles PROVE disk[f] # Missing
  <2>1. PICK i \in DOMAIN Tables : f = Tables[i]
    BY DEF TableFiles
  <2>2. i \in 1 .. table - 1
    BY <1>1, <2>1, TablesAssumption
  <2>3. QED
    BY <2>1, <2>2 DEF TableInv
<1>3. QED
  BY <1>1, <1>2, TablesAssumption DEF TableInv, SettingsInv, FileInv, Cells, GEAR_FILE, TableFiles

\* A request stores one row; only a schedule may take the place of a stored one and
\* be free.
LEMMA StoreRowKeepsTables ==
    ASSUME SettingsInv, TableInv, NEW f \in TableFiles, NEW n \in 1 .. Rows, NEW record \in Cells,
           StoreRow(f, n, record), record = "used" \/ f = ZAMAN_FILE
    PROVE  TableInv' /\ RowsStay
<1>1. /\ BroadcastAdr /\ clearing = 0 /\ main \in {"announce", "services", "up"}
      /\ UNCHANGED <<main, table, row, BroadcastAdr, clearing, torn>>
      /\ f \in DOMAIN disk /\ TableFiles \subseteq DOMAIN disk
      /\ disk[f] # Missing /\ disk[f] \in Seq(Cells) /\ Len(disk[f]) <= Rows
  BY ServedTables DEF StoreRow, OthersOfTcp, startup, TableInv
<1>2. disk' \in WriteFile(disk, f, n, record) /\ n \in Nat \ {0}
  BY RowsAssumption DEF StoreRow
<1>3. /\ disk'[f] \in Seq(Cells)
      /\ Len(disk'[f]) = Len(disk[f]) \/ (n > Len(disk[f]) /\ Len(disk'[f]) = Len(disk[f]) + 1)
      /\ \A m \in DOMAIN disk[f] : m \in DOMAIN disk'[f] /\ (m # n => disk'[f][m] = disk[f][m])
      /\ n \in DOMAIN disk[f] => disk'[f][n] = record
  BY <1>1, <1>2, RowWritten
<1>4. \A g \in TableFiles : g # f => disk'[g] = disk[g]
  BY <1>1, <1>2, OthersKept
<1>5. disk'[f] # Missing
  BY <1>3, MissingAssumption DEF Cells
<1>6. RowsStay
  <2>1. SUFFICES ASSUME NEW g \in TableFiles, disk[g] # Missing,
                        NEW m \in DOMAIN disk[g], disk[g][m] = "used"
                 PROVE  \/ disk'[g] # Missing /\ m \in DOMAIN disk'[g] /\ disk'[g][m] = "used"
                        \/ g = ZAMAN_FILE /\ SetZaman(m, "free")
    BY DEF RowsStay
  <2>2. CASE g # f \/ m # n \/ record = "used"
    <3>1. disk'[g] # Missing
      BY <1>4, <1>5, <2>1
    <3>2. m \in DOMAIN disk'[g] /\ disk'[g][m] = "used"
      BY <1>3, <1>4, <2>1, <2>2
    <3>3. QED
      BY <3>1, <3>2
  <2>3. CASE g = f /\ m = n /\ record = "free"
    BY <2>3 DEF SetZaman
  <2>4. QED
    BY <2>2, <2>3 DEF Cells
<1>7. Len(disk'[f]) <= Rows /\ (Len(disk[f]) = Rows => Len(disk'[f]) = Rows)
  BY <1>1, <1>3, RowsAssumption
<1>8. \A g \in TableFiles : disk'[g] # Missing => disk'[g] \in Seq(Cells) /\ Len(disk'[g]) <= Rows
  BY <1>3, <1>4, <1>7 DEF TableInv, Cells
<1>9. \A i \in 1 .. table - 1 : disk'[Tables[i]] # Missing
  <2>1. \A i \in 1 .. table - 1 : Tables[i] \in TableFiles
    BY TablesAssumption DEF TableInv, TableFiles
  <2>2. QED
    BY <1>4, <1>5, <2>1 DEF TableInv
<1>10. \A g \in TableFiles \ torn : disk'[g] # Missing => Len(disk'[g]) = Rows
  BY <1>1, <1>4, <1>7 DEF TableInv
<1>11. QED
  BY <1>1, <1>6, <1>8, <1>9, <1>10 DEF TableInv, AfterConfig, Cells

\* clear_number empties the file of the lamps.
LEMMA ClearNumberKeepsTables ==
    ASSUME SettingsInv, TableInv, ClearNumber
    PROVE  TableInv' /\ RowsStay
<1>1. /\ BroadcastAdr /\ main \in {"announce", "services", "up"} /\ clearing' = 1
      /\ clearing = 0 /\ UNCHANGED <<main, table, row, BroadcastAdr, torn>>
      /\ GEAR_FILE \in TableFiles /\ GEAR_FILE \in DOMAIN disk /\ disk[GEAR_FILE] # Missing
      /\ TableFiles \subseteq DOMAIN disk
  BY ServedTables DEF ClearNumber, OthersOfTcp, startup
<1>2. disk' = [disk EXCEPT ![GEAR_FILE] = <<>>]
  BY <1>1 DEF ClearNumber, FileEmpty, FileSearch
<1>3. \A f \in TableFiles : disk'[f] = IF f = GEAR_FILE THEN <<>> ELSE disk[f]
  BY <1>1, <1>2
<1>4. <<>> \in Seq(Cells) /\ <<>> # Missing /\ Len(<<>>) = 0
  <2>1. <<>> \in Seq(Cells) /\ Len(<<>>) = 0
    OBVIOUS
  <2>2. QED
    BY <2>1, MissingAssumption DEF Cells
<1>5. RowsStay
  BY <1>1, <1>3 DEF RowsStay
<1>6. \A i \in 1 .. table - 1 : disk'[Tables[i]] # Missing
  <2>1. \A i \in 1 .. table - 1 : Tables[i] \in TableFiles
    BY TablesAssumption DEF TableInv, TableFiles
  <2>2. QED
    BY <1>3, <1>4, <2>1 DEF TableInv
<1>7. ASSUME NEW f \in TableFiles, disk'[f] # Missing
      PROVE  disk'[f] \in Seq(Cells) /\ Len(disk'[f]) <= Rows
  <2>1. 0 <= Rows
    BY RowsAssumption
  <2>2. CASE f = GEAR_FILE
    BY <1>3, <1>4, <2>1, <2>2
  <2>3. CASE f # GEAR_FILE
    BY <1>3, <1>7, <2>3 DEF TableInv, Cells
  <2>4. QED
    BY <2>2, <2>3
<1>8. \A f \in TableFiles \ torn : disk'[f] # Missing => Len(disk'[f]) = Rows \/ f = GEAR_FILE
  BY <1>1, <1>3 DEF TableInv
<1>9. disk'[GEAR_FILE] = <<>> /\ 1 \in 0 .. Rows
  BY <1>1, <1>3, RowsAssumption
<1>10. QED
  BY <1>1, <1>4, <1>5, <1>6, <1>7, <1>8, <1>9 DEF TableInv, AfterConfig, Cells

\* clear_number writes the row after the last one.
LEMMA ClearRowKeepsTables ==
    ASSUME SettingsInv, TableInv, ClearRow
    PROVE  TableInv' /\ RowsStay
<1> DEFINE f == GEAR_FILE
<1>1. /\ clearing \in 1 .. Rows /\ main \in {"announce", "services", "up"}
      /\ UNCHANGED <<main, table, row, BroadcastAdr, torn>>
      /\ f \in TableFiles /\ f \in DOMAIN disk /\ TableFiles \subseteq DOMAIN disk
      /\ disk[f] \in Seq(Cells) /\ Len(disk[f]) = clearing - 1
      /\ clearing' = IF clearing < Rows THEN clearing + 1 ELSE 0
  <2>1. clearing # 0 /\ clearing \in 0 .. Rows /\ Len(disk[f]) = clearing - 1
    BY DEF ClearRow, TableInv
  <2>2. QED
    BY <2>1, ServedTables, RowsAssumption DEF ClearRow, OthersOfTcp, startup, LastRow
<1>2. disk' \in WriteFile(disk, f, clearing, "free") /\ "free" \in Cells /\ clearing \in Nat \ {0}
  BY <1>1 DEF ClearRow, Cells
<1>3. /\ disk'[f] \in Seq(Cells) /\ Len(disk'[f]) = clearing
      /\ \A m \in DOMAIN disk[f] : m \in DOMAIN disk'[f] /\ disk'[f][m] = disk[f][m]
  BY <1>1, <1>2, RowWritten
<1>4. \A g \in TableFiles : g # f => disk'[g] = disk[g]
  BY <1>1, <1>2, OthersKept
<1>5. disk'[f] # Missing
  BY <1>3, MissingAssumption DEF Cells
<1>6. RowsStay
  BY <1>3, <1>4, <1>5 DEF RowsStay
<1>7. \A g \in TableFiles : disk'[g] # Missing => disk'[g] \in Seq(Cells) /\ Len(disk'[g]) <= Rows
  BY <1>1, <1>3, <1>4 DEF TableInv, Cells
<1>8. \A i \in 1 .. table - 1 : disk'[Tables[i]] # Missing
  <2>1. \A i \in 1 .. table - 1 : Tables[i] \in TableFiles
    BY TablesAssumption DEF TableInv, TableFiles
  <2>2. QED
    BY <1>4, <1>5, <2>1 DEF TableInv
<1>9. \A g \in TableFiles \ torn : disk'[g] # Missing => Len(disk'[g]) = Rows \/ g = f
  BY <1>1, <1>4 DEF TableInv
<1>10. clearing' = 0 \/ (clearing' \in 1 .. Rows /\ Len(disk'[f]) = clearing' - 1)
  BY <1>1, <1>3, RowsAssumption
<1>11. clearing' = 0 => Len(disk'[f]) = Rows
  BY <1>1, <1>3, RowsAssumption
<1>12. clearing' \in 0 .. Rows
  BY <1>10, RowsAssumption
<1>13. QED
  BY <1>1, <1>5, <1>6, <1>7, <1>8, <1>9, <1>10, <1>11, <1>12 DEF TableInv, AfterConfig, Cells

\* Saving the settings leaves the tables alone.
LEMMA RecordWriteKeepsTables ==
    ASSUME SettingsInv, NEW f \in Records, NEW rec,
           disk' \in WriteFile(disk, f, 1, rec) \cup {FileControl(disk, f), disk}
    PROVE  \A g \in TableFiles : disk'[g] = disk[g]
<1>1. f \in DOMAIN disk /\ TableFiles \subseteq DOMAIN disk /\ f \notin TableFiles
  BY TablesAssumption DEF SettingsInv, FileInv
<1>2. CASE disk' \in WriteFile(disk, f, 1, rec)
  BY <1>1, <1>2, OthersKept
<1>3. CASE disk' \in {FileControl(disk, f), disk}
  BY <1>1, <1>3 DEF FileControl
<1>4. QED
  BY <1>2, <1>3

\* The tables through the steps of app_main.
LEMMA MainKeepsTables ==
    ASSUME SettingsInv, TableInv, Main
    PROVE  TableInv' /\ RowsStay
<1>1. CASE ReadGlobal \/ CreateGlobal \/ WriteGlobal \/ ReadNetwork \/ CreateNetwork \/ WriteNetwork
  <2>1. /\ main \in WithoutGlobal \cup WithoutNetwork
        /\ main' \in WithoutGlobal \cup WithoutNetwork \cup {"tables"}
        /\ UNCHANGED <<table, row, BroadcastAdr, clearing, torn>>
    BY <1>1 DEF ReadGlobal, CreateGlobal, WriteGlobal, ReadNetwork, CreateNetwork, WriteNetwork,
       OthersOfConfig, startup, WithoutGlobal, WithoutNetwork
  <2>2. ~BroadcastAdr /\ clearing = 0
    BY <2>1 DEF TableInv, WithoutGlobal, WithoutNetwork
  <2>3. \A f \in TableFiles : disk'[f] = disk[f]
    <3>1. CASE ReadGlobal \/ ReadNetwork
      BY <3>1 DEF ReadGlobal, ReadNetwork
    <3>2. CASE CreateGlobal \/ WriteGlobal
      BY <3>2, RecordWriteKeepsTables DEF CreateGlobal, WriteGlobal, Records
    <3>3. CASE CreateNetwork \/ WriteNetwork
      BY <3>3, RecordWriteKeepsTables DEF CreateNetwork, WriteNetwork, Records
    <3>4. QED
      BY <1>1, <3>1, <3>2, <3>3
  <2>4. QED
    BY <2>1, <2>2, <2>3, OtherStepKeepsTables DEF AfterConfig, WithoutGlobal, WithoutNetwork
<1>2. CASE CheckGlobal \/ CheckNetwork
  <2>1. CASE Restart
    BY <2>1, RestartKeepsTables
  <2>2. CASE ~Restart
    <3>1. /\ main \in {"check_global", "check_network"} /\ main' \in {"network", "tables"}
          /\ UNCHANGED <<disk, table, row, BroadcastAdr, clearing, torn>>
      BY <1>2, <2>2 DEF CheckGlobal, CheckNetwork, OthersOfConfig, startup
    <3>2. ~BroadcastAdr /\ clearing = 0
      BY <3>1 DEF TableInv
    <3>3. QED
      BY <3>1, <3>2, OtherStepKeepsTables DEF AfterConfig
  <2>3. QED
    BY <2>1, <2>2
<1>3. CASE StartLink \/ LinkStarted \/ StartHttp
  <2>1. /\ main \in AfterConfig \cup {"link"} /\ main' \in AfterConfig
        /\ main \notin {"announce", "services", "up"}
        /\ UNCHANGED <<disk, table, row, BroadcastAdr, clearing, torn>>
    BY <1>3 DEF StartLink, LinkStarted, StartHttp, OthersOfLink, OthersOfServers, AfterConfig
  <2>2. ~BroadcastAdr /\ clearing = 0
    BY <2>1 DEF TableInv
  <2>3. QED
    BY <2>1, <2>2, OtherStepKeepsTables DEF AfterConfig
<1>4. CASE WriteBack
  <2>1. /\ main = "write_back" /\ main' = "http"
        /\ UNCHANGED <<table, row, BroadcastAdr, clearing, torn>>
    BY <1>4 DEF WriteBack, OthersOfServers
  <2>2. ~BroadcastAdr /\ clearing = 0
    BY <2>1 DEF TableInv
  <2>3. \A f \in TableFiles : disk'[f] = disk[f]
    BY <1>4, RecordWriteKeepsTables DEF WriteBack, Records
  <2>4. QED
    BY <2>1, <2>2, <2>3, OtherStepKeepsTables DEF AfterConfig
<1>5. CASE StartTcp \/ Services
  <2>1. /\ main \in {"tcp", "services"} /\ main' \in {"announce", "up"}
        /\ UNCHANGED <<disk, table, row, clearing, torn>>
    BY <1>5 DEF StartTcp, Services, OthersOfServers
  <2>2. QED
    BY <2>1, OtherStepKeepsTables DEF AfterConfig
<1>6. CASE EthernetTimeout \/ Announce
  <2>1. CASE Restart
    BY <2>1, RestartKeepsTables
  <2>2. CASE ~Restart
    <3>1. /\ main = "announce" /\ main' = "services"
          /\ UNCHANGED <<disk, table, row, BroadcastAdr, clearing, torn>>
      BY <1>6, <2>2 DEF EthernetTimeout, Announce, OthersOfServers
    <3>2. QED
      BY <3>1, OtherStepKeepsTables DEF AfterConfig
  <2>3. QED
    BY <2>1, <2>2
<1>7. QED
  BY <1>1, <1>2, <1>3, <1>4, <1>5, <1>6, ControlTableKeepsTables, WriteRowKeepsTables DEF Main

\* The tables through any step.
LEMMA TableStep ==
    ASSUME SettingsInv, TableInv, [Next]_vars
    PROVE  TableInv' /\ RowsStay
<1>1. CASE Events \/ Plug \/ UNCHANGED vars
  <2>1. UNCHANGED <<disk, main, table, row, BroadcastAdr, clearing, torn>>
    BY <1>1 DEF Events, GotIp, EthernetDown, WifiDown, OthersOfEvents, Plug, vars, startup
  <2>2. QED
    BY <2>1, OtherStepKeepsTables DEF TableInv
<1>2. CASE Web
  <2>1. UNCHANGED <<main, table, row, BroadcastAdr, clearing, torn>>
    BY <1>2 DEF Web, Save, SaveNetwork, SaveGlobal, Answer, DefaultReset, OthersOfWeb, startup
  <2>2. \A f \in TableFiles : disk'[f] = disk[f]
    <3>1. CASE SaveNetwork \/ SaveGlobal
      BY <3>1, RecordWriteKeepsTables DEF SaveNetwork, SaveGlobal, Records
    <3>2. CASE ~(SaveNetwork \/ SaveGlobal)
      BY <1>2, <3>2 DEF Web, Save, Answer, DefaultReset
    <3>3. QED
      BY <3>1, <3>2
  <2>3. QED
    BY <2>1, <2>2, OtherStepKeepsTables DEF TableInv
<1>3. CASE Reset \/ PowerCut \/ TimerFires
  BY <1>3, RestartKeepsTables DEF Reset, PowerCut, TimerFires
<1>4. CASE \E n \in 1 .. Rows :
              StoreLamp(n) \/ \E record \in {"free", "used"} : SetZaman(n, record)
  <2>1. GEAR_FILE \in TableFiles /\ ZAMAN_FILE \in TableFiles
    BY TablesAssumption DEF GEAR_FILE, ZAMAN_FILE, TableFiles
  <2>2. QED
    BY <1>4, <2>1, StoreRowKeepsTables DEF StoreLamp, SetZaman, Cells
<1>5. QED
  BY <1>1, <1>2, <1>3, <1>4, MainKeepsTables, ClearNumberKeepsTables, ClearRowKeepsTables
  DEF Next, Tcp

-----------------------------------------------------------------------------
(* The theorems. *)

IInv == SettingsInv /\ TableInv

\* What the other theorems follow from: the settings files and the tables,
\* place by place of app_main, the web server and clear_number.
THEOREM BootInvariant == Spec => []IInv
<1>1. Init => IInv
  BY SettingsInit, TableInit DEF IInv
<1>2. IInv /\ [Next]_vars => IInv'
  BY SettingsStep, TableStep DEF IInv
<1>3. QED
  BY <1>1, <1>2, PTL DEF Spec

\* config() ends with both records on the disk and in memory, whatever a power
\* cut has left, for any forms and any number of cuts (config.cpp:82-97).
THEOREM BootConfigRepaired == Spec => []ConfigRepaired
<1>1. IInv => ConfigRepaired
  BY DEF IInv, SettingsInv, FileInv, GlobalInv, NetworkInv, ConfigRepaired, BeforeLink, AfterConfig,
     WithoutGlobal, WithoutNetwork, GoodGlobal, GoodNetwork, Records
<1>2. QED
  BY <1>1, BootInvariant, PTL

\* Past config() a table that no restart has torn has all its rows, for any
\* tables of any length (config.cpp:99-126, tcp_events.cpp:73-92).
THEOREM BootTablesWhole == Spec => []TablesWhole
<1>1. ASSUME IInv PROVE TablesWhole
  <2>1. SUFFICES ASSUME main \in AfterConfig, NEW f \in TableFiles \ torn
                 PROVE  disk[f] # Missing
                        /\ (Len(disk[f]) = Rows \/ (f = GEAR_FILE /\ clearing = Len(disk[f]) + 1))
    BY DEF TablesWhole
  <2>2. table = Len(Tables) + 1 /\ main # "rows" /\ clearing \in Nat
    BY <1>1, <2>1 DEF IInv, TableInv, AfterConfig
  <2>3. PICK i \in DOMAIN Tables : f = Tables[i]
    BY DEF TableFiles
  <2>4. disk[f] # Missing
    BY <1>1, <2>2, <2>3, TablesAssumption DEF IInv, TableInv
  <2>5. Len(disk[f]) = Rows \/ (clearing # 0 /\ f = GEAR_FILE)
    BY <1>1, <2>2, <2>4 DEF IInv, TableInv
  <2>6. clearing # 0 => Len(disk[GEAR_FILE]) = clearing - 1
    BY <1>1 DEF IInv, TableInv
  <2>7. QED
    BY <2>2, <2>4, <2>5, <2>6
<1>2. QED
  BY <1>1, BootInvariant, PTL

\* A stored row outlives every restart and every request, but for clear_number, which
\* removes the lamps, and set_zaman without times, which removes the schedule of the
\* row it names (tcp_events.cpp:73, 307-311).
THEOREM BootRowsKept == Spec => RowsKept
<1>1. IInv /\ [Next]_vars => [RowsStay]_vars
  BY TableStep DEF IInv
<1>2. QED
  BY <1>1, BootInvariant, PTL DEF Spec, RowsKept, RowsStay

\* What a start finds in one file.
Found(d, f) == IF d[f] \in {Missing, <<>>} THEN DefaultSettings[f] ELSE d[f][1]

\* The settings are what a start finds in both files.
LEMMA SettingsAgree ==
    ASSUME Found(disk, "GLOBAL_FILE")' = Found(disk, "GLOBAL_FILE"),
           Found(disk, "NETWORK_FILE")' = Found(disk, "NETWORK_FILE")
    PROVE  Settings' = Settings
BY DEF Settings, Found, Records, DefaultSettings

\* The settings, part by part.
LEMMA SettingsFound ==
    /\ Settings["GLOBAL_FILE"] = Found(disk, "GLOBAL_FILE")
    /\ Settings["NETWORK_FILE"] = Found(disk, "NETWORK_FILE")
BY DEF Settings, Found, Records

\* What a form asks for, part by part.
LEMMA PartsOfForm ==
    ASSUME NEW f \in Forms
    PROVE  /\ SavedPart["GLOBAL_FILE"][f] = SavedGlobal(f)
           /\ SavedPart["NETWORK_FILE"][f] = SavedNetwork(f)
BY DEF SavedPart, Records

\* A restart is the store's CutShort.
LEMMA RestartCutsShort == Restart => Store!CutShort
<1> SUFFICES ASSUME Restart PROVE Store!CutShort
  OBVIOUS
<1>1. disk' = disk /\ form' = NoForm /\ answered' = answered
  BY DEF Restart, Fresh
<1>2. Settings' = Settings
  BY <1>1, SettingsAgree DEF Found
<1>3. QED
  BY <1>1, <1>2 DEF Store!CutShort

\* The default records are written where the settings were the default ones.
LEMMA ConfigKeepsStore ==
    ASSUME SettingsInv, CreateGlobal \/ WriteGlobal \/ CreateNetwork \/ WriteNetwork
    PROVE  UNCHANGED <<Settings, form, answered>>
<1> USE DEF SettingsInv, FileInv, GlobalInv, NetworkInv
<1>1. UNCHANGED <<form, answered>>
  BY DEF CreateGlobal, WriteGlobal, CreateNetwork, WriteNetwork, OthersOfConfig, server
<1>2. /\ DefaultSettings["GLOBAL_FILE"] = DefaultGlobal
      /\ DefaultSettings["NETWORK_FILE"] = DefaultNetwork
  BY DEF DefaultSettings, Records
<1>3. <<DefaultGlobal>> \notin {Missing, <<>>} /\ <<DefaultNetwork>> \notin {Missing, <<>>}
  BY RecordFacts
<1>4. CASE CreateGlobal
  <2>1. disk["GLOBAL_FILE"] \in {Missing, <<>>}
    BY <1>4 DEF CreateGlobal
  <2>2. disk'["GLOBAL_FILE"] = <<>> /\ disk'["NETWORK_FILE"] = disk["NETWORK_FILE"]
    BY <1>4, <2>1, RecordFacts DEF CreateGlobal, FileControl, FileSearch
  <2>3. QED
    BY <1>1, <2>1, <2>2, SettingsAgree DEF Found
<1>5. CASE CreateNetwork
  <2>1. disk["NETWORK_FILE"] \in {Missing, <<>>}
    BY <1>5 DEF CreateNetwork
  <2>2. disk'["NETWORK_FILE"] = <<>> /\ disk'["GLOBAL_FILE"] = disk["GLOBAL_FILE"]
    BY <1>5, <2>1, RecordFacts DEF CreateNetwork, FileControl, FileSearch
  <2>3. QED
    BY <1>1, <2>1, <2>2, SettingsAgree DEF Found
<1>6. CASE WriteGlobal
  <2>1. disk["GLOBAL_FILE"] = <<>> /\ GlobalConfig = DefaultGlobal
    BY <1>6 DEF WriteGlobal
  <2>2. disk' = [disk EXCEPT !["GLOBAL_FILE"] = <<DefaultGlobal>>]
    BY <1>6, <2>1, WriteEmpty, RecordFacts DEF WriteGlobal
  <2>3. disk'["GLOBAL_FILE"] = <<DefaultGlobal>> /\ disk'["NETWORK_FILE"] = disk["NETWORK_FILE"]
    BY <2>2, RecordFacts
  <2>4. Found(disk, "GLOBAL_FILE") = DefaultGlobal /\ Found(disk, "GLOBAL_FILE")' = DefaultGlobal
    BY <1>2, <1>3, <2>1, <2>3 DEF Found
  <2>5. QED
    BY <1>1, <2>3, <2>4, SettingsAgree DEF Found
<1>7. CASE WriteNetwork
  <2>1. disk["NETWORK_FILE"] = <<>> /\ NetworkConfig = DefaultNetwork
    BY <1>7 DEF WriteNetwork
  <2>2. disk' = [disk EXCEPT !["NETWORK_FILE"] = <<DefaultNetwork>>]
    BY <1>7, <2>1, WriteEmpty, RecordFacts DEF WriteNetwork
  <2>3. disk'["NETWORK_FILE"] = <<DefaultNetwork>> /\ disk'["GLOBAL_FILE"] = disk["GLOBAL_FILE"]
    BY <2>2, RecordFacts
  <2>4. Found(disk, "NETWORK_FILE") = DefaultNetwork /\ Found(disk, "NETWORK_FILE")' = DefaultNetwork
    BY <1>2, <1>3, <2>1, <2>3 DEF Found
  <2>5. QED
    BY <1>1, <2>3, <2>4, SettingsAgree DEF Found
<1>8. QED
  BY <1>4, <1>5, <1>6, <1>7

\* The steps of app_main stutter, or cut a save short.
LEMMA MainKeepsStore ==
    ASSUME SettingsInv, TableInv, Main
    PROVE  Store!CutShort \/ UNCHANGED <<Settings, form, answered>>
<1>1. CASE CreateGlobal \/ WriteGlobal \/ CreateNetwork \/ WriteNetwork
  BY <1>1, ConfigKeepsStore
<1>2. CASE Restart
  BY <1>2, RestartCutsShort
<1>3. CASE ~Restart /\ ~(CreateGlobal \/ WriteGlobal \/ CreateNetwork \/ WriteNetwork)
  <2>1. UNCHANGED <<form, answered>>
    BY <1>3 DEF Main, ReadGlobal, CheckGlobal, ReadNetwork, CheckNetwork, ControlTable, WriteRow,
       StartLink, LinkStarted, EthernetTimeout, WriteBack, StartHttp, StartTcp, Announce, Services,
       OthersOfConfig, OthersOfTables, OthersOfLink, OthersOfServers, server
  <2>2. \A f \in Records : disk'[f] = disk[f]
    <3>1. CASE ReadGlobal \/ CheckGlobal \/ ReadNetwork \/ CheckNetwork \/ StartHttp
      BY <3>1, CheckGlobalKeepsSettings, CheckNetworkKeepsSettings DEF ReadGlobal, ReadNetwork, StartHttp
    <3>2. CASE WriteBack
      BY <3>2, WriteBackKeepsSettings, RecordFacts DEF Records
    <3>3. QED
      BY <1>3, <3>1, <3>2, OtherMainKeepsSettings DEF Main
  <2>3. QED
    BY <2>1, <2>2, SettingsAgree DEF Found, Records
<1>4. QED
  BY <1>1, <1>2, <1>3

\* The steps of the web server are those of the store.
LEMMA WebStepsStore ==
    ASSUME SettingsInv, Web
    PROVE  Store!Next \/ UNCHANGED <<Settings, form, answered>>
<1>1. ASSUME NEW f \in Forms, Save(f) PROVE Store!Submit(f)
  <2>1. form = NoForm /\ form' = f /\ disk' = disk /\ answered' = answered
    BY <1>1 DEF Save, SettingsInv, WebInv
  <2>2. Settings' = Settings
    BY <2>1, SettingsAgree DEF Found
  <2>3. QED
    BY <2>1, <2>2 DEF Store!Submit
<1>2. ASSUME SaveNetwork PROVE Store!Save("NETWORK_FILE")
  <2>1. /\ form \in Forms /\ form' = form /\ answered' = answered
        /\ disk'["NETWORK_FILE"] = <<SavedNetwork(form)>>
        /\ disk["NETWORK_FILE"] \notin {Missing, <<>>} /\ disk'["GLOBAL_FILE"] = disk["GLOBAL_FILE"]
    BY <1>2, SaveNetworkKeepsSettings DEF SaveNetwork
  <2>2. disk'["NETWORK_FILE"] \notin {Missing, <<>>}
    BY <1>2, <2>1, SaveNetworkKeepsSettings DEF SettingsInv, NetworkInv, WebInv, WithoutGlobal,
       SaveNetwork, OthersOfWeb
  <2>3. Settings' = [Settings EXCEPT !["NETWORK_FILE"] = SavedPart["NETWORK_FILE"][form]]
    <3>1. \A g \in Records : Settings'[g] = IF g = "NETWORK_FILE" THEN SavedNetwork(form) ELSE Settings[g]
      <4>1. Settings'["NETWORK_FILE"] = disk'["NETWORK_FILE"][1]
        BY <2>2 DEF Settings, Records
      <4>2. <<SavedNetwork(form)>>[1] = SavedNetwork(form)
        OBVIOUS
      <4>3. Settings'["GLOBAL_FILE"] = Settings["GLOBAL_FILE"]
        BY <2>1 DEF Settings, Records
      <4>4. QED
        BY <2>1, <4>1, <4>2, <4>3 DEF Records
    <3>2. SavedPart["NETWORK_FILE"][form] = SavedNetwork(form)
      BY <2>1, PartsOfForm
    <3>3. Settings' = [g \in Records |-> Settings'[g]] /\ Settings = [g \in Records |-> Settings[g]]
      BY DEF Settings
    <3>4. QED
      BY <3>1, <3>2, <3>3
  <2>4. form # NoForm
    BY <2>1, FormsAssumption
  <2>5. QED
    BY <2>1, <2>3, <2>4 DEF Store!Save
<1>3. ASSUME SaveGlobal PROVE Store!Save("GLOBAL_FILE")
  <2>1. /\ form \in Forms /\ form' = form /\ answered' = answered
        /\ disk'["GLOBAL_FILE"] = <<SavedGlobal(form)>>
        /\ disk["GLOBAL_FILE"] \notin {Missing, <<>>} /\ disk'["NETWORK_FILE"] = disk["NETWORK_FILE"]
    BY <1>3, SaveGlobalKeepsSettings DEF SaveGlobal
  <2>2. disk'["GLOBAL_FILE"] \notin {Missing, <<>>}
    BY <1>3, <2>1, SaveGlobalKeepsSettings DEF SettingsInv, GlobalInv, WebInv, SaveGlobal, OthersOfWeb
  <2>3. Settings' = [Settings EXCEPT !["GLOBAL_FILE"] = SavedPart["GLOBAL_FILE"][form]]
    <3>1. \A g \in Records : Settings'[g] = IF g = "GLOBAL_FILE" THEN SavedGlobal(form) ELSE Settings[g]
      <4>1. Settings'["GLOBAL_FILE"] = disk'["GLOBAL_FILE"][1]
        BY <2>2 DEF Settings, Records
      <4>2. <<SavedGlobal(form)>>[1] = SavedGlobal(form)
        OBVIOUS
      <4>3. Settings'["NETWORK_FILE"] = Settings["NETWORK_FILE"]
        BY <2>1 DEF Settings, Records
      <4>4. QED
        BY <2>1, <4>1, <4>2, <4>3 DEF Records
    <3>2. SavedPart["GLOBAL_FILE"][form] = SavedGlobal(form)
      BY <2>1, PartsOfForm
    <3>3. Settings' = [g \in Records |-> Settings'[g]] /\ Settings = [g \in Records |-> Settings[g]]
      BY DEF Settings
    <3>4. QED
      BY <3>1, <3>2, <3>3
  <2>4. form # NoForm
    BY <2>1, FormsAssumption
  <2>5. QED
    BY <2>1, <2>3, <2>4 DEF Store!Save
<1>4. ASSUME Answer PROVE Store!Answer
  <2>1. /\ form \in Forms /\ form' = NoForm /\ answered' = form /\ disk' = disk
        /\ disk["NETWORK_FILE"] = <<SavedNetwork(form)>>
        /\ disk["GLOBAL_FILE"] = <<SavedGlobal(form)>>
        /\ disk["NETWORK_FILE"] \notin {Missing, <<>>} /\ disk["GLOBAL_FILE"] \notin {Missing, <<>>}
    BY <1>4 DEF Answer, SettingsInv, WebInv, GlobalInv, NetworkInv, WithoutGlobal
  <2>2. \A p \in Records : Settings[p] = SavedPart[p][form]
    <3>1. Found(disk, "GLOBAL_FILE") = SavedGlobal(form) /\ Found(disk, "NETWORK_FILE") = SavedNetwork(form)
      BY <2>1 DEF Found
    <3>2. QED
      BY <2>1, <3>1, SettingsFound, PartsOfForm DEF Records
  <2>3. Settings' = Settings
    BY <2>1, SettingsAgree DEF Found
  <2>4. form # NoForm
    BY <2>1, FormsAssumption
  <2>5. QED
    BY <2>1, <2>2, <2>3, <2>4 DEF Store!Answer
<1>5. ASSUME DefaultReset PROVE UNCHANGED <<Settings, form, answered>>
  BY <1>5, SettingsAgree DEF DefaultReset, Found
<1>6. QED
  BY <1>1, <1>2, <1>3, <1>4, <1>5 DEF Web, Store!Next, Records

\* Every behaviour of the boots and of the servers is one of the settings
\* store, for any forms, tables and bounds.
THEOREM BootKeepsSettings == Spec => KeepsSettings
<1>1. Init => Store!Init
  <2>1. SUFFICES ASSUME Init PROVE Store!Init
    OBVIOUS
  <2>2. \A f \in Records : disk[f] = Missing
    BY <2>1 DEF Init
  <2>3. Settings = DefaultSettings
    BY <2>2 DEF Settings, DefaultSettings
  <2>4. QED
    BY <2>1, <2>3 DEF Init, Store!Init
<1>2. IInv /\ [Next]_vars => [Store!Next]_<<Settings, form, answered>>
  <2>1. SUFFICES ASSUME SettingsInv, TableInv, [Next]_vars
                 PROVE  Store!Next \/ UNCHANGED <<Settings, form, answered>>
    BY DEF IInv
  <2>2. CASE Main
    BY <2>1, <2>2, MainKeepsStore DEF Store!Next
  <2>3. CASE Web
    BY <2>1, <2>3, WebStepsStore
  <2>4. CASE Reset \/ PowerCut \/ TimerFires
    BY <2>4, RestartCutsShort DEF Reset, PowerCut, TimerFires, Store!Next
  <2>5. CASE (Events \/ Tcp \/ Plug \/ UNCHANGED vars) /\ ~Reset
    <3>1. UNCHANGED <<form, answered>>
      BY <2>5 DEF Events, GotIp, EthernetDown, WifiDown, OthersOfEvents, Tcp, StoreRow,
         StoreLamp, SetZaman, ClearNumber, ClearRow, OthersOfTcp, Plug, vars, server
    <3>2. disk'["GLOBAL_FILE"] = disk["GLOBAL_FILE"] /\ disk'["NETWORK_FILE"] = disk["NETWORK_FILE"]
      BY <2>1, <2>5, EventsKeepSettings DEF Records
    <3>3. QED
      BY <3>1, <3>2, SettingsAgree DEF Found
  <2>6. QED
    BY <2>1, <2>2, <2>3, <2>4, <2>5 DEF Next, Tcp
<1>3. QED
  BY <1>1, <1>2, BootInvariant, PTL DEF Spec, KeepsSettings, Store!Spec
=============================================================================
