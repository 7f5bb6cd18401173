--------------------------- MODULE DeviceCommands ---------------------------
(***************************************************************************)
(* The commands for one lamp (tools/dali_tool.cpp, and data_parse in       *)
(* tools/tcp_events.cpp): each is a sequence of frames that the event loop *)
(* sends one after the other, over the DALI line or, for a wireless lamp,  *)
(* in UDP packets, and a reply that says what the lamp answered.  The file *)
(* GEAR_FILE has a row for the lamp, whose type tells the way to it.       *)
(*                                                                         *)
(* A launcher or button task may put a frame for all lamps between any two *)
(* frames, and frames and answers may be lost.  The lamp is external: it   *)
(* stores nothing unless it hears a configuration frame twice in a row.    *)
(***************************************************************************)
EXTENDS Integers, SequencesExt

CONSTANTS
    Val,       \* the values and levels that commands carry
    MaxCmd,    \* bound on the commands
    MaxFault,  \* bound on the frames lost or put in between
    None

MASK == 255           \* a scene that is not set
BACK_TIMEOUT == 113   \* 0x71, in the answers of udpserver.cpp
LAMP == 6             \* device types: one lamp, more than one type, a wireless lamp
SEVERAL == 255
WIFI_LAMP == 16
NEXT_TYPE == 7        \* one of the types of a lamp that has several

ASSUME ValAssumption == Val \subseteq 0 .. 254

VARIABLES
    wireless,  \* the lamp is reached in UDP packets
    type,      \* its device type
    row,       \* its row in GEAR_FILE, or None: no device
    lamp,      \* its level, DTR0, scene, groups, fade time
    once,      \* the configuration frame it has heard once, or None
    cmd,       \* the command the event loop runs, or None
    todo,      \* the frames that remain of it
    kk,        \* the answers to its queries
    try,       \* UDP tries of a query, and whether get_level runs again
    mm,        \* the frame another task has put into the buffer of a UDP question
    spoiled,   \* a question of this command was sent as that frame
    cmds, faults, hits, \* commands and faults so far, and those of this command
    before,    \* the lamp when the command began
    rowBefore, \* and its row
    seen       \* the levels it has had since

device == <<wireless, type>>
command == <<cmd, cmds, before, rowBefore>>
buffer == <<mm, spoiled>>
vars == <<device, row, lamp, once, command, todo, kk, try, buffer, faults, hits, seen>>

\* The val of "search" is the way: 0 UDP, 1 the line, 2 one after the other.
Command ==
    [name : {"set_scene", "set_fade", "arc_power", "arc_power_group"}, val : Val]
        \cup [name : {"set_group", "unset_group"}, val : {0, 1}]
        \cup [name : {"search"}, val : 0 .. 2]
        \cup [name : {"search_unsaved"}, val : {2}]
        \cup [name : {"clear_scene", "gear_reset", "full_reset", "s_reset", "off", "action",
                      "get_scene", "get_group", "get_level", "s_refresh", "refresh",
                      "get_rapor", "get_detail", "clear_number"},
              val : {0}]

\* No answer; the value of kk.data is then 0.
Timeout == [backword |-> "BACK_TIMEOUT", data |-> 0]
Back(v) == [backword |-> "BACK_DATA", data |-> v]

\* gear_t
Row(t, ext) == [type |-> t, ext_type |-> ext]
-----------------------------------------------------------------------------
(* The lamp *)

Frame(k, v) == [kind |-> k, val |-> v]

\* After these the lamp waits for the same frame once more.
Twice == {"scene", "unscene", "group", "ungroup", "fade", "reset", "store", "shutter"}

Reset(l) == [l EXCEPT !.level = 254, !.scene = MASK, !.groups = {}, !.fade = 0]

Executed(l, f) ==
    CASE f.kind = "dtr" -> [l EXCEPT !.dtr = f.val]
      [] f.kind = "arc" -> [l EXCEPT !.level = f.val]
      [] f.kind = "arc_group" /\ 1 \in l.groups -> [l EXCEPT !.level = f.val]
      [] f.kind = "goto" /\ l.scene # MASK -> [l EXCEPT !.level = l.scene]
      [] f.kind = "scene" -> [l EXCEPT !.scene = l.dtr]
      [] f.kind = "unscene" -> [l EXCEPT !.scene = MASK]
      [] f.kind = "group" -> [l EXCEPT !.groups = @ \cup {f.val}]
      [] f.kind = "ungroup" -> [l EXCEPT !.groups = @ \ {f.val}]
      [] f.kind = "fade" -> [l EXCEPT !.fade = l.dtr]
      [] f.kind = "store" -> [l EXCEPT !.dtr = l.level]
      [] f.kind = "reset" -> Reset(l)
      [] OTHER -> l

Hears(f) ==
    IF f.kind \in Twice /\ once # f
    THEN once' = f /\ UNCHANGED lamp
    ELSE once' = None /\ lamp' = Executed(lamp, f)

\* What it answers: its scene, the low or high half of its groups, its level, its
\* settings, its type, the next one of a lamp of several types, DTR0.
Answer(f) ==
    CASE f.kind = "get_scene" -> lamp.scene
      [] f.kind = "get_fade" -> lamp.fade
      [] f.kind = "type" -> type
      [] f.kind = "ext_type" -> NEXT_TYPE
      [] f.kind = "get_group" -> IF f.val \in lamp.groups THEN 1 ELSE 0
      [] f.kind = "get_level" -> lamp.level
      [] OTHER -> lamp.dtr
-----------------------------------------------------------------------------
(* The commands, frame by frame *)

\* Faulty: the value is sent once.
set_scene_once(v) ==
    <<Frame("dtr", v), Frame("scene", 0), Frame("scene", 0), Frame("get_scene", 0)>>

set_scene(v) ==
    <<Frame("dtr", v), Frame("dtr", v), Frame("scene", 0), Frame("scene", 0),
      Frame("get_scene", 0)>>
set_fade(v) == <<Frame("dtr", v), Frame("dtr", v), Frame("fade", 0), Frame("fade", 0)>>
clear_scene == <<Frame("unscene", 0), Frame("unscene", 0), Frame("get_scene", 0)>>
get_group == <<Frame("get_group", 0), Frame("get_group", 1)>>
set_group(k, v) ==
    <<Frame(k, v), Frame(k, v), Frame("get_group", 0), Frame("get_group", 1)>>
gear_reset == <<Frame("reset", 0), Frame("reset", 0)>>

\* Faulty: the level is stored with a single frame.
get_level_stored_once == <<Frame("store", 0), Frame("get_dtr", 0)>>

\* When a lamp does not tell its level it is told to store it in DTR0.
get_level_stored == <<Frame("store", 0), Frame("store", 0), Frame("get_dtr", 0)>>

\* A frame is sent over the line, in UDP packets or both ways.
On(via, frames) ==
    [i \in DOMAIN frames |-> [kind |-> frames[i].kind, val |-> frames[i].val, via |-> via]]

Way(t) == IF t < 10 THEN "cable" ELSE "wifi"
Own == IF wireless THEN "wifi" ELSE "cable"
Reached(f) == f.via \in {Own, "both"}

LevelNames == {"get_level", "s_refresh", "refresh"}

\* The type of a cleared row is 0.
RowType == IF row = None THEN 0 ELSE row.type

get_rapor == <<Frame("store", 0), Frame("store", 0), Frame("get_dtr", 0)>>
search(val) ==
    (IF val # 0 THEN On("cable", <<Frame("type", 0)>>) ELSE <<>>)
        \o (IF val # 1 THEN On("wifi", <<Frame("type", 0)>>) ELSE <<>>)

\* The frames of a request that goes by the type in the row: get_level, refresh and
\* full_reset read it, a client sends it with the others as list_number told it.
Single(c) ==
    CASE c.name = "set_scene" -> set_scene(c.val)
      [] c.name = "set_fade" -> set_fade(c.val)
      [] c.name = "set_group" -> set_group("group", c.val)
      [] c.name = "unset_group" -> set_group("ungroup", c.val)
      [] c.name = "clear_scene" -> clear_scene
      [] c.name \in {"gear_reset", "full_reset"} -> gear_reset
      [] c.name = "get_group" -> get_group
      [] c.name = "s_reset" -> <<Frame("shutter", 0), Frame("shutter", 0)>>
      [] c.name = "get_detail" -> <<Frame("get_fade", 0)>>
      [] c.name \in LevelNames -> <<Frame("get_level", 0)>>
      [] OTHER -> <<Frame(c.name, 0)>>

Frames(c) ==
    CASE c.name \in {"search", "search_unsaved"} -> search(c.val)
      [] c.name = "arc_power" -> On("both", <<Frame("arc", c.val)>>)
      [] c.name = "arc_power_group" -> On("both", <<Frame("arc_group", c.val)>>)
      [] c.name = "off" -> On("both", <<Frame("arc", 0)>>)
      [] c.name = "action" -> On("both", <<Frame("goto", 0)>>)
      [] c.name = "get_rapor" -> On("cable", get_rapor)
      [] c.name = "clear_number" \/ (c.name \in {"refresh", "full_reset"} /\ row = None) -> <<>>
      [] OTHER -> On(Way(RowType), Single(c))

Queries == {"get_scene", "get_group", "get_level", "get_fade", "get_dtr", "type", "ext_type"}

Init ==
    /\ wireless \in BOOLEAN
    /\ type \in IF wireless THEN {WIFI_LAMP} ELSE {LAMP, SEVERAL}
    /\ row \in IF wireless THEN {None, Row(type, NEXT_TYPE)} ELSE {None, Row(LAMP, 0)}
    /\ lamp \in [level : Val, dtr : {0}, scene : {0, MASK}, groups : {{}, {1}}, fade : {0}]
    /\ once = None
    /\ cmd = None /\ todo = <<>> /\ kk = <<>>
    /\ try = [udp |-> 1, level |-> 1] /\ mm = None /\ spoiled = FALSE
    /\ cmds = 0 /\ faults = 0 /\ hits = 0
    /\ before = lamp /\ rowBefore = row /\ seen = {lamp.level}

Start(c) ==
    /\ cmd = None /\ cmds < MaxCmd
    /\ cmd' = c /\ todo' = Frames(c) /\ kk' = <<>>
    /\ try' = [udp |-> 1, level |-> 1]
    /\ cmds' = cmds + 1 /\ hits' = 0
    /\ before' = lamp /\ rowBefore' = row /\ seen' = {lamp.level}
    /\ row' = IF c.name = "clear_number" THEN None ELSE row
    /\ UNCHANGED <<device, lamp, once, buffer, faults>>

\* Bound on the faults; one between two commands is as good as one before the first
\* frame of the second.
Fault ==
    /\ faults < MaxFault /\ cmd # None
    /\ faults' = faults + 1 /\ hits' = hits + 1

\* DaliSend: a frame without an answer, which may be lost.
DaliSend ==
    /\ todo # <<>> /\ Head(todo).kind \notin Queries
    /\ todo' = Tail(todo)
    /\ \/ Reached(Head(todo)) /\ Hears(Head(todo)) /\ UNCHANGED <<faults, hits>>
       \/ Reached(Head(todo)) /\ Fault /\ UNCHANGED <<lamp, once>>
       \/ ~Reached(Head(todo)) /\ UNCHANGED <<lamp, once, faults, hits>>
    /\ UNCHANGED <<device, row, command, kk, try, buffer, seen>>

\* send_and_receive_dali has one number for an answer and for no answer.
Received(v) == IF wireless /\ v = BACK_TIMEOUT THEN Timeout ELSE Back(v)

Once(level) == try' = [udp |-> 1, level |-> level]

\* What follows an answer: get_level goes on with DTR0, and runs once more when
\* there was no answer to that either; a device that tells its type is asked for
\* the next one.
AfterAnswer(a) ==
    LET f == Head(todo)
    IN  CASE f.kind = "get_level" /\ (a = Timeout \/ a.data = MASK) ->
                todo' = On(f.via, get_level_stored) /\ Once(try.level)
          [] f.kind = "get_dtr" /\ cmd.name # "get_rapor" /\ a = Timeout /\ try.level = 1 ->
                todo' = On(f.via, <<Frame("get_level", 0)>>) /\ Once(2)
          [] f.kind = "type" /\ a # Timeout ->
                todo' = On(f.via, <<Frame("ext_type", 0)>>) \o Tail(todo) /\ Once(try.level)
          [] OTHER -> todo' = Tail(todo) /\ Once(try.level)

\* get_level returns its last answer, the others all of them.
Keep(a) == kk' = IF cmd.name \in LevelNames THEN <<a>> ELSE Append(kk, a)

\* Faulty: a device that does not tell a second type is not stored.
SaveRowIfAnswered(a) ==
    row' = IF cmd.name = "search" /\ Head(todo).kind = "ext_type" /\ a # Timeout
           THEN Row(Last(kk).data, a.data) ELSE row

\* The row of a device found, when the search is one that stores.
SaveRow(a) ==
    row' = IF cmd.name = "search" /\ Head(todo).kind = "ext_type"
           THEN Row(Last(kk).data, IF a = Timeout THEN Last(kk).data ELSE a.data)
           ELSE row

Result(a) == Keep(a) /\ AfterAnswer(a) /\ SaveRow(a)

\* DaliSendReceive: a question that is answered.
Answered ==
    /\ todo # <<>> /\ Head(todo).kind \in Queries
    /\ Reached(Head(todo)) /\ mm = None
    /\ Hears(Head(todo))
    /\ Result(Received(Answer(Head(todo))))
    /\ UNCHANGED <<device, command, buffer, faults, hits, seen>>

\* A wireless question that another task has overwritten is executed as that
\* task's command, and the OK it is answered with passes for no answer.
Overwritten ==
    /\ mm # None
    /\ Hears(mm)
    /\ seen' = seen \cup {lamp'.level}
    /\ Result(Timeout)
    /\ mm' = None /\ spoiled' = TRUE
    /\ UNCHANGED <<device, command, faults, hits>>

\* A lamp that has just been switched on may not know its level yet.
Masked ==
    /\ todo # <<>> /\ Head(todo).kind = "get_level"
    /\ Reached(Head(todo)) /\ mm = None
    /\ Fault
    /\ Hears(Head(todo))
    /\ Result(Back(MASK))
    /\ UNCHANGED <<device, command, buffer, seen>>

\* Nobody hears it, or the question or the answer is lost.
Lost ==
    IF Reached(Head(todo))
    THEN Fault /\ once' \in {once, None}
    ELSE UNCHANGED <<faults, hits, once>>

\* Faulty: nobody is asked again.
UnansweredOnce ==
    /\ todo # <<>> /\ Head(todo).kind \in Queries
    /\ Lost
    /\ Result(Timeout) /\ mm' = None
    /\ UNCHANGED <<device, lamp, command, spoiled, seen>>

\* Or it is not: a wireless lamp is asked three times, unless this is a search.
Unanswered ==
    /\ todo # <<>> /\ Head(todo).kind \in Queries
    /\ Lost
    /\ IF Head(todo).via = "wifi" /\ Head(todo).kind \notin {"type", "ext_type"} /\ try.udp < 3
       THEN try' = [try EXCEPT !.udp = @ + 1] /\ UNCHANGED <<todo, kk, row, mm>>
       ELSE Result(Timeout) /\ mm' = None
    /\ UNCHANGED <<device, lamp, command, spoiled, seen>>

\* What launchers and buttons send to all lamps or to a group.
Switching == {Frame("goto", 0), Frame("arc", 0)} \cup {Frame("arc_group", v) : v \in Val}

UdpQuestion == todo # <<>> /\ Head(todo).kind \in Queries /\ Head(todo).via = "wifi"

\* A launcher or a button sends it.  Its packet is put together in the buffer that
\* a question takes its own from at each of its tries.
Between(f) ==
    /\ Fault
    /\ Hears(f)
    /\ seen' = seen \cup {lamp'.level}
    /\ mm' \in IF UdpQuestion /\ wireless THEN {mm, f} ELSE {None}
    /\ UNCHANGED <<device, row, command, todo, kk, try, spoiled>>

Done == cmd # None /\ todo = <<>>

\* The reply goes to the clients, and the next request may come.
Reply ==
    /\ Done
    /\ cmd' = None /\ kk' = <<>>
    /\ try' = [udp |-> 1, level |-> 1]
    /\ before' = lamp /\ rowBefore' = row
    /\ hits' = 0 /\ seen' = {lamp.level} /\ spoiled' = FALSE
    /\ UNCHANGED <<device, row, lamp, once, todo, mm, cmds, faults>>

Next ==
    \/ \E c \in Command : Start(c)
    \/ DaliSend
    \/ Answered
    \/ Overwritten
    \/ Masked
    \/ Unanswered
    \/ \E f \in Switching : Between(f)
    \/ Reply

Spec == Init /\ [][Next]_vars
-----------------------------------------------------------------------------
(* Properties *)

\* The lamp as the command wants it, its level and DTR0 aside.
Stored(l) == [scene |-> l.scene, groups |-> l.groups, fade |-> l.fade]

\* The row leads to the lamp.  One of 255 does not, which is what a lamp of several
\* types says and passes for a wireless one, nor does a cleared one to a wireless.
Leads == Way(RowType) = Own

Wanted ==
    IF ~Leads THEN Stored(before)
    ELSE CASE cmd.name = "set_scene" -> [Stored(before) EXCEPT !.scene = cmd.val]
           [] cmd.name = "clear_scene" -> [Stored(before) EXCEPT !.scene = MASK]
           [] cmd.name = "set_fade" -> [Stored(before) EXCEPT !.fade = cmd.val]
           [] cmd.name = "set_group" -> [Stored(before) EXCEPT !.groups = @ \cup {cmd.val}]
           [] cmd.name = "unset_group" -> [Stored(before) EXCEPT !.groups = @ \ {cmd.val}]
           [] cmd.name = "gear_reset" \/ (cmd.name = "full_reset" /\ row # None) ->
                 Stored(Reset(before))
           [] OTHER -> Stored(before)

\* One frame lost or put in between never makes the lamp store anything else than
\* the command wants: the value of DTR0 is sent twice, and the frame that stores it
\* counts only when it is heard twice.
LampStoresOrKeeps ==
    /\ hits = 0 => Stored(lamp) = Wanted
    /\ hits = 1 => Stored(lamp) \in {Wanted, Stored(before)}

\* A search that stores and asks on the lamp's own way.
Searched == cmd.name = "search" /\ cmd.val \in {2, IF wireless THEN 0 ELSE 1}

\* Whatever is lost, the row of the lamp says its type or what it said before, and
\* a lamp that told its type is stored, with that type twice if it told no second.
RowStoresOrKeeps ==
    LET Found == {Row(type, NEXT_TYPE), Row(type, type)}
    IN  CASE ~Searched -> row = rowBefore
          [] Searched /\ hits = 0 -> row = Row(type, NEXT_TYPE)
          [] Searched /\ hits > 0 /\ (\E i \in DOMAIN kk : kk[i] = Back(type)) -> row \in Found
          [] OTHER -> row = rowBefore

\* A command that nothing disturbs does what it says, and one that something
\* disturbs stores that or nothing, in the lamp and in GEAR_FILE
\* (dali_tool.cpp:415-546, 604-610, 741-803, 844-858).
StoresOrKeeps ==
    Done => /\ LampStoresOrKeeps
            /\ cmd.name # "clear_number" => RowStoresOrKeeps

\* The error field of the reply; get_rapor and the searches have none.
Failed == \E i \in DOMAIN kk : kk[i].backword = "BACK_TIMEOUT"

\* A wireless lamp's 0x71, which is taken for no answer.
Ambiguous(values) == wireless /\ BACK_TIMEOUT \in values

\* A reply without an error says what the lamp has stored, whatever was lost, and
\* the level it had during the command, if at most one thing went wrong, a level
\* of 0x71 included; get_rapor, which trusts DTR0, stands no loss at all
\* (dali_tool.cpp:554-578, 865-887, 965-987, tcp_events.cpp:428-642).
RepliesAreTrue ==
    (Done /\ ~Failed /\ kk # <<>>) =>
        CASE cmd.name \in {"set_scene", "clear_scene", "get_scene"} ->
                kk[1].data = lamp.scene
          [] cmd.name \in LevelNames ->
                hits + (IF Ambiguous(seen) THEN 1 ELSE 0) <= 1 => kk[1].data \in seen
          [] cmd.name = "get_rapor" -> hits = 0 => kk[1].data \in seen
          [] cmd.name = "get_detail" -> kk[1].data = lamp.fade
          [] cmd.name \in {"search", "search_unsaved"} -> kk[1].data = type
          [] OTHER -> kk = <<Back(IF 0 \in lamp.groups THEN 1 ELSE 0),
                             Back(IF 1 \in lamp.groups THEN 1 ELSE 0)>>

\* An error is reported only when something was lost, for a value of a wireless
\* lamp that is 0x71, when the row in GEAR_FILE leads the wrong way, or when another
\* task overwrote the question; a wireless query survives two losses and get_level
\* three
\* (udpserver.cpp:221-248, dali_tool.cpp:877-883, 965-970, tcp_events.cpp:505-506).
ErrorsHaveCause ==
    (Done /\ Failed /\ cmd.name \notin {"search", "search_unsaved", "get_rapor"}) =>
        \/ ~Leads \/ spoiled
        \/ Ambiguous({lamp.scene, lamp.dtr, lamp.fade} \cup seen)
        \/ hits >= (IF cmd.name \in LevelNames THEN 4 ELSE IF wireless THEN 3 ELSE 1)
-----------------------------------------------------------------------------
(* What makes the three properties inductive *)

Via == {"cable", "wifi", "both"}
Kinds == Twice \cup Queries \cup {"dtr", "arc", "arc_group", "goto"}
FrameOf == [kind : Kinds, val : 0 .. 254, via : Via]
LampOf == [level : 0 .. 254, dtr : 0 .. 254, scene : 0 .. 255, groups : SUBSET (0 .. 254),
           fade : 0 .. 254]
AnswerOf == [backword : {"BACK_TIMEOUT", "BACK_DATA"}, data : 0 .. 255]
Device == [type : 0 .. 255, ext_type : 0 .. 255]

ASSUME NoneAssumption == None \notin Command \cup FrameOf \cup Switching \cup Device

TypeOK ==
    /\ wireless \in BOOLEAN
    /\ type \in IF wireless THEN {WIFI_LAMP} ELSE {LAMP, SEVERAL}
    /\ row \in Device \cup {None} /\ rowBefore \in Device \cup {None}
    /\ lamp \in LampOf /\ before \in LampOf
    /\ once \in FrameOf \cup {None}
    /\ cmd \in Command \cup {None}
    /\ todo \in Seq(FrameOf) /\ kk \in Seq(AnswerOf)
    /\ try \in [udp : 1 .. 3, level : 1 .. 2]
    /\ mm \in Switching \cup {None} /\ spoiled \in BOOLEAN
    /\ hits \in Nat
    /\ seen \subseteq 0 .. 254

\* A command that asks for the level does not change it.
SeenInv == cmd # None /\ cmd.name \in LevelNames \cup {"get_rapor"} => lamp.level \in seen

\* Only a question under way is overwritten, by a task that came in between.
BufferInv == mm # None => UdpQuestion /\ wireless /\ hits >= 1

To(via, k, v) == [kind |-> k, val |-> v, via |-> via]
Searches == {"search", "search_unsaved"}

\* What remains of a command: the end of its program, unless answers decide how it
\* goes on.
EndOf(frames) == Len(todo) <= Len(frames)
    /\ \A i \in DOMAIN todo : todo[i] = frames[Len(frames) - Len(todo) + i]

\* get_level asks; when the answer does not help, it has the level stored in DTR0 and
\* fetches that.  A search asks for the type and, once it knows that, for the next one.
Ask == To(Way(RowType), "get_level", 0)
Store == To(Way(RowType), "store", 0)
Fetch == To(Way(RowType), "get_dtr", 0)
CableType == To("cable", "type", 0)
WifiType == To("wifi", "type", 0)
CableNext == To("cable", "ext_type", 0)
WifiNext == To("wifi", "ext_type", 0)

LevelPrograms == {<<Ask>>, <<Store, Store, Fetch>>, <<Store, Fetch>>, <<Fetch>>, <<>>}
SearchPrograms == {<<CableType, WifiType>>, <<CableType>>, <<WifiType>>, <<>>,
                   <<CableNext, WifiType>>, <<CableNext>>, <<WifiNext>>}

ProgramInv ==
    IF cmd = None THEN todo = <<>>
    ELSE IF cmd.name \in LevelNames THEN todo \in LevelPrograms
    ELSE IF cmd.name \in Searches THEN todo \in SearchPrograms
    ELSE EndOf(Frames(cmd))

\* The commands that change what the lamp stores: values to load into DTR0, the
\* same setting twice, and questions.
Loading == {"set_scene", "set_fade"}
Storing == Loading \cup {"clear_scene", "set_group", "unset_group", "gear_reset", "full_reset"}
Stores == cmd.name \in Storing /\ Leads /\ Frames(cmd) # <<>>

Asks == IF cmd.name \in {"set_group", "unset_group"} THEN 2
        ELSE IF cmd.name \in {"set_scene", "clear_scene"} THEN 1 ELSE 0
Setting == Frames(cmd)[Len(Frames(cmd)) - Asks]

\* With one disturbance at most DTR0 holds the value before the setting is heard.
StoreInv == cmd # None =>
    LET left == Len(todo) - Asks IN
    /\ ~Stores => Stored(lamp) = Stored(before)
    /\ Stores /\ hits <= 1 =>
          /\ Stored(lamp) \in {Wanted, Stored(before)}
          /\ cmd.name \in Loading /\ left <= 3 => lamp.dtr = cmd.val \/ (left = 3 /\ hits = 1)
    /\ Stores /\ hits = 0 =>
          /\ left = 1 => Stored(lamp) = Wanted \/ once = Setting
          /\ left <= 0 => Stored(lamp) = Wanted

\* A search that stores has its device before it, has its type or has stored it.
Asking(kind) == todo # <<>> /\ Head(todo) = To(Own, kind, 0)
Told == \E i \in DOMAIN kk : kk[i] = Back(type)
RowInv == cmd # None =>
    /\ cmd.name \in Searches =>
          /\ \A i \in DOMAIN todo : /\ cmd.val # IF todo[i].via = "cable" THEN 0 ELSE 1
                                    /\ todo[i].kind = "ext_type" => Asking("ext_type")
          /\ Asking("ext_type") => kk # <<>> /\ Last(kk) = Back(type)
          /\ kk # <<>> => kk[1] \in {Timeout, Back(type)}
    /\ cmd.name # "clear_number" /\ ~(Searched /\ Told) => row = rowBefore
    /\ Searched =>
          /\ Asking("ext_type") \/ (Told => row \in {Row(type, NEXT_TYPE), Row(type, type)})
          /\ hits = 0 => \/ \E i \in DOMAIN todo : todo[i] = To(Own, "type", 0)
                         \/ Asking("ext_type")
                         \/ row = Row(type, NEXT_TYPE)

\* What a question that was not answered has cost, in a command with tries.
Excused(values, n) == ~Leads \/ spoiled \/ Ambiguous(values \cup seen) \/ hits >= n
Tries == IF wireless THEN 3 ELSE 1
Answers(v) == {Back(v)} \cup {a \in {Timeout} : Excused({v}, Tries)}

SceneNames == {"set_scene", "clear_scene", "get_scene"}
GroupNames == {"set_group", "unset_group", "get_group"}
Half(v) == IF v \in lamp.groups THEN 1 ELSE 0

AnswerInv == cmd # None /\ cmd.name \notin LevelNames \cup Searches =>
    /\ Leads => hits >= try.udp - 1
    /\ cmd.name \in SceneNames =>
          kk \in IF todo = <<>> THEN {<<a>> : a \in Answers(lamp.scene)} ELSE {<<>>}
    /\ cmd.name = "get_detail" =>
          kk \in IF todo = <<>> THEN {<<a>> : a \in Answers(lamp.fade)} ELSE {<<>>}
    /\ cmd.name \in GroupNames =>
          kk \in IF todo = <<>> THEN {<<a, b>> : a \in Answers(Half(0)), b \in Answers(Half(1))}
                 ELSE IF Len(todo) = 1 THEN {<<a>> : a \in Answers(Half(0))} ELSE {<<>>}
    /\ cmd.name = "get_rapor" =>
          /\ hits = 0 /\ ~wireless =>
                /\ Len(todo) = 2 => once = To("cable", "store", 0) \/ lamp.dtr \in seen
                /\ Len(todo) <= 1 => lamp.dtr \in seen
          /\ IF todo = <<>> THEN \E a \in AnswerOf : /\ kk = <<a>>
                                                     /\ hits = 0 /\ a # Timeout => a.data \in seen
             ELSE kk = <<>>
    /\ cmd.name \notin SceneNames \cup GroupNames \cup {"get_detail", "get_rapor"} => kk = <<>>

\* Each round of get_level costs two disturbances when it fails: one for its first
\* question, one for the store or for the second.
Excuse == spoiled \/ Ambiguous(seen)
Cost(n) == Excuse \/ hits >= 2 * (try.level - 1) + n
Paid == IF Ambiguous(seen) THEN hits + 1 ELSE hits
Misled == Paid >= 2 /\ Cost(2)

LevelInv == cmd # None /\ cmd.name \in LevelNames =>
    /\ ~Leads => kk \in {<<>>, <<Timeout>>}
    /\ Leads =>
          /\ Len(kk) <= 1
          /\ todo = <<Ask>> => Cost(try.udp - 1)
          /\ todo # <<>> /\ todo # <<Ask>> => Paid >= 1 /\ Cost(try.udp)
          /\ todo = <<Store, Fetch>> => once = Store \/ lamp.dtr \in seen \/ Misled
          /\ todo = <<Fetch>> => lamp.dtr \in seen \/ Misled
          /\ todo = <<>> /\ kk # <<>> =>
                IF kk = <<Timeout>> THEN Excuse \/ hits >= 4
                ELSE kk[1].backword = "BACK_DATA" /\ (kk[1].data \in seen \/ Paid >= 2)

DeviceInv == TypeOK /\ SeenInv /\ BufferInv /\ ProgramInv /\ StoreInv /\ RowInv /\ AnswerInv /\ LevelInv
=============================================================================
