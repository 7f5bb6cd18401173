# TLA+ models of the DALI room controller (CONTROLLER_05)

The firmware under `src/main` turns an ESP32 into a controller for up to 64
DALI lamps: it drives the two-wire DALI line itself, gives the lamps their short
addresses, switches them on a daily schedule, and takes commands over TCP, UDP,
HTTP, an RS485 bus and buttons. This directory holds TLA+ models of its core,
the TLC runs that check them, and proofs that TLAPS checks.

## Inventory

| Part | Code | State | Operations | Talks to |
|---|---|---|---|---|
| DALI receiver | `comp/dali.cpp` `int_handler`, `timer_alarm_cb`, `paket_task` | two hardware timers, half-bit counter, shift register, packet queue, `gelen`, `back_sem` | edges of the line, alarm at the end of a frame | the calls (through `gelen` and `back_sem`), the callback |
| DALI calls | `comp/dali.cpp` `send`, `send_receive`, `ysend_receive` | `Olcum_Ready`, the receive interrupt | send a command, ask a question with one or three tries | every task of the program, without a lock |
| Line supervision | `comp/dali.cpp` `adc_task` | `hat_error` | measure the supply, report a loss, switch the receive interrupt | the calls, the event loop |
| Commissioning | `tools/dali_tool.cpp` `Search_Device` and what it calls | the search address, `GEAR_FILE` | randomise, find the smallest random address, program, verify, withdraw | DALI calls, the file system |
| Device commands | `tools/dali_tool.cpp`, `tools/tcp_events.cpp` | `GEAR_FILE`: the type of each lamp | sequences of DALI commands: scenes, groups, levels, reports, search, refresh | DALI calls, the UDP server, the file system |
| Cron scheduler | `comp/cron/cron.cpp`, `jobs.cpp` | job list, its mutex, `state.running`, `state.handle` | create, destroy, clear, start, stop; a scheduler task and one launcher task per execution | init_cron |
| Cron expressions | `comp/cron/ccronexpr.cpp` | none | parse an expression, find the next instant | the scheduler |
| Schedule client | `tools/config.cpp` `init_cron`, `tools/tcp_events.cpp` `set_zaman` | `ZAMAN_FILE` | rebuild all jobs after each change of the schedule | the scheduler |
| Storage | `comp/storage.cpp`, `tools/tool.cpp` | the files on the flash | create, empty, read and write records, defaults at first boot | everything |
| TCP server | `comp/tcpserver.cpp`, `tools/tcp_events.cpp` | `last_socket`, `sender_busy` | accept one connection after another, post requests to the event loop, answer | the event loop |
| UDP server | `comp/udpserver.cpp` | a request buffer, a semaphore | commands and questions to other controllers, three tries | the event loop |
| RS485 | `comp/rs485.cpp` | packet assembly, `send_paket_sem`, acknowledgements | packets with acknowledgement and time limit | the event loop |
| Network | `comp/network.cpp`, `comp/ww5500.cpp` | connection state | station, access point or Ethernet with retries | boot |
| HTTP | `comp/http.c` | copies of the two settings records, the restart timer | save the settings, default reset, pages, upload | storage |
| mDNS | `tools/smqmdns.cpp`, `managed_components/espressif__mdns/mdns.c` | host and instance name, the state of each interface, queues of actions and packets, running searches | probe, announce, answer, settle conflicts, search | the network, the event loop |
| Buttons | `tools/button_config.cpp` | a toggle per button | switch lamps | DALI calls |
| Boot | `main.cpp`, `tools/config.cpp` | the order of all initialisations | | everything |

Tasks that run at the same time: the event loop (TCP and UDP requests, so
commissioning and `init_cron`), the scheduler and its launchers, the button
task, `paket_task` (priority 5), `adc_task` (priority 10), the receive
interrupt. There is no lock around the DALI line (`dali.h:75`, `busy_is_wait`
always answers false).

How the parts meet: a request of a TCP client is posted to the event loop
(`tcp_handler`, `data_parse`), which calls the DALI commands, the commissioning
or `init_cron` and answers on all open sockets. `init_cron` drives the cron
component, whose launcher tasks switch lamps from the side. All of them end in
`Dali::send`, `send_receive` or `ysend_receive`, which share one line, one
receive interrupt, one variable `gelen` and one semaphore `back_sem` with
`paket_task`, `adc_task` and the interrupt handler.

What is hard to test: tasks that are deleted wherever they are (`cron_stop`),
pointers that outlive what they point to (launchers, `rx_buffer`), one binary
semaphore for answers of several questions, an interrupt switched from three
places, bit timing at a sender's clock that is off, a search through 2^24
addresses over a line that loses answers, and packets, acknowledgements and time
limits that cross each other, power cuts between any two writes of the flash, a
boot that waits for the network, names that two devices claim at once. `PROJECT.json` lists these hazards line by line
with the properties that would notice them going wrong.

What makes each part correct is stated in its module under "Properties"; in
short: the cron component runs every active row at its time and neither loses
nor doubles a job; the expression search returns the next matching instant; the
commissioning finds the smallest random address and gives every lamp a short
address of its own; the receiver takes a frame for what was sent; a call returns
its own answer or none; a device command stores what it says or nothing, and its
reply is true; a request of a TCP client is handled once and in order; a message
over RS485 arrives whole; the controller comes up after any restart with the
rows and the settings it had; the settings page changes what it says and nothing
else; controllers on one network end under different names, and a search finds
those that answer and comes back.

## Modules

| Module | Models | Code |
|---|---|---|
| `CronList` | the ordered job list: insertion, removal with the loop's faults | `jobs.cpp` |
| `CronSched` | scheduler, launchers, `init_cron` and `set_zaman`, heap blocks, the list mutex, panics and restarts | `cron.cpp`, `config.cpp:178-238`, `tcp_events.cpp:281-314` |
| `CronExpr` | `cron_parse_expr`, `cron_next` and the recursion of `do_next` | `ccronexpr.cpp` |
| `Commission` | `Search_Device`: nibble search, programming, verification, the lamps of the line | `dali_tool.cpp:10-404` |
| `DaliReceiver` | the bit decoder: edges of the line, two timers, packets | `dali.cpp:112-522` |
| `DaliLink` | the three kinds of calls, `paket_task`, `adc_task` | `dali.cpp:51-80, 199-253, 421-612` |
| `DeviceCommands` | scenes, groups, fade time, level, switching and reset of one lamp, wired or wireless, and its row of `GEAR_FILE`: search, refresh, clear | `dali_tool.cpp:405-1019`, `udpserver.cpp:98-248`, `tcp_events.cpp:80-642` |
| `TcpServer` | connections, their tasks and buffers, the client list, the event queue | `tcpserver.cpp`, `tcp_events.cpp:672-696` |
| `Rs485` | sender, event and callback task of both ends | `rs485.cpp` |
| `Storage` | the calls on the files of the flash | `storage.cpp:48-134` |
| `Boot` (on `Storage`) | `app_main`, `config()`, Ethernet and Wi-Fi with their event handlers, the settings page, the requests that write a table | `main.cpp:85-350`, `config.cpp:78-126`, `tool.cpp:1-69`, `events.cpp:51-128`, `ww5500.cpp`, `network.cpp`, `http.c:400-566, 734-824` |
| `DaliCall` | what a call promises to its task, the abstract specification of `DaliLink` | |
| `SettingsStore` | what the settings page promises, the abstract specification of `Boot` | |
| `MdnsResponder` | probing, announcing, answering and conflicts of controllers on one network | `mdns.c`, `mdns_networking_lwip.c`, `smqmdns.cpp:20-41` |
| `MdnsQuery` | a search: its caller, its timer, the mdns task, the queue between them | `mdns.c:4505-5360, 6679-6708`, `smqmdns.cpp:107-124` |
| `CronProofs` | the proofs about `CronSched` and `CronExpr` | |
| `TcpServerProofs`, `Rs485Proofs`, `BootProofs`, `MdnsResponderProofs`, `MdnsQueryProofs` | the proofs about the module each is named for | |
| `SearchProofs` | the proofs about `Commission` and `DaliReceiver` | |
| `DaliProofs` | the proofs about `DaliLink` and `DeviceCommands` | |
| `MC...` | values for TLC | |

A module has one action per step that another task can see. Names follow the
code: variables are its variables and fields (`state.running` is `running`,
`linked_link_state.semaphore` is `mutex`), places in a task are named for what
the task does next. Operators whose comment starts with "Faulty" are variants
with one bug that no specification uses; they show that a property can fail.

**CronSched.** Data: a block of the heap holds a job; `free` leaves the pointers
to it behind, and `calloc` may hand the same block out again. The two halves of
each list operation are separate steps, because `vTaskDelete` can fall between
them: then nobody ever gives the mutex back (`mutex = "nobody"`), every later
operation fails after its ten ticks, and the scheduler soon reads a NULL head.
The chip's restart (`Restart`) repairs it, since `init_cron` runs at boot. What
the list operations do under the mutex is one step, which `cron_stop` cannot
interrupt at a point that matters (a pointer of the list is written at once).
The scheduler reads the clock and begins its delay in one step; a tick between
the two only makes the delay end a tick later. `cron_job_list_remove` reads the
head before it has the mutex, which matters to no one while `init_cron` waits for
`vTaskDelete` first. `cron_next` is a function of the date here;
that the search of `CronExpr` computes it is a theorem, `CronNextOfSched`.
`Refused` is the state in which `cron_start` made no task because the old scheduler
had set `state.running` again; it lasts until another `cron_stop`. `DueJobsRun` shows
that this is the only way to have no scheduler between two requests. `vTaskDelay`
counts ticks: `time()` runs with them here, so a step of the clock, as SNTP makes
one, is outside the model (`NoOversleep`). `add_cron` also stores each job in
`jobs[20]` (`main.cpp:83`, `config.cpp:182`) without a check: 32 rows of four times
may ask for 128; more than 20 overrun the array, which is not modelled.

**CronExpr.** The calendar (seconds to months, leap years) is a constant, the
literals of the file are constants with it; `Days` are the months of the years
after which the calendar repeats (400 in the real one), so there is no last
instant. A call of `do_next` is a frame of `stack`. `reset_all_min` calls `mktime`
after each field; a field at its least value carries nothing over, so the model
sets them all at once. The time zone has no jumps.

**Commission.** Random addresses are 24 bit numbers, all different. The lamps follow
IEC 62386-102: a withdrawn lamp is silent to COMPARE only, so it takes PROGRAM when
the search address is its own and answers VERIFY; INITIALISE with 0 also wakes lamps
that have a short address (`old`, any of them, equal ones too). Up to `MaxNoise`
answers to COMPARE and `MaxUnheard` to VERIFY may be any others; `deaf` says that all
four VERIFYs of one lamp, twice after each of two PROGRAMs, were lost. What the
properties excuse, because the code fails there:

- `AllAddressed` a lamp whose random address ends in 00, which the lost carry of
  `l++` (`dali_tool.cpp:374`) never gets to, and a lamp for which the file has no
  free row: the loop of line 358 does not end in either case. The run has both.
- `RowsOfLamps` a lamp at random address 0 (line 374 only ever asks from 1 on, and
  what VERIFY then hears may be another lamp's answer) and wrong answers to COMPARE,
  which waste rows: a row is written for each success, whoever answered.
- `WithdrawnDistinct` a `deaf` moment: then a lamp that was found again after a wrong
  COMPARE may keep an address that the file does not know and gives away later.
- None claims addresses that lamps have from before and that the search does not
  reach; after wrong answers such a lamp may share one with a lamp addressed now.

**DaliReceiver.** Time runs in quarters of a half bit (104 us); a frame is a
start time, the length of its half bits and its bits. Edges and the alarm of the
timer are handled at once (the interrupt preempts every task). A frame of 24 bits
that is cut by a third passes for one of 16: `CutFrameIsNoCommand` is about
frames up to 16 bits, and nothing on this line sends 24. `CollisionHeard` holds
within `Spread`, eight half bits between the starts of two answers and three between
those of more: further apart their edges can come to 32 half bits or more, the length
of a command or of nothing known, and no answer is heard (`dali.cpp:473-490`). The run
has answers further apart as well, and without `Spread` it finds them. The standard
leaves a lamp about twelve half bits for the start of its answer (5.5 to 10.5 ms), so
`Spread` is an assumption on the lamps of one line that the standard does not make.

**DaliLink.** An answer is the number of its call. The 65 ms before a question
are longer than a measurement of `adc_task` (guard `adc # "measure"`), and a lamp
answers before the 25 ms of the caller are over; only `paket_task` may be late
(`late`). To every task, and whatever the other tasks do, the driver looks like
`DaliCall`: a call is transmitted, then answered or asked again, given up after its
last try and not before, and comes back with one outcome (`KeepsPromise`). That the
answer is the one to this question, and that nothing is left over for the next
(`NothingLeftBehind`), holds as long as `paket_task` is not late and only
`send_receive` is used (`mixed`): `send` does not wait for a measurement
under way, and `ysend_receive` does not stop the measurements, so `adc_task` can
switch the receiver on in the middle of a frame. The model is run with one
caller; with two nothing orders their frames (`busy_is_wait`, `dali.h:75`, always
answers false) and every answer may be another's.

**DeviceCommands.** A lamp is its level, DTR0, one scene, two of its groups and
its fade time. A configuration frame counts when it is heard twice in a row; the
second always comes within the 100 ms of the standard. `hits` counts the frames
lost or put in between during the command at hand; the properties say how many
they tolerate. An answer of 0x71 from a wireless lamp is the code for no answer.
Two things going wrong can make `get_level` report an old DTR0 without an error.
A request goes over the line or in UDP packets by the type in the lamp's `row` of
`GEAR_FILE`, which the searches write (`SaveRow`) and `clear_number` clears;
`Leads` says that it is the right way. `mm` is the buffer that all senders of UDP
packets share: a launcher that sends while a wireless question waits for its
answer makes the next try its own command (`Overwritten`). A wireless lamp is
taken to answer OK to what is not a question. Of `command_action` the model has
the scenes, of `get_detail` one question of seven.

**TcpServer.** An event is a pointer to the buffer of its task. `late` is set
when the task reads into that buffer again, or frees it, before the event loop
has copied the request (it waits 50 ms; commissioning alone takes minutes),
`raced` when a second connection is accepted before the task of the first has
read `last_socket`. From then on nothing is claimed (`Claimed`). A request next
to a ping in one segment is dropped by the code and was never `received`.

**Rs485.** Both ends of one message direction. A message is its place among those
that `send_queue` took (`sent`), whose places are `QueueLength`: `xQueueSend` does not
wait, and a message that finds no place is lost without a word (`dropped`), while its
call waits for whatever `_sender_task` finishes next. That happens only after calls
gave up (`expired`), whose messages stay in the queue. A call that gives up deletes
its semaphore and then resets the pointer; `_sender_task` looks at the pointer and
gives in a step of its own, so it may give a deleted semaphore or NULL: the first may,
the second must end in a panic, where the model ends. The event is a pointer to
`paket_buffer`, which the first packet of the next message frees; `late` says that an
event was still queued then, and `Handle` may read anything of the new message or
nothing. `lost` counts packets and acknowledgements that disappear, `slow` says that a
wait ended although what it waited for was still coming. A packet is written once: the
loop of tries ends with the first wait, with or without an acknowledgement. The test
and the setting of `busy` (`rs485.cpp:149`) are one step: two tasks between them are
not modelled, nor are broadcasts (no acknowledgement) and ping. Nothing in this
firmware calls `Sender` or handles `RS485_DATA_EVENTS` yet; the class is only
initialised (`config.cpp:136`), and `Handle` is an external part.

**Boot.** A disk maps a file to `Missing` or to its records; a call on a file
happens or does not, a sequence of calls can be cut at every step. `Restart` is
any restart (power, `esp_restart`, `FATAL_MSG`, a fault): the memory is fresh and
the disk stays. `write_file` beyond the end of a short file is a choice, since
the result of `fseek` is not looked at. `cable` says that the Ethernet cable leads
to a network that gives an address; the eight seconds of `w5500.start` may be
over first. The TCP server's requests that write a table are handled one by one
in the event loop, so no network event comes between the rows of
`clear_number`. `SetZaman` writes the row that the client names, active or not: a
schedule without times clears its row, the only request but `clear_number` that
removes anything. The number of the row is not checked by the code; rows beyond the
table are left out. `GURUP_FILE` is written by `config()` only. `torn` remembers the tables a restart left short, which
`file_control` never repairs; reading a missing row leaves the caller's zeros,
so such a lamp is taken for short address 0. Network settings other than
`wan_type` are one `value`.

**MdnsResponder.** A controller is its address; a name is 1 for the configured
one and n for the one mangled to "-n". What a controller sends is a set of
records with the names at the moment of sending. Every controller has one IPv4
interface, so the three pcbs of the code are one. `Counted` and `announced` are
history. Two things in the code that the model keeps: any packet sent while
announcing counts as an announcement, and during a search the A record behind a
foreign SRV record is not looked at (`TakenForResult`), so that a conflict of
host names goes unseen. A packet that is parsed after the link went down revives
the state machine of the disabled interface until the next event. If the names
conflict between `mdns_service_add` and `mdns_service_subtype_add_for_host`, the
second fails and `ESP_ERROR_CHECK` restarts the controller (`Panic`).

**MdnsQuery.** A search is known by its address, which is allocated again. Time
is counted in ticks of 100 ms, from the start of the search and from its last
packet. Responders answer within a tick and the task has done by the next tick
what was queued at this one (`InTime`). `missed` counts what a query lost:
`FindsAll` makes up for one. When the results are full, a responder that sends
its A record before its SRV record may be the last row and lack its address.
Responders set the authoritative flag, as RFC 6762 demands: results are counted
only after such a response (`mdns.c:4214`). The event loop waits up to three
seconds, and everything else it handles waits with it.

## Runs

`tlc -config X.cfg M`, each below five minutes with two workers.

| Run | Config | Shows | Bounds |
|---|---|---|---|
| cron | `MCCronSched` | the list stays ordered, nobody oversleeps, rows and jobs agree, a due job gets its launcher unless `cron_start` was refused | two rows, a day of three instants, five instants, three blocks (one job more than rows, so blocks are reused), one launcher at a time, one request after boot, any number of restarts |
| cron_expr | `MCCronExpr` | the next matching instant, from every instant tried | minutes of three seconds, days of twelve instants, weeks of two days, months of 4, 2 or 3, and 4 days, a leap year in three; dates at both ends of the days of two years; lists, ranges and increments |
| commission | `MCCommission` | the search meets below the smallest lamp, every lamp gets an address or the loop goes on for one of two reasons, none shares one, the file knows them | up to five lamps out of 17 addresses at the borders of nibbles, bytes and the range, with no, equal or mixed addresses from before, seven rows of which one may be taken; four pairs with any two wrong answers to COMPARE, three lines with any four to VERIFY |
| receiver | `MCDaliReceiver` | single frames, overlapping answers, frames cut at the front | 36 answers and 12 commands, clocks 25% slow to 25% fast, eleven points where the interrupt comes on, two answers at 13 distances up to 14 half bits, three at 16 pairs of distances |
| link | `MCDaliLink` | the driver keeps the promise of `DaliCall`: answers belong to their questions, three tries, one outcome; calls return, the receiver and the error flag follow the supply | three calls of any kind, two changes of the supply |
| device | `MCDeviceCommands` | what a lamp and its row store and what the reply says, with frames lost, in between or overwritten | two of 30 commands in a row (the second meets what the first left in DTR0 and in the row), four faults (one more than the three tries of a wireless question), the levels 0, 113 (0x71), 200 and 254, a wired lamp of one or of several types, a wireless one |
| tcp | `MCTcpServer` | requests are handled once and in order, the client list matches the sockets, sockets come back | three connections, two of one client, over two sockets (so one is reused and one accept may fail), two requests, one ping, a queue of one |
| rs485 | `MCRs485` | messages arrive whole and in order, what was queued is written, nobody waits for ever | messages of one, two and one packets (a long one after a short one, and the other way round), a queue of one place (so that it is full after one call gave up), one place for events, one loss |
| boot | `MCBoot` | tables and rows survive, the settings page keeps the promise of `SettingsStore`, the device comes up again | two tables (the lamps' and the schedule) of two rows, two forms (either link, either server off), two requests to the web server, two to the TCP server, two power cuts or changes of the cable, one Wi-Fi retry |
| boot_save (violation) | `MCBootSave` | after a form without the TCP server no boot ends | one form |
| mdns | `MCMdnsResponder` | probe before claim, the larger address keeps the name, names settle | two controllers with equal settings that boot at any times, one fault (a lost datagram, a link failure or a search) |
| mdns_query | `MCMdnsQuery` | a search ends once, finds all, returns | two queries, two responders (one of either order of records) and two results at most, a queue of two, one lost datagram, two datagrams nobody asked for |

Why these bounds are enough: each lets every action fire and every branch be
taken, and the interesting case needs less: a job that is linked, in hand, and
freed with its block reused needs two rows and three blocks; a search that skips
an instant shows within one leap cycle; an answer that meets the wrong question
needs two calls, the third shows that nothing accumulates; a socket reused by
another client needs three connections; a torn table needs two rows, and a save that
is cut and repeated needs two; a conflict needs two controllers. Two faults in
`mdns` hold as well (995,499 states, four and a half minutes); with three lost
datagrams two controllers can keep one name for ever, since all that would show
the conflict is lost. What would need more is said above: two
callers, 24 bit frames, answers further apart than `Spread`. The configuration gives `MaxResults` the value 2 instead
of 20, so that the limit is met.

The space of properties is spent on behaviour: `TypeOK` is stated where a proof
needs it, as the first part of the inductive invariant that is proved there, and
is not a run's property.

Deadlock is not checked: every model stops when its bounded calls, clock or
losses are used up, and all tasks then wait.

### Fairness

Each task of the code is weakly fair: FreeRTOS runs a ready task, and all waits
of the code that can block have a time limit or a partner that is fair too. The
one strong fairness, of the 65 ms before a DALI question, stands for the clock:
measurements recur but the wait is over at some time. Clients, the supply, losses
and requests have no fairness. `Commission` has one task, so its fairness is of
`Next`. `DueJobsRun` needs a launcher to end, that is `cron_callback` to return.
`Boot` is fair to `app_main`, to the event loop and the timer; a try of the Wi-Fi
station ends one way or the other; and an address over the cable is strongly
fair, since every boot asks for it again (`SF_vars(EthernetGotIp)`): an address
that always took longer than eight seconds would restart the device for ever.
`MdnsResponder` is strongly fair to sending, because a packet that is scheduled
leaves the queue whenever the network is not flooded (`Room`, a bound); it lets a
search end after its three seconds and somebody put the cable back.

## Proofs

`tlapm CronProofs.tla` and the others prove, for every value of the
constants under their assumptions, 39 theorems; 28 of them state a property of
the runs. Each theorem `Spec => []P` has an inductive invariant of which `P` is a
part or a consequence; TLC has checked each invariant on the run's configuration
before it was proved, and one lemma per action shows that the action keeps it.

- **CronSched.** `CronInvariant`: `Spec => []IInv` for any blocks, rows, times,
  launchers and bounds, and from it `CronTypes`, `CronOneScheduler` and five
  properties of the cron run. `IInv` adds to them: who holds the mutex, and that
  the list is empty once it has lost its owner and `init_cron` has cleared it
  (`MutexInv`); which tasks exist at each place of `init_cron` (`TaskInv`); that
  the job the scheduler works on is the head of the list until it is unlinked, and
  that the list is not empty when the scheduler looks at it (`SchedInv`); that
  linked jobs are allocated, numbered and loaded (`HeapInv`); which rows have jobs
  while they are created one by one (`RowInv`). `CronRunsAtItsTime` needs the
  arithmetic of `%` over the day besides: `TimeInv` says that the instant at which
  a loaded job is due is its row's time of a day.
  `InsertedOrdered` and `RemovedHeadOrdered`: insertion and removal of the head
  keep a list of any length ordered and free of duplicates. They rest on the least
  index at which a job is later, because the loop of `_cron_job_list_insert` is a
  recursive function.
- **CronExpr.** `CronNextFinds`: `ExprSpec => []FindsNext`, for any lengths of
  minute, hour, day, week, months and years, any text and any date. `ExprInv` says
  that no instant from the date on to the one reached fits (`Reached`), and, at each
  step of `do_next`, which fields already have a bit and which of them are reset
  when the next one moves (`Found`); after a call that has found an instant the
  callers' remaining steps move nothing. The arithmetic is in four layers: the bits
  of a text mean what the text says (`BitsAreMeant`); `Instant` and `Calendar` are
  inverse to each other (`MonthStart` is a recursive function, whose facts follow
  from the least month at which they would fail); a field that moves to its next
  bit, with or without a carry, arrives at the first instant that can have it
  (`FindSecond` to `FindMonth`, `FindDay`); and no instant in between fits
  (`PassSecond` to `PassMonth`). `DaysAssumption` is what `FindDay` needs to find
  a day within a year, as the code's limit of 366 supposes. `Regular`, the premise of `FindsNext`,
  leaves out four kinds of texts, each of which the code does search wrongly (see
  the disagreements): `DailyTextIsRegular` proves that what `add_cron` writes is
  none of them. `CronNextOfSched` joins the two models: for that text the search
  returns exactly `cron_next` of `CronSched`, if `Day` and `At` are those of the
  calendar, since an instant matches if and only if it is the time of a day and the
  search cannot give up within a day (`YearsDiff` of the code is 4).
- **Commission.** `DistinctShortAddresses`: lamps that have left the search have
  short addresses of their own, which the file knows, for any lamps, addresses from
  before, file and number of wrong answers, until all four VERIFYs of one lamp are
  lost. `ShortInv` adds that the row a lamp is about to get is free, so that a lamp
  already withdrawn that takes it is still the only one with it, and that after
  PROGRAM the lamp at the search address has it. `NoRowIsLost`: with true answers to
  COMPARE the rows written are those of the withdrawn lamps, and a lamp that was
  addressed in vain holds the row that is still the first free one. `RowsInv` adds
  where the search is: at the smallest lamp, which is the only one that can have taken
  the row, so that an address brought from before cannot be mistaken for it (a YES to
  VERIFY may come from another lamp that has brought that very address; then the lamp
  at the search address has it too). `SearchFindsPredecessor`: with true answers
  the search by nibbles ends exactly one below the smallest lamp, for any
  addresses of the lamps out of 2^24. `SearchInv` gives, at each loop of the
  search, the interval between the last comparison without an answer and the first
  with one, which holds the smallest lamp, and what part of the address the nibble
  at hand moves.
- **DaliReceiver.** `FrameIsReceived` and `CutIsNoCommand`, for all bits, starts and
  clocks, with one frame on the line. `Since` says where the receiver is: the last
  edge was at half bit e, x ticks ago, and the level stays for one half bit more, or
  for two in the middle of a pair of bits, or for ever (`Steady`); `NextOnLine`
  derives from the bits what comes next, an edge after one half bit or two or the
  alarm. `SingleInv` adds that e - 1 half bits are counted and the bits before e
  decoded. `CutInv` bounds the count of a frame that was cut by e - 3, since the
  first edge that is seen is at half bit 2 or later and a rising one must follow:
  31 at the end of 16 bits, one less than a command.
- **DaliLink.** `AnswersBelongToQuestions` and `NoStaleAnswer` assume one caller,
  since with two nothing orders the frames (above). `LinkInv`: while the task asks
  `adc_task` keeps off the line, the receiver is off while the frame is sent, and
  the answer is in one place at most on its way from the lamp to the caller.
  `LinkKeepsPromise` holds for any set of callers: with the place of a call taken
  from its `pc` and its outcome from what it returns and the number of the call,
  every step of `DaliLink` is a step of one task of `DaliCall` or a stutter, and
  never wins back trust (`Trusted`: nothing late, nothing but `send_receive`, one
  caller). `PromiseInv` is what that needs of all callers: the tries so far, and
  that whoever is woken by `back_sem` finds a packet in `gelen` and not what it held
  before the first one. `LinkInv` is needed in one step, the reading of `gelen` by a
  task that is alone.
- **DeviceCommands.** `CommandStoresOrKeeps`, `ReplyIsTrue` and `ErrorHasCause`,
  for any values, number of commands and disturbances. None of them is inductive,
  since each speaks of a finished command. `DeviceInv` says how it got there:
  `ProgramInv` what can remain of the frames of a command, `StoreInv` what DTR0 and
  the half heard setting (`once`) hold at each frame that remains, `RowInv` what a
  search has learnt and stored, `AnswerInv` and `LevelInv` the answers so far and
  what each that is missing has cost in disturbances, `BufferInv` that only a
  wireless question is overwritten. `LevelInv` is where the bounds of the
  properties come from: each of the two rounds of `get_level` is lost to two
  disturbances and not to one, and a level of 0x71 counts as one.
- **TcpServer.** `ClientListMatches`, for any connections, sockets and queue.
  `ListInv` says of each place of `accept` and of a connection's task which socket
  is open and which entry of the list it has. `RequestsHandledInOrder` adds
  (`HandledInv`) what the buffer of each task holds, and that what has been handled
  and what is still queued for a connection are together what it has posted.
- **Rs485.** `MessagesArriveWhole`, for any calls, messages and lengths of the
  queues. `ArriveInv`: the messages the queue took are sent in their order
  (`PlaceInv`), whoever gave up, was refused or found the queue full; one packet or
  acknowledgement is under way at a time; the receiver's buffer is filled with the
  message up to the packet that arrived last (`BufferInv`); the one event there may be
  points to the buffer that holds its message (`EventInv`), and an event is posted
  once, for the last packet. It holds as long as nothing is lost, no wait ends early
  and no buffer is freed under an event, as the property says.
- **Boot.** `BootInvariant`, with `BootConfigRepaired`, `BootTablesWhole`,
  `BootRowsKept` and `BootKeepsSettings`, for any tables, rows, forms and bounds.
  `BootRowsKept` leaves two requests that remove rows, `clear_number` and a `set_zaman`
  without times, the second for the row it names.
  `SettingsInv` says at each place of `app_main` and of the web server what the
  two files and the copies in memory hold: a file is missing, empty or has
  exactly one good record, and from `config()` on the record in the file is the
  one that `app_main` writes back, unless a save has changed it, which cannot
  happen before the web server runs. `TableInv` counts the rows of the table at
  hand. `BootKeepsSettings` is the refinement: under `settings <- Settings` (what
  the next start will find) every step of `Boot` is a step of `SettingsStore` or
  a stutter; the default records that the first boot writes are a stutter, since
  a missing record already counts as the default.
- **MdnsResponder.** `OldListFits`, `NothingUnprobedLeaves` and
  `LargestAddressWins`, for any controllers and faults. `NamesInv` says for each
  state of the pcb how often each name has been probed for since it was chosen and
  what may be scheduled; the controller with the largest address still has the
  host name it began with.
- **MdnsQuery.** `EndMeetsItsSearch`: `QueryInv` says that an action that adds or
  ends a search is queued once, for the search the event loop waits for.
  `SearchFindsAll`: `FindInv` counts the rounds. A question that must still be
  answered has its answer on the way (`Coming`), or the search will ask once more
  for every answer that is needed and one that may be lost (`Rounds`, `Needed`);
  a responder that sends its A record first needs two answers.

The constants are assumed to be what the code makes of them: rows and times of a
day (`CronSched`), a calendar whose months repeat, have a week at least and, first
and last of a year, the most days there are (`CronExpr`), 24 bit addresses and up to
64 rows, addresses from before among them (`Commission`), names of junk, a timeout and nothing that differ and are no
numbers (`DaliLink`), frames of 8,
16 or 24 bits after a silence of three periods, with half bits of 312 to 520 us,
which are what `int_handler` accepts between 291 and 541 (`DaliReceiver`), one socket
number per byte (`TcpServer`), packets of a message numbered up to a `Longest`,
and queues with a place at least (`Rs485`), two tables at least (`Boot`), controllers with comparable addresses of which one is the largest
(`MdnsResponder`), values of a byte but MASK (`DeviceCommands`), a `None` that is
no command, frame or row (`DeviceCommands`), no search at address 0 (`NULL`), finitely many responders, and
time for three questions (`RoundsAssumption` of `MdnsQuery`: 1000 ms between two
in 3000 ms). TLC evaluates each of these assumptions in the runs.

What is only model-checked: liveness and everything about `ENABLED`
(`DueJobsRun`, `AllAddressed`, `CallReturns`, `ReceiverComesBack`,
`LossReported`, `RequestsHandled`, `SocketsComeBack`, `AllSent`, `BootEnds`,
`Reconnectable`, `NamesSettle`, `QueryReturns`), which is out of the proof
system's reach; and `CollisionHeard`, which is about how the edges of several
senders fall between each other, and holds only for answers that begin within
`Spread` of each other. The library's induction theorems
cannot be used here, but a set of numbers that is not empty has a least element
(`LeastNumber`, from the library's well-founded order of the naturals), and where
a proof needs induction (the insertion into a list, the starts of months, the next
day that fits) it takes the least counterexample.

## Disagreements met

The run `boot_save` ends in a violation and quotes the line that disagrees with
the code. Others were met while the models were written and have no run:

- A save with the field TCP unchecked leaves a device that restarts for ever
  (`boot_save`): `BroadcastAdr` stays NULL and `send_and_receive` gives it to
  `inet_addr` (`main.cpp:329`). Only erasing the flash helps.
- "DEFAULT RESET" (`data/setup.html:210`) restarts the device and resets nothing:
  `default_handler` posts `SYSTEM_DEFAULT_RESET` (`http.c:550`), for which no
  handler is registered, and `defreset` (`main.cpp:156`) is never called.
- A table whose rows were cut off by a restart is never completed
  (`config.cpp:99-125`), and a read of a missing row of `GEAR_FILE` gives short
  address 0 instead of 200.
- An Ethernet device without a cable, or with DHCP slower than eight seconds,
  restarts for ever instead of going on without a network (`main.cpp:259`).
- `cron_start` returns -1 while `state.running` is set, and a scheduler task that
  `cron_stop` meets before its first instruction sets it again
  (`cron.cpp:87, 100, 226`): then no task exists and no job runs until another
  `cron_stop` clears it, which comes with the next `set_zaman`; `cron.h:100` says "Starts the schedule module (creates a new task on the
  operating system)".
- `cron_job_load_expression` ignores the error of the parser (`cron.cpp:171`): an
  hour that does not exist leaves a half filled expression, from which
  `cron_next` returns an instant that matches nothing; `ccronexpr.h:73` promises
  -1.
- `l++` after `find_min_number` loses the carry (`dali_tool.cpp:374`): a lamp
  whose random address ends in 00 is never addressed, and the loop at 358 does
  not end; nor does it when a lamp is left and the file has no free row (line 272,
  where `AtamaYAP` returns at once). `dali_tool.cpp:35` promises that
  the line is scanned and addressed automatically; `AllAddressed` names both.
- A lamp at random address 0 is looked for at 1 (line 374), where PROGRAM never
  reaches it, and the loop at 358 does not end.
- A row of `GEAR_FILE` is written after any YES to VERIFY (`dali_tool.cpp:262-301`):
  after wrong answers to COMPARE lamps that are withdrawn are addressed again, rows
  stay taken that no lamp has, and a lamp that was passed over may keep an address
  from before that another gets.
- Answers to COMPARE that start more than eight half bits apart, or three if they are
  more than two, may be taken for a command, which goes to `callback`, or for nothing
  (`dali.cpp:473-498`); the standard allows about twelve.
- `add_cron` stores jobs in `jobs[20]` without a check (`config.cpp:182`,
  `main.cpp:83`); the file of schedules has room for 128 times.
- `ysend_receive` leaves `Olcum_Ready` set, so `adc_task` may enable the receive
  interrupt in the middle of our own frame (`dali.cpp:603, 75`); `send` does not
  wait for a measurement under way (`dali.cpp:238`).
- `cron_job_list_remove` never compares the last of several nodes, so destroying
  that job leaves it linked (`jobs.cpp:127`; `cron/test/test_cron.c:50` expects
  the list to shrink), and reads NULL for an id that a list of one node does not
  have. `init_cron` only ever destroys the head.
- The README of cron lets jobs be destroyed and the scheduler be started in any
  order (`cron/README.md:7`); with an empty list the scheduler reads NULL.
- A launcher task that has not run yet reads a job that `init_cron` has freed, or
  one that took its place (`cron.cpp:206`).
- `cron_next` does not find the next instant of three kinds of texts, although
  `ccronexpr.h:66` promises it for all; compiled and run, the file gives these. With a
  gap in the seconds ("0,30 5 * * * *", 00:00:10) it finds 00:05:30 and not 00:05:00: a
  second that has moved is not pushed to `resets`, so it stays when the minute moves
  (`ccronexpr.cpp:425-430`). With a restricted month ("* * * * 4 *", 31 January) it
  finds 1 April of the next year: `mktime` takes 31 April for 1 May (line 463). With a
  day and a weekday ("0 0 8 15 * MON", 15 March 2024, 07:00) it finds 15 April 00:00
  and not 08:00: a search of days that ends on the same day of another month counts
  as one that has not moved, so the hour is not searched again (lines 452-461). The
  firmware writes "0 mm hh * * *" only, and `Regular` leaves these out.
- A time with hour 0 or minute 0 counts as unset (`config.cpp:208`).
- A wired lamp that has several device types answers 255 to the search, which is
  stored and then counts as wireless (`dali_tool.cpp:594`): every later request
  for it goes out in UDP packets, and `full_reset`, which is to reset all stored
  lamps (`dali_tool.cpp:840`), does not reset this one (`Leads`).
- The reply of `get_rapor` has no error field: without an answer it reports what
  `data` holds then (`tcp_events.cpp:530-533`).
- A question to a wireless lamp fails when another task sends to wireless lamps
  meanwhile, whatever tries are left (`udpserver.cpp:217, 223`).
- `btn_stat` flips the toggle of a button at every event, not at every click
  (`button_config.cpp:49`).
- The start of a DALI frame counts as preceded by silence although `kom_timer`
  starts again every second (`dali.cpp:146, 315-327`).
- A packet over RS485 is tried once, not three times (`rs485.cpp:77, 103`), and a
  message with a missing packet counts as complete when the last one arrives
  (`rs485.cpp:183`).
- `Sender` returns `RET_OK` for a message that found `send_queue` full or whose wait
  expired (`rs485.cpp:134-143`).
- `_sender_task` may give a semaphore that the call has deleted, or NULL, between its
  check and its give (`rs485.cpp:124-125, 139-141`).
- The event of a message over RS485 points to a buffer that the next message frees
  (`rs485.cpp:19, 176`).
- `set_zaman` writes to the row the client names, whatever it is
  (`tcp_events.cpp:309, 313`).

## Not modelled

The components with status `not_modelled` in `PROJECT.json`: buttons, display,
clock and JSON helpers, the parts that are not compiled or not used (`dalie.cpp`,
`tcpclient.cpp`, the ENC28J60 driver), and the vendored libraries that no call
reaches (ArduinoJson, the TFTP server, the mDNS console). They, and the parts of
`mdns.c` that this firmware does not use (browsing, IPv6, delegated hosts,
removal of services) or that only encode and decode packets, are more than half of the lines of the
repository, which bounds the share of it that the models can stand for. Failing
`malloc` and `xTaskCreate` are left out everywhere. Of the
HTTP server the static pages, the upload and the parsing of forms are left out;
of the network the addresses themselves.

## Plan

The order follows what the rest of the system depends on; the first eight points
are done.

1. `CronList`, `CronSched`: the scheduler with its client, and their proofs.
2. `Commission`: the search, and the proof of distinct short addresses.
3. `DaliReceiver`, `DaliLink`, `DaliCall`: the line below all commands, with the
   refinement and its proof.
4. `CronExpr`: what `cron_next` of `CronSched` stands for.
5. `TcpServer`, `DeviceCommands`, `Rs485`: the ways in and out.
6. `Storage`, `Boot`, `SettingsStore`: files, boots and the settings page, with
   the refinement and its proof.
7. `MdnsResponder`, `MdnsQuery`: the names of controllers and the search.
8. Proofs of the safety invariants of all these but `CollisionHeard`.
9. Rows of the schedule with four times each; two lamps of one short address in
   `DeviceCommands`.
