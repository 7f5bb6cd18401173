------------------------------ MODULE CronSched ------------------------------
(***************************************************************************)
(* The cron component (comp/cron/cron.cpp, jobs.cpp) and the client that   *)
(* drives it in this firmware, init_cron of tools/config.cpp.              *)
(*                                                                         *)
(* Three kinds of tasks share the job list: the scheduler task, one        *)
(* launcher task per execution of a job, and the event-loop task, which    *)
(* runs init_cron at boot and again for every set_zaman request.  The list *)
(* has a mutex, taken with a timeout of 10 ticks; init_cron deletes the    *)
(* scheduler task wherever that task happens to be.                        *)
(*                                                                         *)
(* A job is a heap block: free(job) leaves pointers to it in launchers,    *)
(* and a later calloc may hand the same block out again.                   *)
(***************************************************************************)
EXTENDS CronList, FiniteSets

CONSTANTS
    Block,    \* heap blocks that hold a cron_job
    Entry,    \* on/off times of the schedule file
    At,       \* the time of day of each entry
    Day,      \* length of a day
    Slot,     \* launcher tasks that may exist at once (a bound)
    None,     \* no job, no entry
    MaxTime,  \* bound on the clock
    MaxInit   \* bound on the set_zaman requests

ASSUME DayAssumption == Day \in Nat \ {0}
ASSUME AtAssumption == At \in [Entry -> 0 .. Day - 1]
ASSUME NoneAssumption == None \notin Block \cup Entry
ASSUME BoundAssumption == MaxTime \in Nat /\ MaxInit \in Nat

VARIABLES
    now,        \* time()
    entries,    \* the active rows of ZAMAN_FILE
    alloc,      \* the blocks in use
    data,       \* job->data and job->expression of a block
    id,         \* job->id
    next_execution,
    list,       \* linked_link_state.first ...
    next_id,
    mutex,      \* who holds linked_link_state.semaphore
    running,    \* state.running
    handle,     \* state.handle # NULL
    spc,        \* where the scheduler task is
    sjob,       \* its local variable job
    wake,       \* the end of its vTaskDelay
    cpc,        \* where init_cron is
    todo,       \* the entries init_cron still has to create a job for
    launcher,   \* the launcher tasks
    inits,      \* set_zaman requests so far (a bound)
    panic       \* why the chip is about to restart

heap == <<alloc, data>>
jobs == <<id, next_execution, list, next_id>>
sched == <<spc, sjob, wake>>
client == <<cpc, todo, entries, inits>>
vars == <<now, heap, jobs, mutex, running, handle, sched, client, launcher, panic>>

\* Operators whose comment starts with "Faulty" are variants with one bug; the
\* specification does not use them.  They show that a property can fail.

\* Faulty: off by one.
cron_next_late(e, t) == t + 1 + ((At[e] - t) % Day)

\* cron_next: the first instant after t at which "0 mm hh * * *" holds, as the
\* search of CronExpr does (CronNextOfSched in CronProofs).
cron_next(e, t) == t + 1 + ((At[e] - t - 1) % Day)

IdleLauncher == [at |-> "none", arg |-> None, due |-> None, ran |-> None]

Init ==
    /\ now = 0
    /\ entries \in SUBSET Entry
    /\ alloc = {}
    /\ data = [b \in Block |-> None]
    /\ id = [b \in Block |-> -1]
    /\ next_execution = [b \in Block |-> -1]
    /\ list = <<>>
    /\ next_id = 0
    /\ mutex = "free"
    /\ running = FALSE
    /\ handle = FALSE
    /\ spc = "none"
    /\ sjob = None
    /\ wake = 0
    /\ cpc = "stop"
    /\ todo = {}
    /\ launcher = [s \in Slot |-> IdleLauncher]
    /\ inits = 0
    /\ panic = "no"

-----------------------------------------------------------------------------
(* cron_schedule_task *)

\* The head of the loop: with an empty list first()->job dereferences NULL.
SchedTop ==
    /\ spc = "top"
    /\ running' = TRUE
    /\ IF list = <<>>
       THEN panic' = "no jobs" /\ UNCHANGED sched
       ELSE /\ sjob' = list[1]
            /\ IF now >= next_execution[list[1]]
               THEN spc' = "launch" /\ UNCHANGED wake
               ELSE spc' = "sleep" /\ wake' = next_execution[list[1]]
            /\ UNCHANGED panic
    /\ UNCHANGED <<now, heap, jobs, mutex, handle, client, launcher>>

SchedWake ==
    /\ spc = "sleep"
    /\ now >= wake
    /\ spc' = "top"
    /\ UNCHANGED <<now, heap, jobs, mutex, running, handle, sjob, wake, client,
                   launcher, panic>>

SchedLaunch ==
    /\ spc = "launch"
    /\ \E s \in Slot :
          /\ launcher[s].at = "none"
          /\ launcher' = [launcher EXCEPT ![s] =
                [at |-> "start", arg |-> sjob, due |-> data[sjob], ran |-> None]]
    /\ spc' = "unlink"
    /\ UNCHANGED <<now, heap, jobs, mutex, running, handle, sjob, wake, client,
                   panic>>

\* xSemaphoreTake with its timeout: a failed removal is ignored, a failed
\* insertion drops the job.
SchedTake ==
    /\ \/ spc = "unlink" /\ spc' = (IF mutex = "free" THEN "unlinking" ELSE "resched")
       \/ spc = "relink" /\ spc' = (IF mutex = "free" THEN "relinking" ELSE "top")
    /\ mutex' = IF mutex = "free" THEN "sched" ELSE mutex
    /\ UNCHANGED <<now, heap, jobs, running, handle, sjob, wake, client, launcher,
                   panic>>

\* cron_job_list_remove under the mutex.
SchedUnlink ==
    /\ spc = "unlinking"
    /\ IF RemoveFaults(list, id, id[sjob])
       THEN panic' = "remove" /\ UNCHANGED <<list, spc>>
       ELSE /\ list' = Removed(list, id, id[sjob])
            /\ spc' = "unlinked"
            /\ UNCHANGED panic
    /\ UNCHANGED <<now, heap, id, next_execution, next_id, mutex, running, handle,
                   sjob, wake, client, launcher>>

\* Faulty: goes on without linking the job again.
SchedGiveForgets ==
    /\ spc \in {"unlinked", "relinked"}
    /\ spc' = "top"
    /\ mutex' = "free"
    /\ UNCHANGED <<now, heap, jobs, running, handle, sjob, wake, client, launcher,
                   panic>>

SchedGive ==
    /\ \/ spc = "unlinked" /\ spc' = "resched"
       \/ spc = "relinked" /\ spc' = "top"
    /\ mutex' = "free"
    /\ UNCHANGED <<now, heap, jobs, running, handle, sjob, wake, client, launcher,
                   panic>>

\* Faulty: the time of the next execution is not computed again.
SchedReschedSame ==
    /\ spc = "resched"
    /\ spc' = "relink"
    /\ UNCHANGED <<now, heap, jobs, mutex, running, handle, sjob, wake, client,
                   launcher, panic>>

\* cron_job_schedule up to the call of cron_job_list_insert.
SchedResched ==
    /\ spc = "resched"
    /\ next_execution' = [next_execution EXCEPT ![sjob] = cron_next(data[sjob], now)]
    /\ spc' = "relink"
    /\ UNCHANGED <<now, heap, id, list, next_id, mutex, running, handle, sjob, wake,
                   client, launcher, panic>>

\* cron_job_list_insert under the mutex; the job keeps the id it has.
SchedRelink ==
    /\ spc = "relinking"
    /\ list' = Inserted(list, next_execution, sjob)
    /\ spc' = "relinked"
    /\ UNCHANGED <<now, heap, id, next_execution, next_id, mutex, running, handle,
                   sjob, wake, client, launcher, panic>>

Scheduler ==
    \/ SchedTop
    \/ SchedWake
    \/ SchedLaunch
    \/ SchedTake
    \/ SchedUnlink
    \/ SchedGive
    \/ SchedResched
    \/ SchedRelink

-----------------------------------------------------------------------------
(* cron_schedule_job_launcher *)

\* The launcher reads job->callback and cron_callback reads job->data.  In a
\* freed block the callback may have been overwritten by the allocator.
LauncherRead(s) ==
    /\ launcher[s].at = "start"
    /\ \/ /\ launcher' = [launcher EXCEPT ![s].at = "run",
                                          ![s].ran = data[launcher[s].arg]]
          /\ UNCHANGED panic
       \/ /\ launcher[s].arg \notin alloc
          /\ panic' = "freed job"
          /\ UNCHANGED launcher
    /\ UNCHANGED <<now, heap, jobs, mutex, running, handle, sched, client>>

\* The callback returns and the task deletes itself.
LauncherEnd(s) ==
    /\ launcher[s].at = "run"
    /\ launcher' = [launcher EXCEPT ![s] = IdleLauncher]
    /\ UNCHANGED <<now, heap, jobs, mutex, running, handle, sched, client, panic>>

-----------------------------------------------------------------------------
(* The calls of cron.h *)

\* cron_job_create in a free block; without the mutex the job is not linked
\* and gets no id.
cron_job_create(e, b) ==
    /\ b \in Block \ alloc
    /\ alloc' = alloc \cup {b}
    /\ data' = [data EXCEPT ![b] = e]
    /\ next_execution' = [next_execution EXCEPT ![b] = cron_next(e, now)]
    /\ IF mutex = "free"
       THEN /\ list' = Inserted(list, next_execution', b)
            /\ id' = [id EXCEPT ![b] = next_id]
            /\ next_id' = next_id + 1
       ELSE /\ id' = [id EXCEPT ![b] = -1]
            /\ UNCHANGED <<list, next_id>>

\* Faulty: frees the job without taking it off the list.
cron_job_destroy_linked(b) ==
    IF b \notin alloc
    THEN panic' = "double free" /\ UNCHANGED <<alloc, list>>
    ELSE alloc' = alloc \ {b} /\ UNCHANGED <<list, panic>>

\* cron_job_destroy: the result of the removal is ignored, the job is freed
\* whether it is still linked or not.
cron_job_destroy(b) ==
    LET locked == mutex = "free" /\ id[b] >= 0
    IN  IF b \notin alloc
        THEN panic' = "double free" /\ UNCHANGED <<alloc, list>>
        ELSE IF locked /\ RemoveFaults(list, id, id[b])
        THEN panic' = "remove" /\ UNCHANGED <<alloc, list>>
        ELSE /\ alloc' = alloc \ {b}
             /\ list' = IF locked THEN Removed(list, id, id[b]) ELSE list
             /\ UNCHANGED panic

\* cron_start: refused while state.running or state.handle is set.
cron_start ==
    IF ~running /\ ~handle
    THEN spc' = "top" /\ running' = TRUE /\ handle' = TRUE
    ELSE UNCHANGED <<spc, running, handle>>

-----------------------------------------------------------------------------
(* init_cron *)

\* set_zaman writes a row of the file and calls init_cron.
SetZaman ==
    /\ cpc = "idle"
    /\ inits < MaxInit
    /\ inits' = inits + 1
    /\ entries' \in SUBSET Entry
    /\ cpc' = "stop"
    /\ UNCHANGED <<now, heap, jobs, mutex, running, handle, sched, todo, launcher,
                   panic>>

\* cron_stop up to vTaskDelete.
CronStop ==
    /\ cpc = "stop"
    /\ running' = FALSE
    /\ handle' = IF running THEN FALSE ELSE handle
    /\ cpc' = IF running /\ handle THEN "delete" ELSE "clear"
    /\ UNCHANGED <<now, heap, jobs, mutex, sched, todo, entries, inits, launcher,
                   panic>>

\* Faulty: the scheduler task lives on.
CronDeleteNothing ==
    /\ cpc = "delete"
    /\ cpc' = "clear"
    /\ UNCHANGED <<now, heap, jobs, mutex, running, handle, sched, todo, entries,
                   inits, launcher, panic>>

\* vTaskDelete: the scheduler stops where it is, and what it holds stays held.
CronDelete ==
    /\ cpc = "delete"
    /\ spc' = "none"
    /\ mutex' = IF mutex = "sched" THEN "nobody" ELSE mutex
    /\ cpc' = "clear"
    /\ UNCHANGED <<now, heap, jobs, running, handle, sjob, wake, todo, entries,
                   inits, launcher, panic>>

\* One turn of cron_job_clear_all.
CronClear ==
    /\ cpc = "clear"
    /\ IF list = <<>>
       THEN /\ next_id' = 0
            /\ cpc' = "create"
            /\ todo' = entries
            /\ UNCHANGED <<alloc, list, panic>>
       ELSE cron_job_destroy(list[1]) /\ UNCHANGED <<next_id, cpc, todo>>
    /\ UNCHANGED <<now, data, id, next_execution, mutex, running, handle, sched,
                   entries, inits, launcher>>

\* add_cron also notes the job in jobs[20] (main.cpp:83) without a check: more than
\* 20 active times overrun that array, which is not modelled.
CronCreate(e, b) ==
    /\ cpc = "create"
    /\ e \in todo
    /\ todo' = todo \ {e}
    /\ cron_job_create(e, b)
    /\ UNCHANGED <<now, mutex, running, handle, sched, cpc, entries, inits, launcher,
                   panic>>

\* Faulty: starts the scheduler without jobs.
CronStartAlways ==
    /\ cpc = "create"
    /\ todo = {}
    /\ cron_start
    /\ cpc' = "idle"
    /\ UNCHANGED <<now, heap, jobs, mutex, sjob, wake, todo, entries, inits, launcher,
                   panic>>

\* cron_start, if any job was created.
CronStart ==
    /\ cpc = "create"
    /\ todo = {}
    /\ IF entries # {} THEN cron_start ELSE UNCHANGED <<spc, running, handle>>
    /\ cpc' = "idle"
    /\ UNCHANGED <<now, heap, jobs, mutex, sjob, wake, todo, entries, inits, launcher,
                   panic>>

init_cron ==
    \/ CronStop
    \/ CronDelete
    \/ CronClear
    \/ \E e \in Entry, b \in Block : CronCreate(e, b)
    \/ CronStart

-----------------------------------------------------------------------------
Tick ==
    /\ now < MaxTime
    /\ now' = now + 1
    /\ UNCHANGED <<heap, jobs, mutex, running, handle, sched, client, launcher, panic>>

\* The panic handler restarts the chip: the clock and the file survive.
Restart ==
    /\ panic # "no"
    /\ alloc' = {}
    /\ data' = [b \in Block |-> None]
    /\ id' = [b \in Block |-> -1]
    /\ next_execution' = [b \in Block |-> -1]
    /\ list' = <<>>
    /\ next_id' = 0
    /\ mutex' = "free"
    /\ running' = FALSE
    /\ handle' = FALSE
    /\ spc' = "none"
    /\ sjob' = None
    /\ wake' = 0
    /\ cpc' = "stop"
    /\ todo' = {}
    /\ launcher' = [s \in Slot |-> IdleLauncher]
    /\ panic' = "no"
    /\ UNCHANGED <<now, entries, inits>>

Next ==
    \/ /\ panic = "no"
       /\ \/ Scheduler
          \/ \E s \in Slot : LauncherRead(s) \/ LauncherEnd(s)
          \/ SetZaman
          \/ init_cron
          \/ Tick
    \/ Restart

Fairness ==
    /\ WF_vars(panic = "no" /\ Scheduler)
    /\ \A s \in Slot : WF_vars(panic = "no" /\ (LauncherRead(s) \/ LauncherEnd(s)))
    /\ WF_vars(panic = "no" /\ init_cron)
    /\ WF_vars(panic = "no" /\ Tick)
    /\ WF_vars(Restart)

Spec == Init /\ [][Next]_vars

FairSpec == Spec /\ Fairness
-----------------------------------------------------------------------------
(* Properties *)

SchedulerPlaces == {"none", "top", "sleep", "launch", "unlink", "unlinking",
                    "unlinked", "resched", "relink", "relinking", "relinked"}
ClientPlaces == {"idle", "stop", "delete", "clear", "create"}
Launchers == {IdleLauncher} \cup
    [at : {"start", "run"}, arg : Block, due : Entry, ran : Entry \cup {None}]
Panics == {"no", "no jobs", "remove", "double free", "freed job"}

\* The values each variable may take.
TypeOK ==
    /\ now \in Nat /\ wake \in Int /\ next_id \in Nat /\ inits \in Nat
    /\ entries \subseteq Entry /\ todo \subseteq Entry
    /\ alloc \subseteq Block
    /\ data \in [Block -> Entry \cup {None}]
    /\ id \in [Block -> Int]
    /\ next_execution \in [Block -> Int]
    /\ list \in Seq(Block)
    /\ mutex \in {"free", "sched", "nobody"}
    /\ running \in BOOLEAN /\ handle \in BOOLEAN
    /\ spc \in SchedulerPlaces /\ sjob \in Block \cup {None}
    /\ cpc \in ClientPlaces
    /\ launcher \in [Slot -> Launchers]
    /\ panic \in Panics

\* The jobs the scheduler has taken off the list and will link again.
InHand == IF spc \in {"unlinked", "resched", "relink", "relinking"} THEN {sjob} ELSE {}
Scheduled == Range(list) \cup InHand

\* The list the scheduler takes its next job from is ordered by time and links
\* no job twice, although jobs change next_execution and are unlinked and
\* linked again by two tasks (jobs.cpp:54-135).
ListOrdered == Ordered(list, next_execution) /\ Distinct(list)

\* While the scheduler sleeps in vTaskDelay nobody wakes it: the end of its
\* delay is not later than any job of the list (cron.cpp:249-250), so init_cron
\* may never link an earlier job behind its back.  The delay counts ticks: that
\* time() is not set meanwhile, as SNTP does from outside, is assumed.
NoOversleep ==
    spc = "sleep" => \A i \in DOMAIN list : wake <= next_execution[list[i]]

\* Between two requests every active row of the file has exactly one job that
\* is linked or in the hands of the scheduler: no execution, no stop and no
\* restart loses or doubles one, unless the scheduler was deleted while it held
\* the mutex (cron.cpp:69-95, 244-245; config.cpp:195-237).
JobsKept ==
    (cpc = "idle" /\ mutex # "nobody") =>
        /\ {data[b] : b \in Scheduled} = entries
        /\ \A b, c \in Scheduled : data[b] = data[c] => b = c

\* A job is launched for the time its row asks for (cron.h:45,
\* "next execution: this information holds the time when it will run next"):
\* the scheduler, which sees jobs only through next_execution, never picks one
\* at another time of day (cron.cpp:123-147, 228-248).
RunsAtItsTime ==
    spc = "launch" => /\ next_execution[sjob] <= now
                      /\ next_execution[sjob] % Day = At[data[sjob]]

\* A job is only freed once it is off the list, unless the list could not be
\* locked any more because its owner is gone (cron.cpp:56-67).
LinkedJobsAllocated == mutex # "nobody" => Range(list) \subseteq alloc

\* state.handle says whether there is a scheduler task, except between the
\* two halves of cron_stop: so cron_start never makes a second one
\* (cron.cpp:80-120).
OneScheduler == cpc # "delete" => (handle <=> spc # "none")

\* The list operations themselves never bring the chip down: the scheduler
\* finds a job and removes one that is there, and no job is freed twice,
\* unless the mutex lost its owner (cron.cpp:228, 244; jobs.cpp:103-127).
PanicNeedsLostMutex ==
    /\ panic \in {"no jobs", "double free"} => mutex = "nobody"
    /\ panic # "remove"

\* cron_start refused: the scheduler set state.running between the two halves of
\* cron_stop, so there is no scheduler task until another cron_stop (cron.cpp:80-110,
\* 226).
Refused == running /\ ~handle

\* A linked job of the row is due and the scheduler has not made its launcher yet.
Awaits(e) == \E b \in Range(list) :
                /\ data[b] = e /\ next_execution[b] <= now
                /\ ~(b = sjob /\ spc \in {"unlink", "unlinking"})

\* A job that is due gets its launcher, as long as no request comes in, the chip
\* does not restart, the launcher tasks end and the last cron_start was not refused;
\* after a refused one no job runs, and this is the only way to have none
\* (cron.cpp:80-110, 212-259).
DueJobsRun ==
    \A e \in Entry :
        (cpc = "idle" /\ ~Refused /\ Awaits(e))
        ~> \/ \E s \in Slot : launcher[s].due = e
           \/ cpc # "idle" \/ panic # "no"

-----------------------------------------------------------------------------
(* The inductive invariant behind the safety properties *)

Holding == {"unlinking", "unlinked", "relinking", "relinked"}

\* Who holds the mutex, and what it means that its owner is gone.
MutexInv ==
    /\ mutex = "sched" <=> spc \in Holding
    /\ mutex = "nobody" => /\ spc \in {"none", "top"}
                           /\ cpc # "clear" => list = <<>>

\* Which tasks exist while init_cron is where it is.
TaskInv ==
    /\ cpc # "delete" => (handle <=> spc # "none")
    /\ handle => running
    /\ cpc = "delete" => ~handle
    /\ cpc \in {"clear", "create"} => spc = "none"
    /\ cpc = "idle" /\ entries # {} => spc # "none" \/ (running /\ ~handle)

\* What the scheduler knows of the list at each place.
SchedInv ==
    /\ spc \in {"sleep", "launch", "unlink", "unlinking"} =>
          list # <<>> /\ list[1] = sjob
    /\ spc \in {"launch", "unlink", "unlinking", "unlinked", "resched", "relink",
               "relinking"} => sjob \in Block
    /\ spc \in {"unlinked", "resched", "relink", "relinking"} => sjob \notin Range(list)
    /\ spc = "sleep" => wake <= next_execution[sjob]
    /\ spc \in {"relinked", "top"} /\ mutex # "nobody" => list # <<>>

\* The jobs that are linked or in hand are allocated, numbered and loaded.
HeapInv ==
    /\ mutex # "nobody" => Scheduled \subseteq alloc
    /\ \A b \in Scheduled : id[b] >= 0 /\ data[b] \in Entry

\* Jobs and rows, while init_cron creates them and when it has.
RowInv ==
    /\ todo \subseteq entries \/ cpc # "create"
    /\ cpc = "create" /\ mutex # "nobody" =>
          {data[b] : b \in Scheduled} = entries \ todo
    /\ cpc = "idle" /\ mutex # "nobody" => {data[b] : b \in Scheduled} = entries
    /\ cpc \in {"create", "idle"} /\ mutex # "nobody" =>
          \A b, c \in Scheduled : data[b] = data[c] => b = c

IInv ==
    /\ TypeOK
    /\ ListOrdered
    /\ MutexInv
    /\ TaskInv
    /\ SchedInv
    /\ HeapInv
    /\ RowInv
    /\ PanicNeedsLostMutex

\* RunsAtItsTime made inductive: every job that is linked or in hand has a time
\* of its row, and one about to be launched is due.
TimeInv ==
    /\ \A b \in Scheduled : next_execution[b] % Day = At[data[b]]
    /\ spc = "launch" => next_execution[sjob] <= now
=============================================================================
