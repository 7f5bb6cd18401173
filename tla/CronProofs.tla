----------------------------- MODULE CronProofs -----------------------------
(***************************************************************************)
(* The cron component: the invariants of CronSched hold for every number   *)
(* of rows, blocks, launchers and requests, and the search of CronExpr     *)
(* finds the next instant of every text it can search, for every calendar. *)
(***************************************************************************)
EXTENDS CronSched, CronExpr, WellFoundedInduction, TLAPS, SequenceTheorems

\* A set of numbers that is not empty has a least element: this is what proofs by
\* induction rest on here (take the least counterexample).
LEMMA LeastNumber ==
    ASSUME NEW T \in SUBSET Nat, T # {}
    PROVE  \E m \in T : \A k \in T : m <= k
<1>1. PICK m \in T : \A y \in T : ~(<<y, m>> \in OpToRel(<, Nat))
  BY NatLessThanWellFounded, WFMin
<1>2. \A y \in T : ~(y < m)
  BY <1>1 DEF OpToRel
<1> QED
  BY <1>2

-----------------------------------------------------------------------------
(* What the list operations of CronList do to an ordered list without      *)
(* duplicates, for lists of any length.                                    *)

\* The library's InsertAt, element by element.
LEMMA InsertAtElements ==
    ASSUME NEW S, NEW s \in Seq(S), NEW e \in S, NEW i \in 1 .. Len(s) + 1
    PROVE  /\ InsertAt(s, i, e) \in Seq(S)
           /\ Len(InsertAt(s, i, e)) = Len(s) + 1
           /\ \A j \in 1 .. Len(s) + 1 :
                 InsertAt(s, i, e)[j] = IF j < i THEN s[j]
                                        ELSE IF j = i THEN e ELSE s[j - 1]
<1> DEFINE a == SubSeq(s, 1, i - 1)
           c == SubSeq(s, i, Len(s))
           b == a \o <<e>>
<1>0. Len(s) \in Nat /\ i \in Int
  BY LenProperties
<1>1. /\ a \in Seq(S) /\ Len(a) = i - 1
      /\ \A j \in 1 .. i - 1 : a[j] = s[j]
  BY <1>0, SubSeqProperties
<1>2. /\ c \in Seq(S) /\ Len(c) = Len(s) - i + 1
      /\ \A j \in 1 .. Len(s) - i + 1 : c[j] = s[i + j - 1]
  BY <1>0, SubSeqProperties
<1>3. <<e>> \in Seq(S) /\ Len(<<e>>) = 1 /\ <<e>>[1] = e
  OBVIOUS
<1> HIDE DEF a, c
<1>4. /\ b \in Seq(S) /\ Len(b) = i
      /\ \A j \in 1 .. i : b[j] = IF j < i THEN s[j] ELSE e
  BY <1>0, <1>1, <1>3, ConcatProperties
<1> HIDE DEF b
<1>5. /\ b \o c \in Seq(S) /\ Len(b \o c) = Len(s) + 1
      /\ \A j \in 1 .. Len(s) + 1 :
            (b \o c)[j] = IF j <= i THEN b[j] ELSE c[j - i]
  <2>1. Len(b) + Len(c) = Len(s) + 1
    BY <1>0, <1>2, <1>4
  <2>2. b \in Seq(S) /\ c \in Seq(S) /\ Len(b) = i
    BY <1>2, <1>4
  <2> QED BY <2>1, <2>2, ConcatProperties
<1>6. \A j \in 1 .. Len(s) + 1 : (b \o c)[j] =
            IF j < i THEN s[j] ELSE IF j = i THEN e ELSE s[j - 1]
  BY <1>0, <1>2, <1>4, <1>5
<1>7. InsertAt(s, i, e) = b \o c
  BY DEF InsertAt, a, b, c
<1> QED BY <1>5, <1>6, <1>7

\* Where _cron_job_list_insert links a job in an ordered list: behind all the
\* jobs that run no later, before all that run later.
LEMMA InsertPlaceSplits ==
    ASSUME NEW S, NEW nodes \in Seq(S), NEW nx \in [S -> Int], NEW job \in S,
           Ordered(nodes, nx)
    PROVE  LET p == InsertPlace(nodes, nx, job)
           IN  /\ p \in 1 .. Len(nodes) + 1
               /\ \A i \in 1 .. Len(nodes) : i < p => nx[nodes[i]] <= nx[job]
               /\ \A i \in 1 .. Len(nodes) : i >= p => nx[job] <= nx[nodes[i]]
<1> DEFINE later == {i \in DOMAIN nodes : nx[job] < nx[nodes[i]]}
           p == InsertPlace(nodes, nx, job)
<1>0. /\ Len(nodes) \in Nat /\ DOMAIN nodes = 1 .. Len(nodes)
      /\ nx[job] \in Int
      /\ \A i \in 1 .. Len(nodes) : nodes[i] \in S /\ nx[nodes[i]] \in Int
  BY LenProperties
<1>1. CASE later = {}
  <2>1. p = Len(nodes) + 1
    BY <1>1 DEF InsertPlace
  <2>2. \A i \in 1 .. Len(nodes) : ~(nx[job] < nx[nodes[i]])
    BY <1>0, <1>1
  <2> HIDE DEF p, later
  <2> QED BY <1>0, <2>1, <2>2 DEF p
<1>2. CASE later # {}
  <2>1. p = CHOOSE i \in later : \A k \in later : i <= k
    BY <1>2 DEF InsertPlace
  <2>2. \E i \in later : \A k \in later : i <= k
    <3>1. later \subseteq Nat
      BY <1>0
    <3> HIDE DEF later
    <3> QED BY <3>1, <1>2, LeastNumber
  <2>3. p \in later /\ \A k \in later : p <= k
    <3> HIDE DEF later, p
    <3> QED BY <2>1, <2>2
  <2>4. p \in 1 .. Len(nodes) /\ nx[job] < nx[nodes[p]]
    BY <2>3, <1>0
  <2>5. \A i \in 1 .. Len(nodes) : i < p => nx[nodes[i]] <= nx[job]
    <3> SUFFICES ASSUME NEW i \in 1 .. Len(nodes), i < p
                 PROVE  nx[nodes[i]] <= nx[job]
      OBVIOUS
    <3>1. i \notin later
      <4> HIDE DEF later, p
      <4> QED BY <2>3, <2>4, <1>0
    <3> QED BY <3>1, <1>0
  <2>6. \A i \in 1 .. Len(nodes) : i >= p => nx[nodes[p]] <= nx[nodes[i]]
    <3> HIDE DEF p, later
    <3>1. p \in DOMAIN nodes /\ 1 .. Len(nodes) = DOMAIN nodes
      BY <2>4, <1>0
    <3> SUFFICES ASSUME NEW i \in DOMAIN nodes, i >= p
                 PROVE  nx[nodes[p]] <= nx[nodes[i]]
      BY <3>1
    <3>2. CASE i = p
      <4>1. nx[nodes[p]] \in Int
        BY <2>4, <1>0
      <4> QED BY <4>1, <3>2
    <3>3. CASE i # p
      <4>1. p < i
        BY <3>1, <3>3, <1>0
      <4> QED BY <4>1, <3>1 DEF Ordered
    <3> QED BY <3>2, <3>3
  <2> HIDE DEF p, later
  <2>7. \A i \in 1 .. Len(nodes) : i >= p => nx[job] <= nx[nodes[i]]
    BY <2>4, <2>6, <1>0
  <2> QED BY <1>0, <2>4, <2>5, <2>7 DEF p
<1> QED BY <1>1, <1>2

\* cron_job_list_insert keeps the list ordered and without duplicates, and
\* links the new job and no other (jobs.cpp:54-95).
THEOREM InsertedOrdered ==
    ASSUME NEW S, NEW nodes \in Seq(S), NEW nx \in [S -> Int], NEW job \in S,
           Ordered(nodes, nx), Distinct(nodes), job \notin Range(nodes)
    PROVE  /\ Inserted(nodes, nx, job) \in Seq(S)
           /\ Inserted(nodes, nx, job) # <<>>
           /\ Range(Inserted(nodes, nx, job)) = Range(nodes) \cup {job}
           /\ Ordered(Inserted(nodes, nx, job), nx)
           /\ Distinct(Inserted(nodes, nx, job))
<1> DEFINE p == InsertPlace(nodes, nx, job)
           new == Inserted(nodes, nx, job)
           n == Len(nodes)
<1>0. /\ n \in Nat /\ DOMAIN nodes = 1 .. n
      /\ nx[job] \in Int
      /\ \A i \in 1 .. n : nodes[i] \in S /\ nx[nodes[i]] \in Int /\ nodes[i] # job
      /\ Range(nodes) = {nodes[i] : i \in 1 .. n}
  BY LenProperties, RangeEquality
<1>1. /\ p \in 1 .. n + 1
      /\ \A i \in 1 .. n : i < p => nx[nodes[i]] <= nx[job]
      /\ \A i \in 1 .. n : i >= p => nx[job] <= nx[nodes[i]]
  BY InsertPlaceSplits
<1> HIDE DEF p
<1>2. /\ new \in Seq(S) /\ Len(new) = n + 1
      /\ \A j \in 1 .. n + 1 : new[j] = IF j < p THEN nodes[j]
                                       ELSE IF j = p THEN job ELSE nodes[j - 1]
  <2>1. new = InsertAt(nodes, p, job)
    BY DEF Inserted, p
  <2>2. /\ InsertAt(nodes, p, job) \in Seq(S)
        /\ Len(InsertAt(nodes, p, job)) = Len(nodes) + 1
        /\ \A j \in 1 .. Len(nodes) + 1 :
              InsertAt(nodes, p, job)[j] = IF j < p THEN nodes[j]
                                          ELSE IF j = p THEN job ELSE nodes[j - 1]
    <3>1. p \in 1 .. Len(nodes) + 1
      BY <1>1
    <3> QED BY <3>1, InsertAtElements
  <2> HIDE DEF new
  <2> QED BY <2>1, <2>2
<1>3. /\ DOMAIN new = 1 .. n + 1
      /\ Range(new) = {new[j] : j \in 1 .. n + 1}
      /\ new # <<>>
  BY <1>0, <1>2, LenProperties, RangeEquality
<1> HIDE DEF new, n
<1>4. Range(new) = Range(nodes) \cup {job}
  <2>1. \A i \in 1 .. n : \E j \in 1 .. n + 1 : new[j] = nodes[i]
    <3> TAKE i \in 1 .. n
    <3>1. CASE i < p
      <4>1. i \in 1 .. n + 1
        BY <1>0
      <4> QED BY <4>1, <3>1, <1>2
    <3>2. CASE i >= p
      <4>1. i + 1 \in 1 .. n + 1 /\ ~(i + 1 < p) /\ i + 1 # p /\ (i + 1) - 1 = i
        BY <3>2, <1>0, <1>1
      <4> QED BY <4>1, <1>2
    <3> QED BY <3>1, <3>2, <1>0, <1>1
  <2>2. new[p] = job /\ p \in 1 .. n + 1
    BY <1>0, <1>1, <1>2
  <2>3. \A j \in 1 .. n + 1 : new[j] = job \/ \E i \in 1 .. n : new[j] = nodes[i]
    <3> TAKE j \in 1 .. n + 1
    <3>1. CASE j < p
      BY <3>1, <1>0, <1>1, <1>2
    <3>2. CASE j > p
      <4>1. j - 1 \in 1 .. n
        BY <3>2, <1>0, <1>1
      <4> QED BY <3>2, <4>1, <1>0, <1>1, <1>2
    <3>3. CASE j = p
      BY <3>3, <2>2
    <3> QED BY <3>1, <3>2, <3>3, <1>0, <1>1
  <2> QED BY <2>1, <2>2, <2>3, <1>0, <1>3
<1>5. Ordered(new, nx)
  <2> SUFFICES ASSUME NEW i \in 1 .. n + 1, NEW j \in 1 .. n + 1, i < j
               PROVE  nx[new[i]] <= nx[new[j]]
    BY <1>3 DEF Ordered
  <2>1. \A a, b \in 1 .. n : a < b => nx[nodes[a]] <= nx[nodes[b]]
    BY <1>0 DEF Ordered
  <2>2. CASE j < p
    <3>1. i \in 1 .. n /\ j \in 1 .. n /\ i < p
      BY <2>2, <1>0, <1>1
    <3>2. new[i] = nodes[i] /\ new[j] = nodes[j]
      BY <3>1, <2>2, <1>2
    <3> QED BY <3>1, <3>2, <2>1
  <2>3. CASE j = p
    BY <2>3, <1>0, <1>1, <1>2
  <2>4. CASE j > p /\ i < p
    <3>1. i \in 1 .. n /\ j - 1 \in 1 .. n /\ i <= j - 1
      BY <2>4, <1>0, <1>1
    <3>2. new[i] = nodes[i] /\ new[j] = nodes[j - 1]
      BY <2>4, <1>0, <1>1, <1>2
    <3>3. CASE i < j - 1
      BY <3>1, <3>2, <3>3, <2>1
    <3>4. CASE i = j - 1
      BY <3>1, <3>2, <3>4, <1>0
    <3> QED BY <3>1, <3>3, <3>4, <1>0
  <2>5. CASE j > p /\ i = p
    <3>1. j - 1 \in 1 .. n /\ j - 1 >= p
      BY <2>5, <1>0, <1>1
    <3>2. new[i] = job /\ new[j] = nodes[j - 1]
      BY <2>5, <1>0, <1>1, <1>2
    <3> QED BY <3>1, <3>2, <1>1
  <2>6. CASE j > p /\ i > p
    <3>1. i - 1 \in 1 .. n /\ j - 1 \in 1 .. n /\ i - 1 < j - 1
      BY <2>6, <1>0, <1>1
    <3> QED BY <2>6, <3>1, <2>1, <1>0, <1>1, <1>2
  <2> QED BY <2>2, <2>3, <2>4, <2>5, <2>6, <1>0, <1>1
<1>6. Distinct(new)
  <2> SUFFICES ASSUME NEW i \in 1 .. n + 1, NEW j \in 1 .. n + 1, i < j
               PROVE  new[i] # new[j]
    BY <1>0, <1>3 DEF Distinct
  <2>1. \A a, b \in 1 .. n : a < b => nodes[a] # nodes[b]
    BY <1>0 DEF Distinct
  <2>2. CASE j < p
    <3>1. i \in 1 .. n /\ j \in 1 .. n /\ i < p
      BY <2>2, <1>0, <1>1
    <3>2. new[i] = nodes[i] /\ new[j] = nodes[j]
      BY <3>1, <2>2, <1>2
    <3> QED BY <3>1, <3>2, <2>1
  <2>3. CASE j = p
    BY <2>3, <1>0, <1>1, <1>2
  <2>4. CASE j > p
    <3>1. j - 1 \in 1 .. n /\ new[j] = nodes[j - 1]
      BY <2>4, <1>0, <1>1, <1>2
    <3>2. CASE i < p
      <4>1. i \in 1 .. n /\ i < j - 1 /\ new[i] = nodes[i]
        BY <3>2, <2>4, <1>0, <1>1, <1>2
      <4> QED BY <4>1, <3>1, <2>1
    <3>3. CASE i = p
      BY <3>3, <3>1, <1>0, <1>1, <1>2
    <3>4. CASE i > p
      <4>1. i - 1 \in 1 .. n /\ i - 1 < j - 1
        BY <3>4, <2>4, <1>0, <1>1
      <4>2. ~(i < p) /\ i # p
        BY <3>4, <1>0, <1>1
      <4>3. new[i] = nodes[i - 1]
        BY <4>2, <1>2
      <4> QED BY <4>1, <4>3, <3>1, <2>1
    <3> QED BY <3>2, <3>3, <3>4, <1>0, <1>1
  <2> QED BY <2>2, <2>3, <2>4, <1>0, <1>1
<1> QED BY <1>2, <1>3, <1>4, <1>5, <1>6 DEF new

\* Removing by the id of the head takes the head, and never runs off the list
\* (jobs.cpp:103-127).
LEMMA RemovedHead ==
    ASSUME NEW S, NEW nodes \in Seq(S), nodes # <<>>, NEW ids
    PROVE  /\ ~RemoveFaults(nodes, ids, ids[nodes[1]])
           /\ Removed(nodes, ids, ids[nodes[1]]) = RemoveAt(nodes, 1)
<1> DEFINE found == FoundAt(nodes, ids, ids[nodes[1]])
<1>1. Len(nodes) \in Nat /\ DOMAIN nodes = 1 .. Len(nodes) /\ Len(nodes) >= 1
  BY LenProperties, EmptySeq
<1>2. 1 \in found /\ \A k \in found : k \in Int /\ 1 <= k
  BY <1>1 DEF FoundAt, Compared
<1>3. (CHOOSE i \in found : \A k \in found : i <= k) = 1
  <2> HIDE DEF found
  <2>1. \E i \in found : \A k \in found : i <= k
    BY <1>2
  <2>2. PICK c \in found : c = (CHOOSE i \in found : \A k \in found : i <= k)
                         /\ \A k \in found : c <= k
    BY <2>1
  <2>3. c = 1
    BY <2>2, <1>2
  <2> QED BY <2>2, <2>3
<1>4. ~RemoveFaults(nodes, ids, ids[nodes[1]])
  BY DEF RemoveFaults
<1>5. Removed(nodes, ids, ids[nodes[1]]) = RemoveAt(nodes, 1)
  <2>1. found # {}
    BY <1>2
  <2> QED BY <2>1, <1>3 DEF Removed
<1> QED BY <1>4, <1>5

\* The list without its head.
THEOREM RemovedHeadOrdered ==
    ASSUME NEW S, NEW nodes \in Seq(S), nodes # <<>>, NEW ids, NEW nx,
           Ordered(nodes, nx), Distinct(nodes)
    PROVE  LET new == Removed(nodes, ids, ids[nodes[1]])
           IN  /\ new \in Seq(S)
               /\ Range(new) = Range(nodes) \ {nodes[1]}
               /\ Ordered(new, nx)
               /\ Distinct(new)
<1> DEFINE new == Removed(nodes, ids, ids[nodes[1]])
           n == Len(nodes)
<1>1. n \in Nat /\ DOMAIN nodes = 1 .. n /\ n >= 1
      /\ Range(nodes) = {nodes[i] : i \in 1 .. n}
      /\ \A i \in 1 .. n : nodes[i] \in S
  BY LenProperties, EmptySeq, RangeEquality
<1>2. /\ new \in Seq(S) /\ Len(new) = n - 1
      /\ \A j \in 1 .. n - 1 : new[j] = nodes[j + 1]
  <2>1. new = SubSeq(nodes, 1, 0) \o SubSeq(nodes, 2, n)
    BY RemovedHead DEF RemoveAt
  <2>2. SubSeq(nodes, 1, 0) = <<>>
    BY SubSeqEmpty
  <2>3. /\ SubSeq(nodes, 2, n) \in Seq(S) /\ Len(SubSeq(nodes, 2, n)) = n - 1
        /\ \A j \in 1 .. n - 1 : SubSeq(nodes, 2, n)[j] = nodes[j + 1]
    BY <1>1, SubSeqProperties
  <2>4. new = SubSeq(nodes, 2, n)
    <3> HIDE DEF new, n
    <3> QED BY <2>1, <2>2, <2>3, ConcatEmptySeq
  <2> HIDE DEF new, n
  <2> QED BY <2>3, <2>4
<1> HIDE DEF new, n
<1>3. DOMAIN new = 1 .. n - 1 /\ Range(new) = {new[i] : i \in 1 .. n - 1}
  BY <1>2, LenProperties, RangeEquality
<1>4. \A i, j \in 1 .. n : nodes[i] = nodes[j] => i = j
  BY <1>1 DEF Distinct
<1>5. Range(new) = Range(nodes) \ {nodes[1]}
  <2>1. \A i \in 1 .. n - 1 : new[i] \in Range(nodes) /\ new[i] # nodes[1]
    BY <1>1, <1>2, <1>4
  <2>2. \A i \in 1 .. n : nodes[i] # nodes[1] => nodes[i] \in Range(new)
    <3> SUFFICES ASSUME NEW i \in 1 .. n, nodes[i] # nodes[1]
                 PROVE  \E j \in 1 .. n - 1 : nodes[i] = new[j]
      BY <1>3
    <3>1. i - 1 \in 1 .. n - 1 /\ (i - 1) + 1 = i
      BY <1>1
    <3>2. nodes[i] = new[i - 1]
      BY <3>1, <1>2
    <3> QED BY <3>1, <3>2
  <2> QED BY <2>1, <2>2, <1>1, <1>3
<1>6. Ordered(new, nx)
  <2> SUFFICES ASSUME NEW i \in 1 .. n - 1, NEW j \in 1 .. n - 1, i < j
               PROVE  nx[new[i]] <= nx[new[j]]
    BY <1>3 DEF Ordered
  <2>1. i + 1 \in 1 .. n /\ j + 1 \in 1 .. n /\ i + 1 < j + 1
    BY <1>1
  <2>2. nx[nodes[i + 1]] <= nx[nodes[j + 1]]
    BY <2>1, <1>1 DEF Ordered
  <2> QED BY <2>2, <1>2
<1>7. Distinct(new)
  BY <1>1, <1>2, <1>3, <1>4 DEF Distinct
<1> QED BY <1>2, <1>5, <1>6, <1>7 DEF new

-----------------------------------------------------------------------------
(* The scheduler *)

LEMMA CronNextInt ==
    ASSUME NEW e \in Entry, NEW t \in Nat
    PROVE  cron_next(e, t) \in Int
<1>1. At[e] \in Int /\ Day \in Nat \ {0}
  BY AtAssumption, DayAssumption
<1>2. (At[e] - t - 1) % Day \in Int
  BY <1>1
<1> QED BY <1>2 DEF cron_next

\* The state after a start of the chip: nothing allocated, no task.
Booted ==
    /\ now \in Nat /\ inits \in Nat
    /\ entries \subseteq Entry
    /\ alloc = {} /\ todo = {}
    /\ data = [b \in Block |-> None]
    /\ id = [b \in Block |-> -1]
    /\ next_execution = [b \in Block |-> -1]
    /\ list = <<>>
    /\ next_id = 0
    /\ mutex = "free"
    /\ running = FALSE /\ handle = FALSE
    /\ spc = "none" /\ sjob = None /\ wake = 0
    /\ cpc = "stop"
    /\ launcher = [s \in Slot |-> IdleLauncher]
    /\ panic = "no"

LEMMA BootedInv == Booted => IInv
<1> SUFFICES ASSUME Booted PROVE IInv
  OBVIOUS
<1> USE DEF Booted
<1>1. TypeOK
  <2>1. IdleLauncher \in Launchers
    BY DEF IdleLauncher, Launchers
  <2>2. launcher \in [Slot -> Launchers]
    BY <2>1
  <2>3. data \in [Block -> Entry \cup {None}]
    OBVIOUS
  <2>4. id \in [Block -> Int] /\ next_execution \in [Block -> Int]
    OBVIOUS
  <2>5. list \in Seq(Block) /\ wake \in Int /\ next_id \in Nat
    OBVIOUS
  <2>6. /\ alloc \subseteq Block /\ todo \subseteq Entry
        /\ running \in BOOLEAN /\ handle \in BOOLEAN
    OBVIOUS
  <2>7. /\ mutex \in {"free", "sched", "nobody"} /\ spc \in SchedulerPlaces
        /\ cpc \in ClientPlaces /\ panic \in Panics /\ sjob \in Block \cup {None}
    BY DEF SchedulerPlaces, ClientPlaces, Panics
  <2> HIDE DEF Booted
  <2> QED BY <2>2, <2>3, <2>4, <2>5, <2>6, <2>7 DEF TypeOK, Booted
<1>2. Range(list) = {} /\ InHand = {} /\ Scheduled = {}
  BY DEF Range, InHand, Scheduled
<1>3. ListOrdered
  BY DEF ListOrdered, Ordered, Distinct
<1>4. MutexInv /\ TaskInv /\ SchedInv /\ HeapInv /\ RowInv /\ PanicNeedsLostMutex
  BY <1>2 DEF MutexInv, TaskInv, SchedInv, HeapInv, RowInv, PanicNeedsLostMutex, Holding
<1> QED BY <1>1, <1>3, <1>4 DEF IInv

LEMMA InitInv == Init => IInv
BY BootedInv DEF Init, Booted

LEMMA RestartInv == IInv /\ Restart => IInv'
<1>1. IInv /\ Restart => Booted'
  BY DEF IInv, TypeOK, Restart, Booted
<1>2. Booted' => IInv'
  BY BootedInv, PTL
<1> QED BY <1>1, <1>2

\* What the proofs below use of the list and the sets built from it.
LEMMA ListFacts ==
    ASSUME IInv
    PROVE  /\ list \in Seq(Block) /\ Range(list) \subseteq Block
           /\ Scheduled \subseteq Block
           /\ list # <<>> => list[1] \in Range(list)
           /\ \A i \in DOMAIN list : list[i] \in Range(list)
<1>1. list \in Seq(Block) /\ Range(list) \subseteq Block
  BY RangeOfSeq DEF IInv, TypeOK
<1>2. Scheduled \subseteq Block
  BY <1>1 DEF IInv, SchedInv, Scheduled, InHand
<1>3. list # <<>> => 1 \in DOMAIN list
  BY <1>1, LenProperties, EmptySeq
<1> QED BY <1>1, <1>2, <1>3 DEF Range

\* Steps that leave the heap and the list alone, and the scheduler with the
\* same job in hand.
LEMMA FrameInv ==
    ASSUME IInv, UNCHANGED <<heap, jobs>>, Scheduled' = Scheduled,
           mutex' # "nobody" => mutex # "nobody"
    PROVE  ListOrdered' /\ HeapInv'
<1>1. ListOrdered'
  BY DEF IInv, ListOrdered, Ordered, Distinct, jobs
<1>2. HeapInv'
  BY DEF IInv, HeapInv, jobs, heap
<1> QED BY <1>1, <1>2

LEMMA SchedTopInv ==
    ASSUME IInv, panic = "no", SchedTop
    PROVE  IInv'
<1> USE DEF SchedTop
<1>0. /\ TypeOK /\ ListOrdered /\ MutexInv /\ TaskInv /\ SchedInv /\ HeapInv /\ RowInv
      /\ PanicNeedsLostMutex
  BY DEF IInv
<1>1. TypeOK'
  BY <1>0, ListFacts DEF TypeOK, SchedulerPlaces, Panics, sched, heap, jobs, client
<1>2. Scheduled' = Scheduled
  BY DEF Scheduled, InHand, jobs, sched
<1>3. ListOrdered' /\ HeapInv'
  BY <1>2, FrameInv
<1>4. MutexInv' /\ TaskInv'
  BY <1>0 DEF MutexInv, TaskInv, Holding, client, jobs, sched
<1>5. SchedInv'
  <2>1. CASE list = <<>>
    BY <1>0, <2>1 DEF SchedInv, MutexInv, jobs, sched, Range
  <2>2. CASE list # <<>>
    <3>1. list[1] \in Block /\ next_execution[list[1]] \in Int
      BY <1>0, <2>2, ListFacts DEF TypeOK
    <3>2. next_execution'[sjob'] = next_execution[list[1]]
      BY <2>2 DEF jobs
    <3> QED BY <2>2, <3>1, <3>2 DEF SchedInv, jobs
  <2> QED BY <2>1, <2>2
<1>6. RowInv'
  BY <1>0, <1>2 DEF RowInv, heap, client
<1>7. PanicNeedsLostMutex'
  BY <1>0 DEF PanicNeedsLostMutex, SchedInv, jobs
<1> QED BY <1>1, <1>3, <1>4, <1>5, <1>6, <1>7 DEF IInv

LEMMA SchedWakeInv ==
    ASSUME IInv, panic = "no", SchedWake
    PROVE  IInv'
<1> USE DEF SchedWake
<1>0. /\ TypeOK /\ ListOrdered /\ MutexInv /\ TaskInv /\ SchedInv /\ HeapInv /\ RowInv
      /\ PanicNeedsLostMutex
  BY DEF IInv
<1>1. TypeOK'
  BY <1>0 DEF TypeOK, SchedulerPlaces, ClientPlaces, Panics, sched, heap, jobs, client
<1>2. Scheduled' = Scheduled
  BY <1>0 DEF Scheduled, InHand, jobs, sched, Range
<1>3. ListOrdered' /\ HeapInv'
  BY <1>0, <1>2, FrameInv DEF MutexInv, Holding
<1>4. MutexInv' /\ TaskInv'
  BY <1>0 DEF MutexInv, TaskInv, Holding, client, jobs, sched
<1>5. SchedInv'
  BY <1>0, ListFacts DEF SchedInv, MutexInv, Holding, jobs, sched, Range
<1>6. RowInv'
  BY <1>0, <1>2 DEF RowInv, heap, client, MutexInv, Holding
<1>7. PanicNeedsLostMutex'
  BY <1>0 DEF PanicNeedsLostMutex, SchedInv, jobs
<1> QED BY <1>1, <1>3, <1>4, <1>5, <1>6, <1>7 DEF IInv

LEMMA SchedLaunchInv ==
    ASSUME IInv, panic = "no", SchedLaunch
    PROVE  IInv'
<1> USE DEF SchedLaunch
<1>0. /\ TypeOK /\ ListOrdered /\ MutexInv /\ TaskInv /\ SchedInv /\ HeapInv /\ RowInv
      /\ PanicNeedsLostMutex
  BY DEF IInv
<1>1. TypeOK'
  <2>1. PICK s \in Slot :
          launcher' = [launcher EXCEPT ![s] =
             [at |-> "start", arg |-> sjob, due |-> data[sjob], ran |-> None]]
    OBVIOUS
  <2>2. [at |-> "start", arg |-> sjob, due |-> data[sjob], ran |-> None] \in Launchers
    <3>1. sjob \in Block /\ sjob \in Scheduled
      BY <1>0, ListFacts DEF SchedInv, Scheduled
    <3>2. data[sjob] \in Entry
      BY <1>0, <3>1 DEF HeapInv
    <3> QED BY <3>1, <3>2 DEF Launchers
  <2>3. launcher' \in [Slot -> Launchers]
    BY <1>0, <2>1, <2>2 DEF TypeOK
  <2> QED BY <1>0, <2>3 DEF TypeOK, SchedulerPlaces, heap, jobs, client
<1>2. Scheduled' = Scheduled
  BY <1>0 DEF Scheduled, InHand, jobs, sched, Range
<1>3. ListOrdered' /\ HeapInv'
  BY <1>0, <1>2, FrameInv DEF MutexInv, Holding
<1>4. MutexInv' /\ TaskInv'
  BY <1>0 DEF MutexInv, TaskInv, Holding, client, jobs, sched
<1>5. SchedInv'
  BY <1>0, ListFacts DEF SchedInv, MutexInv, Holding, jobs, sched, Range
<1>6. RowInv'
  BY <1>0, <1>2 DEF RowInv, heap, client, MutexInv, Holding
<1>7. PanicNeedsLostMutex'
  BY <1>0 DEF PanicNeedsLostMutex, SchedInv, jobs
<1> QED BY <1>1, <1>3, <1>4, <1>5, <1>6, <1>7 DEF IInv

LEMMA SchedTakeInv ==
    ASSUME IInv, panic = "no", SchedTake
    PROVE  IInv'
<1> USE DEF SchedTake
<1>0. /\ TypeOK /\ ListOrdered /\ MutexInv /\ TaskInv /\ SchedInv /\ HeapInv /\ RowInv
      /\ PanicNeedsLostMutex
  BY DEF IInv
<1>a. mutex = "free"
  BY <1>0 DEF MutexInv, Holding, TypeOK
<1>1. TypeOK'
  BY <1>0, <1>a DEF TypeOK, SchedulerPlaces, ClientPlaces, Panics, sched, heap, jobs, client
<1>2. Scheduled' = Scheduled
  BY <1>0, <1>a DEF Scheduled, InHand, jobs, sched, Range
<1>3. ListOrdered' /\ HeapInv'
  BY <1>0, <1>a, <1>2, FrameInv DEF MutexInv, Holding
<1>4. MutexInv' /\ TaskInv'
  BY <1>0, <1>a DEF MutexInv, TaskInv, Holding, client, jobs, sched
<1>5. SchedInv'
  BY <1>0, <1>a, ListFacts DEF SchedInv, MutexInv, Holding, jobs, sched, Range
<1>6. RowInv'
  BY <1>0, <1>a, <1>2 DEF RowInv, heap, client, MutexInv, Holding
<1>7. PanicNeedsLostMutex'
  BY <1>0, <1>a DEF PanicNeedsLostMutex, SchedInv, jobs
<1> QED BY <1>1, <1>3, <1>4, <1>5, <1>6, <1>7 DEF IInv

LEMMA SchedGiveInv ==
    ASSUME IInv, panic = "no", SchedGive
    PROVE  IInv'
<1> USE DEF SchedGive
<1>0. /\ TypeOK /\ ListOrdered /\ MutexInv /\ TaskInv /\ SchedInv /\ HeapInv /\ RowInv
      /\ PanicNeedsLostMutex
  BY DEF IInv
<1>1. TypeOK'
  BY <1>0 DEF TypeOK, SchedulerPlaces, ClientPlaces, Panics, sched, heap, jobs, client
<1>2. Scheduled' = Scheduled
  BY <1>0 DEF Scheduled, InHand, jobs, sched, Range
<1>3. ListOrdered' /\ HeapInv'
  BY <1>0, <1>2, FrameInv DEF MutexInv, Holding
<1>4. MutexInv' /\ TaskInv'
  BY <1>0 DEF MutexInv, TaskInv, Holding, client, jobs, sched
<1>5. SchedInv'
  BY <1>0, ListFacts DEF SchedInv, MutexInv, Holding, jobs, sched, Range
<1>6. RowInv'
  BY <1>0, <1>2 DEF RowInv, heap, client, MutexInv, Holding
<1>7. PanicNeedsLostMutex'
  BY <1>0 DEF PanicNeedsLostMutex, SchedInv, jobs
<1> QED BY <1>1, <1>3, <1>4, <1>5, <1>6, <1>7 DEF IInv

LEMMA LauncherReadInv ==
    ASSUME IInv, panic = "no", NEW s \in Slot, LauncherRead(s)
    PROVE  IInv'
<1> USE DEF LauncherRead
<1>0. /\ TypeOK /\ ListOrdered /\ MutexInv /\ TaskInv /\ SchedInv /\ HeapInv /\ RowInv
      /\ PanicNeedsLostMutex
  BY DEF IInv
<1>1. TypeOK'
  <2>1. launcher[s] \in Launchers \ {IdleLauncher} /\ launcher[s].arg \in Block
    <3>1. launcher[s] \in Launchers /\ launcher[s].at # "none"
      BY <1>0 DEF TypeOK
    <3>2. IdleLauncher.at = "none"
      BY DEF IdleLauncher
    <3> QED BY <3>1, <3>2 DEF Launchers
  <2>2. data[launcher[s].arg] \in Entry \cup {None}
    BY <1>0, <2>1 DEF TypeOK
  <2>3. [launcher[s] EXCEPT !.at = "run", !.ran = data[launcher[s].arg]] \in Launchers
    BY <2>1, <2>2 DEF Launchers
  <2>4. launcher' \in [Slot -> Launchers]
    BY <1>0, <2>3 DEF TypeOK
  <2>5. panic' \in Panics
    BY <1>0 DEF Panics
  <2>6. UNCHANGED <<now, alloc, data, id, next_execution, list, next_id, mutex, running, handle,
                   spc, sjob, wake, cpc, todo, entries, inits>>
    BY <1>0 DEF sched, heap, jobs, client
  <2> HIDE DEF LauncherRead
  <2> QED BY <1>0, <2>4, <2>5, <2>6 DEF TypeOK
<1>2. Scheduled' = Scheduled
  BY <1>0 DEF Scheduled, InHand, jobs, sched, Range
<1>3. ListOrdered' /\ HeapInv'
  BY <1>0, <1>2, FrameInv DEF MutexInv, Holding
<1>4. MutexInv' /\ TaskInv'
  BY <1>0 DEF MutexInv, TaskInv, Holding, client, jobs, sched
<1>5. SchedInv'
  BY <1>0, ListFacts DEF SchedInv, MutexInv, Holding, jobs, sched, Range
<1>6. RowInv'
  BY <1>0, <1>2 DEF RowInv, heap, client, MutexInv, Holding
<1>7. PanicNeedsLostMutex'
  BY <1>0 DEF PanicNeedsLostMutex, SchedInv, jobs
<1> QED BY <1>1, <1>3, <1>4, <1>5, <1>6, <1>7 DEF IInv

LEMMA LauncherEndInv ==
    ASSUME IInv, panic = "no", NEW s \in Slot, LauncherEnd(s)
    PROVE  IInv'
<1> USE DEF LauncherEnd
<1>0. /\ TypeOK /\ ListOrdered /\ MutexInv /\ TaskInv /\ SchedInv /\ HeapInv /\ RowInv
      /\ PanicNeedsLostMutex
  BY DEF IInv
<1>1. TypeOK'
  <2>1. IdleLauncher \in Launchers
    BY DEF IdleLauncher, Launchers
  <2>2. launcher' \in [Slot -> Launchers]
    BY <1>0, <2>1 DEF TypeOK
  <2> QED BY <1>0, <2>2 DEF TypeOK, sched, heap, jobs, client
<1>2. Scheduled' = Scheduled
  BY <1>0 DEF Scheduled, InHand, jobs, sched, Range
<1>3. ListOrdered' /\ HeapInv'
  BY <1>0, <1>2, FrameInv DEF MutexInv, Holding
<1>4. MutexInv' /\ TaskInv'
  BY <1>0 DEF MutexInv, TaskInv, Holding, client, jobs, sched
<1>5. SchedInv'
  BY <1>0, ListFacts DEF SchedInv, MutexInv, Holding, jobs, sched, Range
<1>6. RowInv'
  BY <1>0, <1>2 DEF RowInv, heap, client, MutexInv, Holding
<1>7. PanicNeedsLostMutex'
  BY <1>0 DEF PanicNeedsLostMutex, SchedInv, jobs
<1> QED BY <1>1, <1>3, <1>4, <1>5, <1>6, <1>7 DEF IInv

LEMMA SetZamanInv ==
    ASSUME IInv, panic = "no", SetZaman
    PROVE  IInv'
<1> USE DEF SetZaman
<1>0. /\ TypeOK /\ ListOrdered /\ MutexInv /\ TaskInv /\ SchedInv /\ HeapInv /\ RowInv
      /\ PanicNeedsLostMutex
  BY DEF IInv
<1>1. TypeOK'
  BY <1>0 DEF TypeOK, SchedulerPlaces, ClientPlaces, Panics, sched, heap, jobs, client
<1>2. Scheduled' = Scheduled
  BY <1>0 DEF Scheduled, InHand, jobs, sched, Range
<1>3. ListOrdered' /\ HeapInv'
  BY <1>0, <1>2, FrameInv DEF MutexInv, Holding
<1>4. MutexInv' /\ TaskInv'
  BY <1>0 DEF MutexInv, TaskInv, Holding, client, jobs, sched
<1>5. SchedInv'
  BY <1>0, ListFacts DEF SchedInv, MutexInv, Holding, jobs, sched, Range
<1>6. RowInv'
  BY <1>0, <1>2 DEF RowInv, heap, client, MutexInv, Holding
<1>7. PanicNeedsLostMutex'
  BY <1>0 DEF PanicNeedsLostMutex, SchedInv, jobs
<1> QED BY <1>1, <1>3, <1>4, <1>5, <1>6, <1>7 DEF IInv

LEMMA CronStopInv ==
    ASSUME IInv, panic = "no", CronStop
    PROVE  IInv'
<1> USE DEF CronStop
<1>0. /\ TypeOK /\ ListOrdered /\ MutexInv /\ TaskInv /\ SchedInv /\ HeapInv /\ RowInv
      /\ PanicNeedsLostMutex
  BY DEF IInv
<1>1. TypeOK'
  BY <1>0 DEF TypeOK, SchedulerPlaces, ClientPlaces, Panics, sched, heap, jobs, client
<1>2. Scheduled' = Scheduled
  BY <1>0 DEF Scheduled, InHand, jobs, sched, Range
<1>3. ListOrdered' /\ HeapInv'
  BY <1>0, <1>2, FrameInv DEF MutexInv, Holding
<1>4. MutexInv' /\ TaskInv'
  BY <1>0 DEF MutexInv, TaskInv, Holding, client, jobs, sched
<1>5. SchedInv'
  BY <1>0, ListFacts DEF SchedInv, MutexInv, Holding, jobs, sched, Range
<1>6. RowInv'
  BY <1>0, <1>2 DEF RowInv, heap, client, MutexInv, Holding
<1>7. PanicNeedsLostMutex'
  BY <1>0 DEF PanicNeedsLostMutex, SchedInv, jobs
<1> QED BY <1>1, <1>3, <1>4, <1>5, <1>6, <1>7 DEF IInv

LEMMA CronDeleteInv ==
    ASSUME IInv, panic = "no", CronDelete
    PROVE  IInv'
<1> USE DEF CronDelete
<1>0. /\ TypeOK /\ ListOrdered /\ MutexInv /\ TaskInv /\ SchedInv /\ HeapInv /\ RowInv
      /\ PanicNeedsLostMutex
  BY DEF IInv
<1>1. TypeOK'
  BY <1>0 DEF TypeOK, SchedulerPlaces, ClientPlaces, Panics, sched, heap, jobs, client
<1>2. Scheduled' \subseteq Scheduled
  BY DEF Scheduled, InHand, jobs, Range
<1>3. ListOrdered' /\ HeapInv'
  <2>1. ListOrdered'
    BY <1>0 DEF ListOrdered, Ordered, Distinct, jobs
  <2>2. HeapInv'
    BY <1>0, <1>2 DEF HeapInv, heap, jobs
  <2> QED BY <2>1, <2>2
<1>4. MutexInv' /\ TaskInv'
  BY <1>0 DEF MutexInv, TaskInv, Holding, client, jobs, sched
<1>5. SchedInv'
  BY <1>0, ListFacts DEF SchedInv, MutexInv, Holding, jobs, sched, Range
<1>6. RowInv'
  BY DEF RowInv
<1>7. PanicNeedsLostMutex'
  BY <1>0 DEF PanicNeedsLostMutex, SchedInv, jobs
<1> QED BY <1>1, <1>3, <1>4, <1>5, <1>6, <1>7 DEF IInv

LEMMA CronStartInv ==
    ASSUME IInv, panic = "no", CronStart
    PROVE  IInv'
<1> USE DEF CronStart, cron_start
<1>0. /\ TypeOK /\ ListOrdered /\ MutexInv /\ TaskInv /\ SchedInv /\ HeapInv /\ RowInv
      /\ PanicNeedsLostMutex
  BY DEF IInv
<1>1. TypeOK'
  BY <1>0 DEF TypeOK, SchedulerPlaces, ClientPlaces, Panics, sched, heap, jobs, client
<1>2. Scheduled' = Scheduled
  BY <1>0 DEF TaskInv, Scheduled, InHand, jobs, Range
<1>3. ListOrdered' /\ HeapInv'
  BY <1>0, <1>2, FrameInv DEF MutexInv, Holding
<1>4. MutexInv' /\ TaskInv'
  BY <1>0 DEF MutexInv, TaskInv, Holding, client, jobs, sched
<1>5. SchedInv'
  <2>1. spc = "none"
    BY <1>0 DEF TaskInv
  <2>2. CASE entries = {}
    BY <2>1, <2>2 DEF SchedInv
  <2>3. CASE entries # {} /\ mutex # "nobody"
    <3>1. {data[b] : b \in Scheduled} = entries
      BY <1>0, <2>3 DEF RowInv
    <3>2. Range(list) # {}
      BY <2>1, <2>3, <3>1 DEF Scheduled, InHand
    <3>3. list # <<>>
      BY <3>2 DEF Range
    <3> QED BY <2>1, <3>3 DEF SchedInv, jobs
  <2>4. CASE mutex = "nobody"
    BY <2>1, <2>4 DEF SchedInv
  <2> QED BY <2>2, <2>3, <2>4
<1>6. RowInv'
  BY <1>0, <1>2 DEF RowInv, heap, client, MutexInv, Holding
<1>7. PanicNeedsLostMutex'
  BY <1>0 DEF PanicNeedsLostMutex, SchedInv, jobs
<1> QED BY <1>1, <1>3, <1>4, <1>5, <1>6, <1>7 DEF IInv

LEMMA TickInv ==
    ASSUME IInv, panic = "no", Tick
    PROVE  IInv'
<1> USE DEF Tick
<1>0. /\ TypeOK /\ ListOrdered /\ MutexInv /\ TaskInv /\ SchedInv /\ HeapInv /\ RowInv
      /\ PanicNeedsLostMutex
  BY DEF IInv
<1>1. TypeOK'
  BY <1>0 DEF TypeOK, SchedulerPlaces, ClientPlaces, Panics, sched, heap, jobs, client
<1>2. Scheduled' = Scheduled
  BY <1>0 DEF Scheduled, InHand, jobs, sched, Range
<1>3. ListOrdered' /\ HeapInv'
  BY <1>0, <1>2, FrameInv DEF MutexInv, Holding
<1>4. MutexInv' /\ TaskInv'
  BY <1>0 DEF MutexInv, TaskInv, Holding, client, jobs, sched
<1>5. SchedInv'
  BY <1>0, ListFacts DEF SchedInv, MutexInv, Holding, jobs, sched, Range
<1>6. RowInv'
  BY <1>0, <1>2 DEF RowInv, heap, client, MutexInv, Holding
<1>7. PanicNeedsLostMutex'
  BY <1>0 DEF PanicNeedsLostMutex, SchedInv, jobs
<1> QED BY <1>1, <1>3, <1>4, <1>5, <1>6, <1>7 DEF IInv

LEMMA SchedUnlinkInv ==
    ASSUME IInv, panic = "no", SchedUnlink
    PROVE  IInv'
<1> USE DEF SchedUnlink
<1>0. /\ TypeOK /\ ListOrdered /\ MutexInv /\ TaskInv /\ SchedInv /\ HeapInv /\ RowInv
      /\ PanicNeedsLostMutex
  BY DEF IInv
<1>1. /\ list \in Seq(Block) /\ list # <<>> /\ list[1] = sjob /\ sjob \in Block
      /\ Ordered(list, next_execution) /\ Distinct(list) /\ list[1] \in Range(list)
  BY <1>0, ListFacts DEF SchedInv, TypeOK, ListOrdered
<1>2. ~RemoveFaults(list, id, id[sjob])
  BY <1>1, RemovedHead
<1>3. list' = Removed(list, id, id[sjob]) /\ spc' = "unlinked" /\ panic' = panic
  BY <1>2
<1>4. /\ list' \in Seq(Block) /\ Range(list') = Range(list) \ {sjob}
      /\ Ordered(list', next_execution) /\ Distinct(list')
  BY <1>1, <1>3, RemovedHeadOrdered
<1>5. Scheduled = Range(list) /\ Scheduled' = Range(list') \cup {sjob}
  BY <1>3 DEF Scheduled, InHand, sched, Range
<1>6. Scheduled' = Scheduled
  BY <1>1, <1>4, <1>5
<1>7. TypeOK'
  BY <1>0, <1>3, <1>4 DEF TypeOK, SchedulerPlaces, sched, heap, client
<1>8. ListOrdered' /\ HeapInv'
  BY <1>0, <1>4, <1>6 DEF ListOrdered, Ordered, Distinct, HeapInv, heap
<1>9. MutexInv' /\ TaskInv' /\ RowInv' /\ PanicNeedsLostMutex'
  BY <1>0, <1>3, <1>6
  DEF MutexInv, TaskInv, RowInv, PanicNeedsLostMutex, Holding, client, heap
<1>10. SchedInv'
  BY <1>1, <1>3, <1>4 DEF SchedInv, Range
<1> QED BY <1>7, <1>8, <1>9, <1>10 DEF IInv

LEMMA SchedReschedInv ==
    ASSUME IInv, panic = "no", SchedResched
    PROVE  IInv'
<1> USE DEF SchedResched
<1>0. /\ TypeOK /\ ListOrdered /\ MutexInv /\ TaskInv /\ SchedInv /\ HeapInv /\ RowInv
      /\ PanicNeedsLostMutex
  BY DEF IInv
<1>1. sjob \in Block /\ sjob \notin Range(list) /\ data[sjob] \in Entry
  BY <1>0 DEF SchedInv, HeapInv, Scheduled, InHand
<1>2. cron_next(data[sjob], now) \in Int
  BY <1>0, <1>1, CronNextInt DEF TypeOK
<1>3. next_execution' \in [Block -> Int]
  BY <1>0, <1>2 DEF TypeOK
<1>4. \A i \in DOMAIN list : next_execution'[list[i]] = next_execution[list[i]]
  BY <1>0, <1>1, ListFacts DEF TypeOK
<1>5. Scheduled' = Scheduled
  BY DEF Scheduled, InHand, Range
<1>6. TypeOK'
  BY <1>0, <1>3 DEF TypeOK, SchedulerPlaces, heap, client
<1>7. ListOrdered' /\ HeapInv'
  BY <1>0, <1>4, <1>5 DEF ListOrdered, Ordered, Distinct, HeapInv, heap
<1>8. MutexInv' /\ TaskInv' /\ RowInv' /\ PanicNeedsLostMutex'
  BY <1>0, <1>5
  DEF MutexInv, TaskInv, RowInv, PanicNeedsLostMutex, Holding, client, heap
<1>9. SchedInv'
  BY <1>0, <1>1 DEF SchedInv, Range
<1> QED BY <1>6, <1>7, <1>8, <1>9 DEF IInv

LEMMA SchedRelinkInv ==
    ASSUME IInv, panic = "no", SchedRelink
    PROVE  IInv'
<1> USE DEF SchedRelink
<1>0. /\ TypeOK /\ ListOrdered /\ MutexInv /\ TaskInv /\ SchedInv /\ HeapInv /\ RowInv
      /\ PanicNeedsLostMutex
  BY DEF IInv
<1>1. /\ list \in Seq(Block) /\ next_execution \in [Block -> Int]
      /\ sjob \in Block /\ sjob \notin Range(list)
      /\ Ordered(list, next_execution) /\ Distinct(list)
  BY <1>0 DEF SchedInv, TypeOK, ListOrdered
<1>2. /\ list' \in Seq(Block) /\ list' # <<>> /\ Range(list') = Range(list) \cup {sjob}
      /\ Ordered(list', next_execution) /\ Distinct(list')
  BY <1>1, InsertedOrdered
<1>3. Scheduled' = Scheduled
  BY <1>2 DEF Scheduled, InHand, Range
<1>4. TypeOK'
  BY <1>0, <1>2 DEF TypeOK, SchedulerPlaces, heap, client
<1>5. ListOrdered' /\ HeapInv'
  BY <1>0, <1>2, <1>3 DEF ListOrdered, Ordered, Distinct, HeapInv, heap
<1>6. MutexInv' /\ TaskInv' /\ RowInv' /\ PanicNeedsLostMutex'
  BY <1>0, <1>3
  DEF MutexInv, TaskInv, RowInv, PanicNeedsLostMutex, Holding, client, heap
<1>7. SchedInv'
  BY <1>2 DEF SchedInv
<1> QED BY <1>4, <1>5, <1>6, <1>7 DEF IInv

LEMMA CronClearInv ==
    ASSUME IInv, panic = "no", CronClear
    PROVE  IInv'
<1> USE DEF CronClear
<1>0. /\ TypeOK /\ ListOrdered /\ MutexInv /\ TaskInv /\ SchedInv /\ HeapInv /\ RowInv
      /\ PanicNeedsLostMutex
  BY DEF IInv
<1>1. spc = "none" /\ cpc = "clear" /\ mutex \in {"free", "nobody"}
  BY <1>0 DEF TaskInv, MutexInv, Holding, TypeOK
<1>2. CASE list = <<>>
  <2>1. Scheduled = {} /\ Scheduled' = {}
    BY <1>1, <1>2 DEF Scheduled, InHand, Range, sched
  <2>2. TypeOK'
    BY <1>0, <1>2 DEF TypeOK, ClientPlaces, sched
  <2>3. ListOrdered' /\ HeapInv' /\ RowInv'
    BY <1>0, <1>2, <2>1 DEF ListOrdered, Ordered, Distinct, HeapInv, RowInv
  <2>4. MutexInv' /\ TaskInv' /\ SchedInv' /\ PanicNeedsLostMutex'
    BY <1>0, <1>1, <1>2
    DEF MutexInv, TaskInv, SchedInv, PanicNeedsLostMutex, Holding, sched
  <2> QED BY <2>2, <2>3, <2>4 DEF IInv
<1>3. CASE list # <<>>
  <2>1. /\ list \in Seq(Block) /\ list[1] \in Block /\ list[1] \in Range(list)
        /\ Ordered(list, next_execution) /\ Distinct(list)
    BY <1>0, <1>3, ListFacts DEF ListOrdered
  <2>2. cron_job_destroy(list[1]) /\ cpc' = cpc /\ next_id' = next_id /\ todo' = todo
    BY <1>3
  <2>3. ~RemoveFaults(list, id, id[list[1]])
    BY <1>3, <2>1, RemovedHead
  <2>4. CASE mutex = "free"
    <3>1. list[1] \in alloc /\ id[list[1]] >= 0
      BY <1>0, <2>1, <2>4 DEF HeapInv, Scheduled
    <3>2. /\ list' = Removed(list, id, id[list[1]])
          /\ alloc' = alloc \ {list[1]} /\ panic' = panic
      BY <2>2, <2>3, <2>4, <3>1 DEF cron_job_destroy
    <3>3. /\ list' \in Seq(Block) /\ Range(list') = Range(list) \ {list[1]}
          /\ Ordered(list', next_execution) /\ Distinct(list')
      BY <1>3, <2>1, <3>2, RemovedHeadOrdered
    <3>4. Scheduled = Range(list) /\ Scheduled' = Range(list')
      BY <1>1 DEF Scheduled, InHand, Range, sched
    <3>5. TypeOK'
      BY <1>0, <2>2, <3>2, <3>3 DEF TypeOK, sched
    <3>6. ListOrdered' /\ HeapInv'
      BY <1>0, <3>2, <3>3, <3>4 DEF ListOrdered, Ordered, Distinct, HeapInv
    <3>7. MutexInv' /\ TaskInv' /\ SchedInv' /\ RowInv' /\ PanicNeedsLostMutex'
      BY <1>0, <1>1, <2>2, <2>4, <3>2
      DEF MutexInv, TaskInv, SchedInv, RowInv, PanicNeedsLostMutex, Holding, sched
    <3> QED BY <3>5, <3>6, <3>7 DEF IInv
  <2>5. CASE mutex = "nobody"
    <3>1. list' = list /\ alloc' \subseteq alloc /\ panic' \in {panic, "double free"}
      BY <2>2, <2>5 DEF cron_job_destroy
    <3>2. TypeOK'
      BY <1>0, <2>2, <3>1 DEF TypeOK, Panics, sched
    <3>3. ListOrdered' /\ HeapInv'
      <4>1. Scheduled' = Scheduled
        BY <3>1 DEF Scheduled, InHand, Range, sched
      <4> QED BY <1>0, <2>5, <3>1, <4>1 DEF ListOrdered, Ordered, Distinct, HeapInv
    <3>4. MutexInv' /\ TaskInv' /\ SchedInv' /\ RowInv' /\ PanicNeedsLostMutex'
      BY <1>0, <1>1, <2>2, <2>5, <3>1
      DEF MutexInv, TaskInv, SchedInv, RowInv, PanicNeedsLostMutex, Holding, sched
    <3> QED BY <3>2, <3>3, <3>4 DEF IInv
  <2> QED BY <1>1, <2>4, <2>5
<1> QED BY <1>2, <1>3

LEMMA CronCreateInv ==
    ASSUME IInv, panic = "no", NEW e \in Entry, NEW b \in Block, CronCreate(e, b)
    PROVE  IInv'
<1> USE DEF CronCreate
<1>0. /\ TypeOK /\ ListOrdered /\ MutexInv /\ TaskInv /\ SchedInv /\ HeapInv /\ RowInv
      /\ PanicNeedsLostMutex
  BY DEF IInv
<1>1. /\ spc = "none" /\ cpc = "create" /\ mutex \in {"free", "nobody"}
      /\ cron_job_create(e, b)
  BY <1>0 DEF TaskInv, MutexInv, Holding, TypeOK
<1>2. /\ alloc' = alloc \cup {b} /\ b \notin alloc /\ data' = [data EXCEPT ![b] = e]
      /\ next_execution' \in [Block -> Int] /\ data' \in [Block -> Entry \cup {None}]
      /\ \A c \in Block \ {b} : next_execution'[c] = next_execution[c] /\ data'[c] = data[c]
      /\ data'[b] = e
  <2>1. cron_next(e, now) \in Int
    BY <1>0, CronNextInt DEF TypeOK
  <2> QED BY <1>0, <1>1, <2>1 DEF TypeOK, cron_job_create
<1>3. Scheduled = Range(list) /\ Scheduled' = Range(list')
  BY <1>1 DEF Scheduled, InHand, Range, sched
<1>4. CASE mutex = "free"
  <2>1. /\ list' = Inserted(list, next_execution', b)
        /\ id' = [id EXCEPT ![b] = next_id] /\ next_id' = next_id + 1
    BY <1>1, <1>4 DEF cron_job_create
  <2>2. list \in Seq(Block) /\ b \notin Range(list) /\ Range(list) \subseteq Block
    BY <1>0, <1>2, <1>3, <1>4, ListFacts DEF HeapInv
  <2>3. \A i \in DOMAIN list : next_execution'[list[i]] = next_execution[list[i]]
    BY <1>2, <2>2, ListFacts
  <2>4. Ordered(list, next_execution') /\ Distinct(list)
    BY <1>0, <2>3 DEF ListOrdered, Ordered
  <2>5. /\ list' \in Seq(Block) /\ list' # <<>> /\ Range(list') = Range(list) \cup {b}
        /\ Ordered(list', next_execution') /\ Distinct(list')
    BY <1>2, <2>1, <2>2, <2>4, InsertedOrdered
  <2>6. TypeOK'
    BY <1>0, <1>2, <2>1, <2>5 DEF TypeOK, sched
  <2>7. \A c \in Scheduled' : id'[c] >= 0 /\ data'[c] \in Entry
    BY <1>0, <1>2, <1>3, <2>1, <2>2, <2>5 DEF TypeOK, HeapInv
  <2>8. ListOrdered' /\ HeapInv'
    BY <1>0, <1>2, <1>3, <2>5, <2>7, <1>4 DEF ListOrdered, Ordered, Distinct, HeapInv
  <2>9. {data'[c] : c \in Scheduled'} = {data[c] : c \in Scheduled} \cup {e}
    BY <1>2, <1>3, <2>2, <2>5
  <2>10. \A c, d \in Scheduled' : data'[c] = data'[d] => c = d
    <3>1. {data[c] : c \in Scheduled} = entries \ todo
      BY <1>0, <1>1, <1>4 DEF RowInv
    <3>2. \A c \in Scheduled : data[c] # e
      BY <3>1
    <3>3. \A c, d \in Scheduled : data[c] = data[d] => c = d
      BY <1>0, <1>1, <1>4 DEF RowInv
    <3> QED BY <1>2, <1>3, <2>2, <2>5, <3>2, <3>3
  <2>11. RowInv'
    <3>1. {data[c] : c \in Scheduled} = entries \ todo
      BY <1>0, <1>1, <1>4 DEF RowInv
    <3>2. {data'[c] : c \in Scheduled'} = entries' \ todo'
      BY <1>0, <1>1, <2>9, <3>1 DEF RowInv
    <3>3. cpc' = "create" /\ todo' \subseteq entries'
      BY <1>0, <1>1 DEF RowInv
    <3> QED BY <2>10, <3>2, <3>3 DEF RowInv
  <2>12. MutexInv' /\ TaskInv' /\ SchedInv' /\ PanicNeedsLostMutex'
    BY <1>0, <1>1, <1>4
    DEF MutexInv, TaskInv, SchedInv, PanicNeedsLostMutex, Holding, sched
  <2> QED BY <2>6, <2>8, <2>11, <2>12 DEF IInv
<1>5. CASE mutex = "nobody"
  <2>1. list' = list /\ id' = [id EXCEPT ![b] = -1] /\ next_id' = next_id /\ list = <<>>
    BY <1>0, <1>1, <1>5 DEF cron_job_create, MutexInv
  <2>2. TypeOK'
    BY <1>0, <1>2, <2>1 DEF TypeOK, sched
  <2>3. ListOrdered' /\ HeapInv'
    BY <1>0, <1>3, <1>5, <2>1 DEF ListOrdered, Ordered, Distinct, HeapInv, Range
  <2>4. MutexInv' /\ TaskInv' /\ SchedInv' /\ RowInv' /\ PanicNeedsLostMutex'
    BY <1>0, <1>1, <1>5, <2>1
    DEF MutexInv, TaskInv, SchedInv, RowInv, PanicNeedsLostMutex, Holding, sched
  <2> QED BY <2>2, <2>3, <2>4 DEF IInv
<1> QED BY <1>1, <1>4, <1>5

LEMMA StutterInv == IInv /\ UNCHANGED vars => IInv'
<1> SUFFICES ASSUME IInv, UNCHANGED vars PROVE IInv'
  OBVIOUS
<1> USE DEF vars, heap, jobs, sched, client
<1>0. /\ TypeOK /\ ListOrdered /\ MutexInv /\ TaskInv /\ SchedInv /\ HeapInv /\ RowInv
      /\ PanicNeedsLostMutex
  BY DEF IInv
<1>1. TypeOK'
  BY <1>0 DEF TypeOK
<1>2. Scheduled' = Scheduled
  BY DEF Scheduled, InHand, Range
<1>3. ListOrdered' /\ HeapInv'
  BY <1>2, FrameInv
<1>4. MutexInv' /\ TaskInv' /\ PanicNeedsLostMutex'
  BY <1>0 DEF MutexInv, TaskInv, PanicNeedsLostMutex
<1>5. SchedInv'
  BY <1>0 DEF SchedInv, Range
<1>6. RowInv'
  BY <1>0, <1>2 DEF RowInv
<1> QED BY <1>1, <1>3, <1>4, <1>5, <1>6 DEF IInv

LEMMA StepInv == IInv /\ [Next]_vars => IInv'
<1> SUFFICES ASSUME IInv, [Next]_vars PROVE IInv'
  OBVIOUS
<1>1. CASE panic = "no" /\ Scheduler
  BY <1>1, SchedTopInv, SchedWakeInv, SchedLaunchInv, SchedTakeInv, SchedUnlinkInv,
     SchedGiveInv, SchedReschedInv, SchedRelinkInv DEF Scheduler
<1>2. ASSUME panic = "no", NEW s \in Slot, LauncherRead(s) \/ LauncherEnd(s) PROVE IInv'
  BY <1>2, LauncherReadInv, LauncherEndInv
<1>3. CASE panic = "no" /\ SetZaman
  BY <1>3, SetZamanInv
<1>4. CASE panic = "no" /\ init_cron
  BY <1>4, CronStopInv, CronDeleteInv, CronClearInv, CronCreateInv, CronStartInv
  DEF init_cron
<1>5. CASE panic = "no" /\ Tick
  BY <1>5, TickInv
<1>6. CASE Restart
  BY <1>6, RestartInv
<1>7. CASE UNCHANGED vars
  BY <1>7, StutterInv
<1> QED BY <1>1, <1>2, <1>3, <1>4, <1>5, <1>6, <1>7 DEF Next

\* The inductive invariant: the list, the mutex, the tasks, the heap and the
\* rows fit together wherever the three tasks are.
THEOREM CronInvariant == Spec => []IInv
BY InitInv, StepInv, PTL DEF Spec

\* Types of all variables, for any number of rows, blocks and requests.
THEOREM CronTypes == Spec => []TypeOK
BY CronInvariant, PTL DEF IInv

\* The job list stays ordered and without duplicates (jobs.cpp:54-135).
THEOREM CronListOrdered == Spec => []ListOrdered
BY CronInvariant, PTL DEF IInv

\* The scheduler never sleeps past a job of the list (cron.cpp:249-250).
THEOREM CronNoOversleep == Spec => []NoOversleep
<1>1. IInv => NoOversleep
  <2> SUFFICES ASSUME IInv, spc = "sleep", NEW i \in DOMAIN list
               PROVE  wake <= next_execution[list[i]]
    BY DEF NoOversleep
  <2>1. /\ list \in Seq(Block) /\ list # <<>> /\ list[1] = sjob
        /\ wake <= next_execution[list[1]] /\ wake \in Int
        /\ next_execution \in [Block -> Int]
    BY DEF IInv, TypeOK, SchedInv
  <2>2. DOMAIN list = 1 .. Len(list) /\ Len(list) \in Nat
    BY <2>1, LenProperties
  <2>3. list[1] \in Block /\ list[i] \in Block /\ 1 \in DOMAIN list
    BY <2>1, <2>2, EmptySeq
  <2>4. next_execution[list[1]] <= next_execution[list[i]]
    <3>1. CASE i = 1
      BY <2>1, <2>3, <3>1
    <3>2. CASE i # 1
      BY <2>2, <2>3, <3>2 DEF IInv, ListOrdered, Ordered
    <3> QED BY <3>1, <3>2
  <2> QED BY <2>1, <2>3, <2>4
<1> QED BY <1>1, CronInvariant, PTL

\* Every active row keeps exactly one job between two requests, unless the
\* scheduler was deleted inside the list (cron.cpp:69-95; config.cpp:195-237).
THEOREM CronJobsKept == Spec => []JobsKept
<1>1. IInv => JobsKept
  BY DEF IInv, RowInv, JobsKept
<1> QED BY <1>1, CronInvariant, PTL

\* No linked job is freed while the list can be locked (cron.cpp:56-67).
THEOREM CronLinkedJobsAllocated == Spec => []LinkedJobsAllocated
<1>1. IInv => LinkedJobsAllocated
  BY DEF IInv, HeapInv, Scheduled, LinkedJobsAllocated
<1> QED BY <1>1, CronInvariant, PTL

\* There is never a second scheduler task (cron.cpp:80-120).
THEOREM CronOneScheduler == Spec => []OneScheduler
<1>1. IInv => OneScheduler
  BY DEF IInv, TaskInv, OneScheduler
<1> QED BY <1>1, CronInvariant, PTL

\* The list operations bring the chip down only after the mutex lost its
\* owner (cron.cpp:228, 244; jobs.cpp:103-127).
THEOREM CronPanicNeedsLostMutex == Spec => []PanicNeedsLostMutex
BY CronInvariant, PTL DEF IInv
-----------------------------------------------------------------------------
(* The times of the jobs *)

LEMMA Remainder ==
    ASSUME NEW d \in Nat \ {0}, NEW x \in Int
    PROVE  x = d * (x \div d) + (x % d) /\ x \div d \in Int
OBVIOUS

LEMMA RemainderUnique ==
    ASSUME NEW d \in Nat \ {0}, NEW x \in Int, NEW q \in Int, NEW r \in 0 .. d - 1,
           x = d * q + r
    PROVE  x % d = r
OBVIOUS

\* cron_next returns an instant at the time of day of the row.
LEMMA CronNextAtItsTime ==
    ASSUME NEW e \in Entry, NEW t \in Nat
    PROVE  cron_next(e, t) % Day = At[e]
<1> DEFINE x == At[e] - t - 1
<1>1. At[e] \in 0 .. Day - 1 /\ Day \in Nat \ {0} /\ x \in Int
  BY AtAssumption, DayAssumption
<1>2. PICK q \in Int : x = Day * q + (x % Day)
  <2> HIDE DEF x
  <2> QED BY <1>1, Remainder
<1>3. x % Day \in Int
  BY <1>1
<1>4. cron_next(e, t) = t + 1 + (x % Day)
  BY DEF cron_next
<1>5. PICK p \in Int : p = -q /\ Day * p = -(Day * q) /\ Day * q \in Int
  BY <1>1
<1>6. x % Day = x - Day * q
  <2> HIDE DEF x
  <2> QED BY <1>1, <1>2, <1>3, <1>5
<1>7. cron_next(e, t) = Day * p + At[e]
  <2>1. cron_next(e, t) = t + 1 + (x - Day * q)
    BY <1>4, <1>6
  <2>2. t + 1 + (x - Day * q) = At[e] - Day * q
    BY <1>1, <1>5
  <2> HIDE DEF x
  <2> QED BY <1>1, <1>5, <2>1, <2>2
<1>8. cron_next(e, t) \in Int
  BY CronNextInt
<1> QED BY <1>1, <1>7, <1>8, RemainderUnique

LEMMA InitTime == Init => TimeInv
BY DEF Init, TimeInv, Scheduled, InHand, Range

\* Steps that give no job another time and put none in the scheduler's hands.
LEMMA FrameTime ==
    ASSUME IInv, TimeInv, UNCHANGED <<data, next_execution>>,
           Scheduled' \subseteq Scheduled, now \in Nat, now' \in Nat, now <= now',
           spc' = "launch" => spc = "launch" /\ sjob' = sjob
    PROVE  TimeInv'
<1>1. \A b \in Scheduled' : next_execution'[b] % Day = At[data'[b]]
  BY DEF TimeInv
<1>2. spc' = "launch" => next_execution'[sjob'] <= now'
  <2>1. spc = "launch" => sjob \in Block
    BY DEF IInv, SchedInv
  <2>2. spc = "launch" => next_execution[sjob] \in Int
    BY <2>1 DEF IInv, TypeOK
  <2> QED BY <2>2 DEF TimeInv
<1> QED BY <1>1, <1>2 DEF TimeInv

LEMMA SchedTopTime ==
    ASSUME IInv, TimeInv, SchedTop
    PROVE  TimeInv'
<1>1. Scheduled' = Scheduled /\ UNCHANGED <<data, next_execution, now>>
  BY DEF SchedTop, Scheduled, InHand, jobs, heap, sched
<1>2. spc' = "launch" => next_execution'[sjob'] <= now'
  <2>1. CASE list = <<>>
    BY <2>1 DEF SchedTop, sched
  <2>2. CASE list # <<>>
    <3>1. next_execution[list[1]] \in Int /\ now \in Nat
      BY <2>2, ListFacts DEF IInv, TypeOK
    <3> QED BY <1>1, <2>2, <3>1 DEF SchedTop
  <2> QED BY <2>1, <2>2
<1> QED BY <1>1, <1>2 DEF TimeInv

LEMMA SchedUnlinkTime ==
    ASSUME IInv, TimeInv, SchedUnlink
    PROVE  TimeInv'
<1>1. /\ list \in Seq(Block) /\ list # <<>> /\ list[1] = sjob /\ list[1] \in Range(list)
      /\ Ordered(list, next_execution) /\ Distinct(list)
  BY ListFacts DEF SchedUnlink, IInv, SchedInv, TypeOK, ListOrdered
<1>2. ~RemoveFaults(list, id, id[sjob])
  BY <1>1, RemovedHead
<1>3. list' = Removed(list, id, id[sjob]) /\ spc' = "unlinked" /\ sjob' = sjob
  BY <1>2 DEF SchedUnlink
<1>4. Range(list') = Range(list) \ {sjob}
  BY <1>1, <1>3, RemovedHeadOrdered
<1>5. Scheduled' \subseteq Scheduled
  BY <1>1, <1>3, <1>4 DEF Scheduled, InHand, Range
<1> QED BY <1>3, <1>5, FrameTime DEF SchedUnlink, heap, IInv, TypeOK

LEMMA SchedReschedTime ==
    ASSUME IInv, TimeInv, SchedResched
    PROVE  TimeInv'
<1>1. sjob \in Block /\ data[sjob] \in Entry /\ now \in Nat /\ Scheduled \subseteq Block
  BY ListFacts DEF SchedResched, IInv, TypeOK, SchedInv, HeapInv, Scheduled, InHand
<1>2. /\ Scheduled' = Scheduled /\ data' = data /\ spc' = "relink"
      /\ next_execution' = [next_execution EXCEPT ![sjob] = cron_next(data[sjob], now)]
  BY DEF SchedResched, Scheduled, InHand, heap, Range
<1>3. \A b \in Block : next_execution'[b] =
          IF b = sjob THEN cron_next(data[sjob], now) ELSE next_execution[b]
  BY <1>2 DEF IInv, TypeOK
<1>4. cron_next(data[sjob], now) % Day = At[data[sjob]]
  BY <1>1, CronNextAtItsTime
<1> QED BY <1>1, <1>2, <1>3, <1>4 DEF TimeInv

LEMMA SchedRelinkTime ==
    ASSUME IInv, TimeInv, SchedRelink
    PROVE  TimeInv'
<1>1. /\ list \in Seq(Block) /\ next_execution \in [Block -> Int]
      /\ sjob \in Block /\ sjob \notin Range(list)
      /\ Ordered(list, next_execution) /\ Distinct(list)
  BY DEF SchedRelink, IInv, SchedInv, TypeOK, ListOrdered
<1>2. Range(list') = Range(list) \cup {sjob}
  BY <1>1, InsertedOrdered DEF SchedRelink
<1>3. Scheduled' \subseteq Scheduled
  BY <1>2 DEF SchedRelink, Scheduled, InHand, Range
<1> QED BY <1>3, FrameTime DEF SchedRelink, heap, IInv, TypeOK

LEMMA CronClearTime ==
    ASSUME IInv, TimeInv, CronClear
    PROVE  TimeInv'
<1>1. spc = "none" /\ UNCHANGED <<sched, data, next_execution, now>>
  BY DEF CronClear, IInv, TaskInv
<1>2. Range(list') \subseteq Range(list)
  <2>1. CASE list' = list
    BY <2>1 DEF Range
  <2>2. CASE list' # list
    <3>1. list # <<>> /\ list' = Removed(list, id, id[list[1]])
      BY <2>2 DEF CronClear, cron_job_destroy
    <3>2. Range(list') = Range(list) \ {list[1]}
      BY <3>1, ListFacts, RemovedHeadOrdered DEF IInv, ListOrdered
    <3> QED BY <3>2
  <2> QED BY <2>1, <2>2
<1>3. Scheduled' \subseteq Scheduled
  BY <1>1, <1>2 DEF Scheduled, InHand, sched
<1> QED BY <1>1, <1>3, FrameTime DEF sched, IInv, TypeOK

LEMMA CronCreateTime ==
    ASSUME IInv, TimeInv, NEW e \in Entry, NEW b \in Block, CronCreate(e, b)
    PROVE  TimeInv'
<1>1. /\ spc = "none" /\ spc' = "none" /\ now \in Nat /\ mutex \in {"free", "nobody"}
      /\ list \in Seq(Block) /\ ListOrdered
  BY DEF CronCreate, IInv, TypeOK, TaskInv, MutexInv, Holding, sched
<1>2. /\ b \notin alloc
      /\ \A c \in Block \ {b} : next_execution'[c] = next_execution[c] /\ data'[c] = data[c]
      /\ next_execution'[b] = cron_next(e, now) /\ data'[b] = e
      /\ next_execution' \in [Block -> Int]
  <2>1. cron_next(e, now) \in Int
    BY <1>1, CronNextInt
  <2> QED BY <2>1 DEF CronCreate, cron_job_create, IInv, TypeOK
<1>3. Scheduled = Range(list) /\ Scheduled' = Range(list')
  BY <1>1 DEF Scheduled, InHand, Range
<1>4. cron_next(e, now) % Day = At[e]
  BY <1>1, CronNextAtItsTime
<1>5. CASE mutex = "free"
  <2>1. b \notin Range(list) /\ Range(list) \subseteq Block
    BY <1>2, <1>3, <1>5, ListFacts DEF IInv, HeapInv
  <2>2. list' = Inserted(list, next_execution', b)
    BY <1>5 DEF CronCreate, cron_job_create
  <2>3. Ordered(list, next_execution') /\ Distinct(list)
    BY <1>1, <1>2, <2>1, ListFacts DEF ListOrdered, Ordered
  <2>4. Range(list') = Range(list) \cup {b}
    BY <1>1, <1>2, <2>1, <2>2, <2>3, InsertedOrdered
  <2> QED BY <1>1, <1>2, <1>3, <1>4, <2>1, <2>4 DEF TimeInv
<1>6. CASE mutex = "nobody"
  <2>1. list = <<>> /\ list' = list
    BY <1>6 DEF CronCreate, cron_job_create, IInv, MutexInv
  <2> QED BY <1>1, <1>3, <2>1 DEF TimeInv, Range
<1> QED BY <1>1, <1>5, <1>6

\* The steps of the tasks that change neither the list nor the jobs.
LEMMA QuietTime ==
    ASSUME IInv, TimeInv,
           \/ SchedWake \/ SchedLaunch \/ SchedTake \/ SchedGive
           \/ SetZaman \/ CronStop \/ CronDelete \/ CronStart \/ Tick
           \/ (\E s \in Slot : LauncherRead(s) \/ LauncherEnd(s)) \/ UNCHANGED vars
    PROVE  TimeInv'
<1> USE DEF heap, jobs, sched, client, vars
<1>1. UNCHANGED <<data, next_execution, list>> /\ now \in Nat /\ now' \in {now, now + 1}
  BY DEF SchedWake, SchedLaunch, SchedTake, SchedGive, SetZaman, CronStop, CronDelete,
         CronStart, Tick, LauncherRead, LauncherEnd, IInv, TypeOK
<1>2. sjob' = sjob /\ (spc' = "launch" => spc = "launch")
  BY DEF SchedWake, SchedLaunch, SchedTake, SchedGive, SetZaman, CronStop, CronDelete,
         CronStart, cron_start, Tick, LauncherRead, LauncherEnd
<1>3. spc' \in {"unlinked", "resched", "relink", "relinking"} =>
          \/ spc \in {"unlinked", "resched", "relink", "relinking"}
          \/ spc = "unlink" /\ sjob \in Range(list)
  BY ListFacts
  DEF SchedWake, SchedLaunch, SchedTake, SchedGive, SetZaman, CronStop, CronDelete,
      CronStart, cron_start, Tick, LauncherRead, LauncherEnd, IInv, SchedInv
<1>4. Scheduled' \subseteq Scheduled
  BY <1>1, <1>2, <1>3 DEF Scheduled, InHand, Range
<1> QED BY <1>1, <1>2, <1>4, FrameTime

LEMMA StepTime ==
    ASSUME IInv, TimeInv, [Next]_vars
    PROVE  TimeInv'
<1>1. CASE Restart
  BY <1>1 DEF Restart, TimeInv, Scheduled, InHand, Range
<1>2. CASE Scheduler
  BY <1>2, SchedTopTime, SchedUnlinkTime, SchedReschedTime, SchedRelinkTime, QuietTime
  DEF Scheduler
<1>3. CASE init_cron
  BY <1>3, CronClearTime, CronCreateTime, QuietTime DEF init_cron
<1> QED BY <1>1, <1>2, <1>3, QuietTime DEF Next

\* A job is launched at its time, whenever its row was changed and however late
\* the scheduler is (cron.cpp:123-147, 228-248).
THEOREM CronRunsAtItsTime == Spec => []RunsAtItsTime
<1> DEFINE Inv == IInv /\ TimeInv
<1>1. Init => Inv
  BY InitInv, InitTime
<1>2. Inv /\ [Next]_vars => Inv'
  BY StepInv, StepTime
<1>3. Inv => RunsAtItsTime
  BY ListFacts DEF RunsAtItsTime, TimeInv, IInv, SchedInv, Scheduled
<1> HIDE DEF Inv
<1> QED BY <1>1, <1>2, <1>3, PTL DEF Spec

-----------------------------------------------------------------------------
(* CronExpr: numbers *)

LEMMA MinIsLeast ==
    ASSUME NEW T \in SUBSET Nat, T # {}
    PROVE  Min(T) \in T /\ \A k \in T : Min(T) <= k
BY LeastNumber DEF Min

LEMMA TimesMono ==
    ASSUME NEW a \in Nat, NEW b \in Nat, NEW R \in Nat, a <= b
    PROVE  a * R <= b * R
OBVIOUS

LEMMA TimesNext ==
    ASSUME NEW a \in Nat, NEW R \in Nat
    PROVE  (a + 1) * R = a * R + R /\ a * R \in Nat
OBVIOUS

\* Quotient and remainder, and that they are the only ones.
LEMMA Division ==
    ASSUME NEW t \in Nat, NEW R \in Nat \ {0}
    PROVE  /\ t = (t \div R) * R + (t % R)
           /\ t \div R \in Nat /\ t % R \in 0 .. R - 1
OBVIOUS

LEMMA DivisionUnique ==
    ASSUME NEW R \in Nat \ {0}, NEW q \in Nat, NEW r \in 0 .. R - 1
    PROVE  /\ q * R + r \in Nat
           /\ (q * R + r) \div R = q
           /\ (q * R + r) % R = r
OBVIOUS

LEMMA DivisionMono ==
    ASSUME NEW t \in Nat, NEW u \in Nat, NEW R \in Nat \ {0}, t <= u
    PROVE  t \div R <= u \div R
OBVIOUS

LEMMA SameRemainder ==
    ASSUME NEW a \in Nat, NEW b \in Nat, NEW R \in Nat \ {0}, a % R = b % R, b - a \in 0 .. R - 1
    PROVE  a = b
<1>1. a <= b
  OBVIOUS
<1> DEFINE p == a \div R
           q == b \div R
           x == a % R
<1>2. /\ a = p * R + x /\ b = q * R + x /\ p \in Nat /\ q \in Nat /\ x \in 0 .. R - 1
  BY Division
<1>3. p <= q
  BY <1>1, DivisionMono
<1> HIDE DEF p, q, x
<1>4. CASE p < q
  <2>1. (p + 1) * R <= q * R /\ (p + 1) * R = p * R + R /\ p * R \in Nat /\ q * R \in Nat
    BY <1>2, <1>4, TimesMono, TimesNext, p + 1 \in Nat, p + 1 <= q
  <2> DEFINE y == p * R
             z == q * R
  <2>2. a = y + x /\ b = z + x /\ y + R <= z /\ y \in Nat /\ z \in Nat
    BY <1>2, <2>1
  <2> HIDE DEF y, z
  <2> QED
    BY <1>2, <2>2
<1> QED
  BY <1>2, <1>3, <1>4

\* The numbers of one unit (the seconds of a minute, the minutes of an hour, ...).
LEMMA SameUnit ==
    ASSUME NEW t \in Nat, NEW u \in Nat, NEW R \in Nat \ {0}, t \div R = u \div R
    PROVE  t - u = (t % R) - (u % R)
<1>1. t = (t \div R) * R + (t % R) /\ t \div R \in Nat /\ t % R \in 0 .. R - 1
  BY Division
<1>2. u = (t \div R) * R + (u % R) /\ u % R \in 0 .. R - 1
  BY Division
<1>3. (t \div R) * R \in Nat
  BY <1>1
<1> QED
  BY <1>1, <1>2, <1>3
-----------------------------------------------------------------------------
(* The search for the next number with a bit, which find_next does for     *)
(* seconds, minutes, hours and months alike.                               *)

\* The next number from u on whose place in its unit of R is in B.
NextIn(u, R, B) ==
    LET ahead == {b \in B : b >= u % R}
    IN  IF ahead # {} THEN u - (u % R) + Min(ahead) ELSE u - (u % R) + R + Min(B)

LEMMA NextInFound ==
    ASSUME NEW u \in Nat, NEW R \in Nat \ {0}, NEW B \in SUBSET (0 .. R - 1), B # {}
    PROVE  /\ NextIn(u, R, B) \in Nat /\ NextIn(u, R, B) >= u
           /\ NextIn(u, R, B) % R \in B
           /\ \A w \in Nat : u <= w /\ w < NextIn(u, R, B) => w % R \notin B
<1> DEFINE ahead == {b \in B : b >= u % R}
<1>0. u = (u \div R) * R + (u % R) /\ u \div R \in Nat /\ u % R \in 0 .. R - 1
  BY Division
<1>1. CASE ahead # {}
  <2> DEFINE v == Min(ahead)
  <2>0. ahead \subseteq B /\ B \subseteq Nat
    OBVIOUS
  <2>1. v \in B /\ v >= u % R /\ v \in 0 .. R - 1 /\ \A k \in ahead : v <= k
    <3>1. v \in ahead /\ \A k \in ahead : v <= k
      BY <2>0, <1>1, MinIsLeast, ahead \in SUBSET Nat
    <3> HIDE DEF v
    <3> QED
      BY <3>1
  <2>2. NextIn(u, R, B) = (u \div R) * R + v
    BY <1>0, <1>1, <2>1 DEF NextIn
  <2> HIDE DEF v
  <2>3. NextIn(u, R, B) % R = v /\ NextIn(u, R, B) >= u /\ NextIn(u, R, B) \in Nat
    <3>1. /\ (u \div R) * R + v \in Nat
          /\ ((u \div R) * R + v) % R = v
          /\ ((u \div R) * R + v) \div R = u \div R
      BY <1>0, <2>1, DivisionUnique
    <3> QED
      BY <1>0, <2>1, <2>2, <3>1
  <2>4. ASSUME NEW w \in Nat, u <= w, w < NextIn(u, R, B), w % R \in B  PROVE FALSE
    <3>1. w \div R = u \div R
      <4>1. ((u \div R) * R + v) \div R = u \div R
        BY <1>0, <2>1, DivisionUnique
      <4>2. w \div R <= NextIn(u, R, B) \div R /\ u \div R <= w \div R /\ w \div R \in Nat
        <5>1. u \div R <= w \div R /\ w \div R \in Nat
          BY <2>4, DivisionMono, Division
        <5>2. NextIn(u, R, B) \in Nat /\ w <= NextIn(u, R, B)
          BY <2>3, <2>4
        <5> QED
          BY <5>1, <5>2, DivisionMono
      <4> QED
        BY <1>0, <2>2, <4>1, <4>2
    <3>2. w - u = (w % R) - (u % R)
      BY <3>1, SameUnit
    <3>3. w % R < v /\ w % R \in ahead
      BY <1>0, <2>1, <2>2, <2>4, <3>2
    <3> QED
      BY <2>1, <3>3
  <2> QED
    BY <2>1, <2>3, <2>4
<1>2. CASE ahead = {}
  <2> DEFINE v == Min(B)
  <2>1. v \in B /\ v \in 0 .. R - 1 /\ \A k \in B : v <= k
    <3>1. v \in B /\ \A k \in B : v <= k
      BY MinIsLeast, B \in SUBSET Nat
    <3> HIDE DEF v
    <3> QED
      BY <3>1
  <2>2. NextIn(u, R, B) = (u \div R + 1) * R + v
    BY <1>0, <1>2, <2>1, TimesNext DEF NextIn
  <2> HIDE DEF v
  <2>3. NextIn(u, R, B) % R = v /\ NextIn(u, R, B) >= u /\ NextIn(u, R, B) \in Nat
    <3>1. /\ (u \div R + 1) * R + v \in Nat
          /\ ((u \div R + 1) * R + v) % R = v
      BY <2>1, DivisionUnique, u \div R + 1 \in Nat, <1>0
    <3>2. (u \div R + 1) * R = (u \div R) * R + R
      BY <1>0, TimesNext
    <3> QED
      BY <1>0, <2>1, <2>2, <3>1, <3>2
  <2>4. ASSUME NEW w \in Nat, u <= w, w < NextIn(u, R, B), w % R \in B  PROVE FALSE
    <3>0. /\ w = (w \div R) * R + (w % R) /\ w \div R \in Nat /\ w % R \in 0 .. R - 1
          /\ u \div R <= w \div R
      BY Division, DivisionMono, <2>4
    <3>1. CASE w \div R = u \div R
      <4>1. w - u = (w % R) - (u % R)
        BY <3>1, SameUnit
      <4> QED
        BY <1>0, <1>2, <2>4, <4>1, <3>0
    <3>2. CASE w \div R >= u \div R + 1
      <4>1. (u \div R + 1) * R <= (w \div R) * R
        BY <1>0, <3>0, <3>2, TimesMono
      <4> QED
        BY <2>1, <2>2, <2>4, <3>0, <4>1, <1>0
    <3> QED
      BY <3>0, <3>1, <3>2, <1>0
  <2> QED
    BY <2>1, <2>3, <2>4
<1> QED
  BY <1>1, <1>2
-----------------------------------------------------------------------------
(* The calendar *)

\* The assumptions on the constants, as the other lemmas use them.
LEMMA Lengths ==
    /\ Sec \in Nat \ {0} /\ Min60 \in Nat \ {0} /\ Hours \in Nat \ {0}
    /\ Week \in Nat \ {0} /\ Months \in Nat \ {0}
    /\ MaxDayOfMonth \in Nat /\ MaxDays \in Nat /\ YearsDiff \in Nat
BY LengthAssumption

LEMMA DaysType ==
    /\ Len(Days) \in Nat \ {0}
    /\ \A i \in 1 .. Len(Days) : Days[i] \in Nat /\ Week <= Days[i] /\ Days[i] <= MaxDayOfMonth
<1>1. Days \in Seq(Week .. MaxDayOfMonth) /\ Len(Days) > 0
  BY DaysAssumption
<1>2. Len(Days) \in Nat /\ \A i \in 1 .. Len(Days) : Days[i] \in Week .. MaxDayOfMonth
  <2>1. \A S : \A e \in Seq(S) : Len(e) \in Nat /\ \A i \in 1 .. Len(e) : e[i] \in S
    OBVIOUS
  <2> QED
    BY <1>1, <2>1
<1> QED
  BY <1>1, <1>2, Lengths

\* The recursion that defines MonthStart has a solution.
LEMMA MonthStartDef ==
    MonthStart = [k \in 0 .. Len(Days) |->
                    IF k = 0 THEN 0 ELSE MonthStart[k - 1] + Days[k]]
<1> DEFINE Solves(f, n) == f = [k \in 0 .. n |-> IF k = 0 THEN 0 ELSE f[k - 1] + Days[k]]
           T == {n \in 0 .. Len(Days) : ~ \E f : Solves(f, n)}
<1>1. ASSUME T # {}  PROVE FALSE
  <2>1. PICK n \in T : \A k \in T : n <= k
    <3>1. T \in SUBSET Nat
      BY DaysType
    <3> QED
      BY <1>1, <3>1, LeastNumber
  <2>2. n # 0
    <3>1. Solves([k \in 0 .. 0 |-> 0], 0)
      OBVIOUS
    <3> QED
      BY <2>1, <3>1
  <2>3. n \in 1 .. Len(Days) /\ n - 1 \in 0 .. Len(Days) /\ n - 1 \notin T
    <3>1. n \in 0 .. Len(Days)
      BY <2>1
    <3>2. n - 1 \in T => n <= n - 1
      BY <2>1
    <3> QED
      BY <2>2, <3>1, <3>2, DaysType
  <2>4. PICK f : Solves(f, n - 1)
    BY <2>3
  <2> DEFINE g == [k \in 0 .. n |-> IF k = n THEN f[n - 1] + Days[n] ELSE f[k]]
  <2>5. \A k \in 0 .. n : g[k] = IF k = 0 THEN 0 ELSE g[k - 1] + Days[k]
    <3>1. \A k \in 0 .. n - 1 : f[k] = IF k = 0 THEN 0 ELSE f[k - 1] + Days[k]
      BY <2>4
    <3> QED
      BY <2>3, <3>1
  <2>6. Solves(g, n)
    BY <2>5
  <2> QED
    BY <2>1, <2>6
<1>2. \E f : Solves(f, Len(Days))
  <2>1. Len(Days) \in 0 .. Len(Days)
    BY DaysType
  <2> QED
    BY <1>1, <2>1
<1> QED
  BY <1>2 DEF MonthStart

LEMMA MonthStartStep ==
    /\ MonthStart[0] = 0
    /\ \A k \in 0 .. Len(Days) - 1 : MonthStart[k + 1] = MonthStart[k] + Days[k + 1]
BY MonthStartDef, DaysType

LEMMA MonthStartType == \A k \in 0 .. Len(Days) : MonthStart[k] \in Nat
<1> DEFINE T == {n \in 0 .. Len(Days) : MonthStart[n] \notin Nat}
<1>1. ASSUME T # {}  PROVE FALSE
  <2>1. PICK n \in T : \A k \in T : n <= k
    <3>1. T \in SUBSET Nat
      BY DaysType
    <3> QED
      BY <1>1, <3>1, LeastNumber
  <2>2. n # 0
    BY <2>1, MonthStartStep
  <2>3. n \in 1 .. Len(Days) /\ n - 1 \in 0 .. Len(Days) - 1 /\ n - 1 \notin T
    BY <2>1, <2>2, DaysType
  <2>4. MonthStart[n] = MonthStart[n - 1] + Days[n]
    BY <2>3, MonthStartStep
  <2> QED
    BY <2>1, <2>3, <2>4, DaysType
<1> QED
  BY <1>1

\* The number of days of month k.
MonthLength(k) == Days[(k % Len(Days)) + 1]

LEMMA MonthLengthType ==
    ASSUME NEW k \in Nat
    PROVE  MonthLength(k) \in Nat /\ Week <= MonthLength(k) /\ MonthLength(k) <= MaxDayOfMonth
<1>1. (k % Len(Days)) + 1 \in 1 .. Len(Days)
  BY DaysType, Division
<1> QED
  BY <1>1, DaysType DEF MonthLength

LEMMA PeriodType == MonthStart[Len(Days)] \in Nat
BY DaysType, MonthStartType

LEMMA FirstDayStep ==
    /\ FirstDay(0) = 0
    /\ \A k \in Nat : FirstDay(k) \in Nat /\ FirstDay(k + 1) = FirstDay(k) + MonthLength(k)
<1> DEFINE L == Len(Days)
           C == MonthStart[L]
<1>0. L \in Nat \ {0} /\ C \in Nat
  BY DaysType, PeriodType
<1>1. ASSUME NEW q \in Nat, NEW r \in 0 .. L - 1
      PROVE  FirstDay(q * L + r) = q * C + MonthStart[r] /\ q * C + MonthStart[r] \in Nat
  <2>1. (q * L + r) \div L = q /\ (q * L + r) % L = r
    BY <1>0, DivisionUnique
  <2>2. q * C \in Nat /\ MonthStart[r] \in Nat
    BY <1>0, TimesNext, MonthStartType
  <2> HIDE DEF L, C
  <2> QED
    BY <2>1, <2>2 DEF FirstDay, L, C
<1>2. FirstDay(0) = 0
  <2>1. FirstDay(0 * L + 0) = 0 * C + MonthStart[0]
    BY <1>0, <1>1
  <2> HIDE DEF C
  <2>2. 0 * L + 0 = 0 /\ 0 * C + MonthStart[0] = 0
    BY <1>0, MonthStartStep
  <2> QED
    BY <2>1, <2>2
<1>3. ASSUME NEW k \in Nat
      PROVE  FirstDay(k) \in Nat /\ FirstDay(k + 1) = FirstDay(k) + MonthLength(k)
  <2>1. PICK q \in Nat, r \in 0 .. L - 1 : k = q * L + r /\ r = k % L
    BY <1>0, Division
  <2>2. FirstDay(k) = q * C + MonthStart[r] /\ q * C + MonthStart[r] \in Nat
    BY <1>1, <2>1
  <2>3. MonthLength(k) = Days[r + 1] /\ MonthStart[r + 1] = MonthStart[r] + Days[r + 1]
    BY <2>1, MonthStartStep DEF MonthLength
  <2>4. CASE r + 1 < L
    <3>1. FirstDay(q * L + (r + 1)) = q * C + MonthStart[r + 1]
      <4>1. r + 1 \in 0 .. L - 1
        BY <1>0, <2>4
      <4> HIDE DEF C
      <4> QED
        BY <1>1, <4>1
    <3>2. k + 1 = q * L + (r + 1)
      BY <1>0, <2>1
    <3>3. q * C \in Nat /\ MonthStart[r] \in Nat /\ Days[r + 1] \in Nat
      BY <1>0, <2>1, <2>4, MonthStartType, DaysType, TimesNext
    <3> QED
      BY <2>2, <2>3, <3>1, <3>2, <3>3
  <2>5. CASE r + 1 = L
    <3>1. FirstDay((q + 1) * L + 0) = (q + 1) * C + MonthStart[0]
      <4>1. q + 1 \in Nat /\ 0 \in 0 .. L - 1
        BY <1>0
      <4> HIDE DEF C
      <4> QED
        BY <1>1, <4>1
    <3>2. k + 1 = (q + 1) * L + 0
      BY <1>0, <2>1, <2>5
    <3>3. (q + 1) * C = q * C + C /\ q * C \in Nat
      BY <1>0, TimesNext
    <3>4. MonthStart[r] \in Nat /\ Days[r + 1] \in Nat /\ C = MonthStart[r + 1]
      BY <2>1, <2>5, MonthStartType, DaysType
    <3>5. FirstDay(k + 1) = FirstDay(k) + Days[r + 1]
      <4>1. FirstDay(k + 1) = (q + 1) * C + 0
        BY <3>1, <3>2, MonthStartStep
      <4>2. FirstDay(k + 1) = q * C + C
        <5> HIDE DEF C
        <5> QED
          BY <4>1, <3>3, <1>0
      <4>3. C = MonthStart[r] + Days[r + 1]
        BY <2>3, <3>4
      <4> HIDE DEF C
      <4> QED
        BY <2>2, <3>3, <3>4, <4>2, <4>3
    <3> QED
      BY <2>2, <2>3, <3>5
  <2> QED
    BY <2>1, <2>2, <2>4, <2>5, <1>0
<1> QED
  BY <1>2, <1>3

LEMMA FirstDayMono ==
    ASSUME NEW i \in Nat, NEW j \in Nat, i < j
    PROVE  FirstDay(i) + MonthLength(i) <= FirstDay(j)
<1> DEFINE T == {n \in Nat : i < n /\ ~(FirstDay(i + 1) <= FirstDay(n))}
<1>1. ASSUME T # {}  PROVE FALSE
  <2>1. PICK n \in T : \A k \in T : n <= k
    BY <1>1, LeastNumber, T \in SUBSET Nat
  <2>2. n # i + 1
    BY <2>1, FirstDayStep
  <2>3. n - 1 \in Nat /\ i < n - 1 /\ n - 1 \notin T
    BY <2>1, <2>2
  <2>4. FirstDay(n - 1 + 1) = FirstDay(n - 1) + MonthLength(n - 1)
    BY <2>3, FirstDayStep
  <2>5. n - 1 + 1 = n /\ MonthLength(n - 1) \in Nat /\ FirstDay(n - 1) \in Nat /\ FirstDay(i + 1) \in Nat
    BY <2>1, <2>3, FirstDayStep, MonthLengthType
  <2> QED
    BY <2>1, <2>3, <2>4, <2>5
<1>2. FirstDay(i + 1) <= FirstDay(j)
  BY <1>1
<1> QED
  BY <1>2, FirstDayStep

\* The month of a day is the one month that has it.
LEMMA MonthOfDay ==
    ASSUME NEW d \in Nat
    PROVE  /\ MonthOf(d) \in Nat
           /\ FirstDay(MonthOf(d)) <= d /\ d < FirstDay(MonthOf(d) + 1)
<1> DEFINE L == Len(Days)
           C == MonthStart[L]
           r == d % C
           q == d \div C
<1>0. L \in Nat \ {0} /\ C \in Nat \ {0}
  <2>1. L \in Nat \ {0} /\ C \in Nat
    BY DaysType, PeriodType
  <2>2. L - 1 \in 0 .. L - 1 /\ MonthStart[L - 1 + 1] = MonthStart[L - 1] + Days[L - 1 + 1]
    BY <2>1, MonthStartStep
  <2>3. Days[L] \in Nat /\ Days[L] >= 1 /\ MonthStart[L - 1] \in Nat
    BY <2>1, DaysType, MonthStartType, Lengths
  <2>4. L - 1 + 1 = L
    BY <2>1
  <2> QED
    BY <2>1, <2>2, <2>3, <2>4
<1>1. d = q * C + r /\ q \in Nat /\ r \in 0 .. C - 1
  BY <1>0, Division
<1> DEFINE S == {n \in 0 .. L : r < MonthStart[n]}
<1>2. PICK m \in S : \A k \in S : m <= k
  <2>1. L \in S /\ S \in SUBSET Nat
    <3>1. L \in 0 .. L /\ r < C
      BY <1>0, <1>1
    <3> HIDE DEF r
    <3> QED
      BY <1>0, <3>1
  <2> QED
    BY <2>1, LeastNumber
<1>3. m # 0
  BY <1>1, <1>2, MonthStartStep
<1>4. m - 1 \in 0 .. L - 1 /\ m - 1 \notin S
  BY <1>0, <1>2, <1>3
<1>5. MonthStart[m - 1] <= r /\ r < MonthStart[m - 1 + 1]
  <2>1. m - 1 + 1 = m /\ m - 1 \in 0 .. L /\ m \in 0 .. L
    BY <1>0, <1>2, <1>4
  <2>2. MonthStart[m - 1] \in Nat /\ MonthStart[m] \in Nat /\ r \in Nat /\ r < MonthStart[m]
    BY <1>0, <1>1, <1>2, <2>1, MonthStartType
  <2>3. ~(r < MonthStart[m - 1])
    BY <1>4, <2>1
  <2> HIDE DEF r
  <2> QED
    BY <2>1, <2>2, <2>3
<1> DEFINE n == CHOOSE n \in 0 .. L - 1 : MonthStart[n] <= r /\ r < MonthStart[n + 1]
<1>6. n \in 0 .. L - 1 /\ MonthStart[n] <= r /\ r < MonthStart[n + 1]
  BY <1>4, <1>5
<1>7. MonthOf(d) = q * L + n
  BY DEF MonthOf
<1> HIDE DEF n
<1>8. MonthOf(d) \in Nat /\ MonthOf(d) \div L = q /\ MonthOf(d) % L = n
  <2>1. q * L + n \in Nat /\ (q * L + n) \div L = q /\ (q * L + n) % L = n
    <3> HIDE DEF q, r, L, C
    <3> QED
      BY <1>0, <1>1, <1>6, DivisionUnique
  <2> HIDE DEF q, r
  <2> QED
    BY <2>1, <1>7
<1>9. FirstDay(MonthOf(d)) = q * C + MonthStart[n]
  BY <1>8 DEF FirstDay
<1>10. MonthLength(MonthOf(d)) = Days[n + 1] /\ MonthStart[n + 1] = MonthStart[n] + Days[n + 1]
  BY <1>6, <1>8, MonthStartStep DEF MonthLength
<1>11. FirstDay(MonthOf(d) + 1) = FirstDay(MonthOf(d)) + Days[n + 1]
  BY <1>8, <1>10, FirstDayStep
<1>12. q * C \in Nat /\ MonthStart[n] \in Nat /\ Days[n + 1] \in Nat
  <2>1. n \in 0 .. L /\ n + 1 \in 1 .. L
    BY <1>0, <1>6
  <2>2. MonthStart[n] \in Nat /\ Days[n + 1] \in Nat
    BY <2>1, MonthStartType, DaysType
  <2> HIDE DEF C, q
  <2> QED
    BY <1>0, <1>1, <2>2, TimesNext
<1> DEFINE k == MonthOf(d)
<1>13. /\ k \in Nat /\ FirstDay(k) = q * C + MonthStart[n]
       /\ FirstDay(k + 1) = FirstDay(k) + Days[n + 1] /\ MonthStart[n + 1] = MonthStart[n] + Days[n + 1]
  BY <1>8, <1>9, <1>10, <1>11
<1> HIDE DEF C, r, q, k
<1>14. FirstDay(k) <= d /\ d < FirstDay(k + 1)
  BY <1>0, <1>1, <1>6, <1>12, <1>13
<1> QED
  BY <1>13, <1>14 DEF k

LEMMA MonthOfUnique ==
    ASSUME NEW d \in Nat, NEW k \in Nat, FirstDay(k) <= d, d < FirstDay(k) + MonthLength(k)
    PROVE  MonthOf(d) = k
<1> DEFINE m == MonthOf(d)
<1>1. m \in Nat /\ FirstDay(m) <= d /\ d < FirstDay(m) + MonthLength(m)
  BY MonthOfDay, FirstDayStep
<1> HIDE DEF m
<1>2. ~(m < k)
  BY <1>1, FirstDayMono, FirstDayStep, MonthLengthType
<1>3. ~(k < m)
  BY <1>1, FirstDayMono, FirstDayStep, MonthLengthType
<1> QED
  BY <1>1, <1>2, <1>3 DEF m

LEMMA MonthOfMono ==
    ASSUME NEW d \in Nat, NEW e \in Nat, d <= e
    PROVE  MonthOf(d) <= MonthOf(e)
<1> DEFINE m == MonthOf(d)
           n == MonthOf(e)
<1>1. /\ m \in Nat /\ FirstDay(m) <= d
      /\ n \in Nat /\ e < FirstDay(n) + MonthLength(n)
  BY MonthOfDay, FirstDayStep
<1> HIDE DEF m, n
<1>2. ~(n < m)
  BY <1>1, FirstDayMono, FirstDayStep, MonthLengthType
<1> QED
  BY <1>1, <1>2 DEF m, n

\* A year begins and ends with a month of full length and has MaxDays days at most.
LEMMA YearFacts ==
    ASSUME NEW y \in Nat
    PROVE  /\ y * Months \in Nat
           /\ MonthLength(y * Months) = MaxDayOfMonth
           /\ MonthLength(y * Months + (Months - 1)) = MaxDayOfMonth
           /\ FirstDay(y * Months + Months) <= FirstDay(y * Months) + MaxDays
<1> DEFINE L == Len(Days)
           C == MonthStart[L]
           Y == L \div Months
           q == y \div Y
           s == y % Y
           i == s * Months
<1>0. /\ L \in Nat \ {0} /\ C \in Nat /\ Months \in Nat \ {0} /\ MaxDays \in Nat
      /\ L % Months = 0
  BY DaysType, PeriodType, Lengths, DaysAssumption
<1>1. L = Y * Months /\ Y \in Nat \ {0}
  <2>1. L = Y * Months + 0 /\ Y \in Nat
    BY <1>0, Division
  <2> HIDE DEF L, Y
  <2> QED
    BY <1>0, <2>1
<1>2. y = q * Y + s /\ q \in Nat /\ s \in 0 .. Y - 1
  BY <1>1, Division
<1>3. i \in Nat /\ i + Months \in Nat /\ i + Months <= L /\ i % Months = 0 /\ (i + Months) % Months = 0
  <2> HIDE DEF L, Y, q, s
  <2>1. (s + 1) * Months <= Y * Months
    BY <1>0, <1>1, <1>2, TimesMono, s + 1 \in Nat
  <2>2. (s + 1) * Months = s * Months + Months /\ s * Months \in Nat
    BY <1>0, <1>2, TimesNext
  <2>3. s \in Nat /\ s + 1 \in Nat /\ Months \in Nat \ {0} /\ 0 \in 0 .. Months - 1
    BY <1>0, <1>2
  <2>4. (s * Months + 0) % Months = 0
    BY <2>3, DivisionUnique
  <2>5. ((s + 1) * Months + 0) % Months = 0
    BY <2>3, DivisionUnique
  <2>6. s * Months + 0 = i /\ (s + 1) * Months + 0 = i + Months
    BY <2>2, <2>3
  <2> HIDE DEF i
  <2>7. i \in Nat /\ i + Months \in Nat /\ i + Months <= L
    BY <1>0, <1>1, <2>1, <2>2, <2>6
  <2> QED
    BY <2>4, <2>5, <2>6, <2>7
<1>4. y * Months = q * L + i
  <2>1. (q * Y + s) * Months = q * (Y * Months) + s * Months
    <3> HIDE DEF L, Y, q, s
    <3> QED
      BY <1>0, <1>1, <1>2
  <2> HIDE DEF L, Y, q, s
  <2> QED
    BY <1>1, <1>2, <2>1
<1>5. i \in 0 .. L - 1 /\ i + (Months - 1) \in 0 .. L - 1
  <2> HIDE DEF L, i
  <2> QED
    BY <1>0, <1>3
<1> HIDE DEF L, i, q, Y, s
<1>a. L \in Nat \ {0} /\ q \in Nat /\ q + 1 \in Nat /\ 0 \in 0 .. L - 1
  BY <1>0, <1>2
<1>6. (q * L + i) % L = i /\ (q * L + i) \div L = q /\ q * L + i \in Nat
  BY <1>a, <1>5, DivisionUnique
<1>7. (q * L + (i + (Months - 1))) % L = i + (Months - 1)
  BY <1>a, <1>5, DivisionUnique
<1>8. q * L \in Nat
  BY <1>0, <1>2, TimesNext
<1>9. y * Months + (Months - 1) = q * L + (i + (Months - 1))
  BY <1>0, <1>3, <1>4, <1>8
<1>10. MonthLength(y * Months) = Days[i + 1]
  BY <1>4, <1>6 DEF MonthLength, L
<1>11. MonthLength(y * Months + (Months - 1)) = Days[i + Months]
  <2>1. i + (Months - 1) + 1 = i + Months
    BY <1>0, <1>3
  <2> QED
    BY <1>7, <1>9, <2>1 DEF MonthLength, L
<1>12. Days[i + 1] = MaxDayOfMonth
  <2>1. i + 1 \in 1 .. L /\ (i + 1) - 1 = i
    BY <1>0, <1>5
  <2> QED
    BY <1>3, <2>1, DaysAssumption DEF L
<1>13. Days[i + Months] = MaxDayOfMonth
  <2>1. i + Months \in 1 .. L
    BY <1>0, <1>3
  <2> QED
    BY <1>3, <2>1, DaysAssumption DEF L
<1>14. MonthStart[i + Months] - MonthStart[i] <= MaxDays
  BY <1>3, <1>5, DaysAssumption DEF L
<1>15. FirstDay(y * Months) = q * C + MonthStart[i]
  BY <1>4, <1>6 DEF FirstDay, C, L
<1>16. y * Months + Months = q * L + (i + Months)
  BY <1>0, <1>3, <1>4, <1>8
<1>17. FirstDay(y * Months + Months) = q * C + MonthStart[i + Months]
  <2>1. CASE i + Months < L
    <3>1. (q * L + (i + Months)) % L = i + Months /\ (q * L + (i + Months)) \div L = q
      BY <1>0, <1>2, <1>3, <2>1, DivisionUnique, i + Months \in 0 .. L - 1
    <3> QED
      BY <1>16, <3>1 DEF FirstDay, C, L
  <2>2. CASE i + Months = L
    <3>1. ((q + 1) * L + 0) % L = 0 /\ ((q + 1) * L + 0) \div L = q + 1
      BY <1>a, DivisionUnique
    <3>2. (q + 1) * L + 0 = q * L + (i + Months)
      BY <1>0, <1>2, <2>2, TimesNext, <1>8
    <3>3. FirstDay(y * Months + Months) = (q + 1) * C + 0
      BY <1>16, <3>1, <3>2, MonthStartStep DEF FirstDay, C, L
    <3>4. (q + 1) * C = q * C + C /\ q * C \in Nat
      BY <1>0, <1>2, TimesNext
    <3>5. C = MonthStart[i + Months]
      BY <2>2 DEF C
    <3> HIDE DEF C
    <3> QED
      BY <1>0, <3>3, <3>4, <3>5
  <2> QED
    BY <1>0, <1>3, <2>1, <2>2
<1>18. MonthStart[i + Months] \in Nat /\ MonthStart[i] \in Nat
  BY <1>0, <1>3, MonthStartType DEF L
<1>19. q * C \in Nat
  BY <1>0, <1>2, TimesNext
<1>20. FirstDay(y * Months + Months) <= FirstDay(y * Months) + MaxDays
  <2> HIDE DEF C
  <2> QED
    BY <1>0, <1>14, <1>15, <1>17, <1>18, <1>19
<1>21. y * Months \in Nat
  BY <1>4, <1>6
<1> QED
  BY <1>10, <1>11, <1>12, <1>13, <1>20, <1>21
-----------------------------------------------------------------------------
(* Broken-down times *)

\* The minute, the hour, the day and the month an instant lies in, counted from the
\* first one, and the instant of a time of a day.
Mi(t) == t \div Sec
Ho(t) == Mi(t) \div Min60
Da(t) == Ho(t) \div Hours
Mo(t) == MonthOf(Da(t))
MomentOf(d, h, m, s) == ((d * Hours + h) * Min60 + m) * Sec + s

LEMMA Parts ==
    ASSUME NEW t \in Nat
    PROVE  /\ Mi(t) \in Nat /\ Ho(t) \in Nat /\ Da(t) \in Nat /\ Mo(t) \in Nat
           /\ t % Sec \in 0 .. Sec - 1 /\ Mi(t) % Min60 \in 0 .. Min60 - 1
           /\ Ho(t) % Hours \in 0 .. Hours - 1
           /\ t = Mi(t) * Sec + (t % Sec)
           /\ Mi(t) = Ho(t) * Min60 + (Mi(t) % Min60)
           /\ Ho(t) = Da(t) * Hours + (Ho(t) % Hours)
<1>1. Mi(t) \in Nat /\ t % Sec \in 0 .. Sec - 1 /\ t = Mi(t) * Sec + (t % Sec)
  BY Lengths, Division DEF Mi
<1>2. /\ Ho(t) \in Nat /\ Mi(t) % Min60 \in 0 .. Min60 - 1
      /\ Mi(t) = Ho(t) * Min60 + (Mi(t) % Min60)
  BY <1>1, Lengths, Division DEF Ho
<1>3. /\ Da(t) \in Nat /\ Ho(t) % Hours \in 0 .. Hours - 1
      /\ Ho(t) = Da(t) * Hours + (Ho(t) % Hours)
  BY <1>2, Lengths, Division DEF Da
<1>4. Mo(t) \in Nat
  BY <1>3, MonthOfDay DEF Mo
<1> QED
  BY <1>1, <1>2, <1>3, <1>4

LEMMA PartsMono ==
    ASSUME NEW t \in Nat, NEW u \in Nat, t <= u
    PROVE  Mi(t) <= Mi(u) /\ Ho(t) <= Ho(u) /\ Da(t) <= Da(u) /\ Mo(t) <= Mo(u)
<1>1. Mi(t) <= Mi(u)
  BY Lengths, DivisionMono DEF Mi
<1>2. Ho(t) <= Ho(u)
  BY <1>1, Parts, Lengths, DivisionMono DEF Ho
<1>3. Da(t) <= Da(u)
  BY <1>2, Parts, Lengths, DivisionMono DEF Da
<1>4. Mo(t) <= Mo(u)
  BY <1>3, Parts, MonthOfMono DEF Mo
<1> QED
  BY <1>1, <1>2, <1>3, <1>4

LEMMA FromMinute ==
    ASSUME NEW n \in Nat, NEW s \in 0 .. Sec - 1
    PROVE  n * Sec + s \in Nat /\ Mi(n * Sec + s) = n /\ (n * Sec + s) % Sec = s
BY Lengths, DivisionUnique DEF Mi

LEMMA FromHour ==
    ASSUME NEW n \in Nat, NEW m \in 0 .. Min60 - 1, NEW s \in 0 .. Sec - 1
    PROVE  LET t == (n * Min60 + m) * Sec + s
           IN  /\ t \in Nat /\ Mi(t) = n * Min60 + m /\ t % Sec = s
               /\ Ho(t) = n /\ Mi(t) % Min60 = m
<1>1. n * Min60 + m \in Nat /\ (n * Min60 + m) \div Min60 = n /\ (n * Min60 + m) % Min60 = m
  BY Lengths, DivisionUnique
<1> QED
  BY <1>1, FromMinute DEF Ho

LEMMA FromDay ==
    ASSUME NEW d \in Nat, NEW h \in 0 .. Hours - 1, NEW m \in 0 .. Min60 - 1, NEW s \in 0 .. Sec - 1
    PROVE  /\ MomentOf(d, h, m, s) \in Nat /\ MomentOf(d, h, m, s) % Sec = s
           /\ Mi(MomentOf(d, h, m, s)) % Min60 = m /\ Ho(MomentOf(d, h, m, s)) % Hours = h
           /\ Ho(MomentOf(d, h, m, s)) = d * Hours + h
           /\ Da(MomentOf(d, h, m, s)) = d
<1>1. d * Hours + h \in Nat /\ (d * Hours + h) \div Hours = d /\ (d * Hours + h) % Hours = h
  BY Lengths, DivisionUnique
<1> QED
  BY <1>1, FromHour DEF MomentOf, Da

LEMMA CalendarFields ==
    ASSUME NEW t \in Nat
    PROVE  /\ Calendar[t] = [year |-> Mo(t) \div Months, mon |-> Mo(t) % Months,
                             mday |-> Da(t) - FirstDay(Mo(t)) + 1, hour |-> Ho(t) % Hours,
                             min |-> Mi(t) % Min60, sec |-> t % Sec]
           /\ Calendar[t].year = Mo(t) \div Months /\ Calendar[t].mon = Mo(t) % Months
           /\ Calendar[t].mday = Da(t) - FirstDay(Mo(t)) + 1
           /\ Calendar[t].hour = Ho(t) % Hours /\ Calendar[t].min = Mi(t) % Min60
           /\ Calendar[t].sec = t % Sec
           /\ Calendar[t] \in Broken
           /\ Mo(t) = (Mo(t) \div Months) * Months + (Mo(t) % Months)
           /\ Mo(t) % Months \in 0 .. Months - 1 /\ Mo(t) \div Months \in Nat
           /\ FirstDay(Mo(t)) \in Nat /\ FirstDay(Mo(t)) <= Da(t)
           /\ Da(t) < FirstDay(Mo(t)) + MonthLength(Mo(t))
           /\ MonthLength(Mo(t)) \in Nat /\ MonthLength(Mo(t)) <= MaxDayOfMonth
<1>1. Calendar[t] = [year |-> Mo(t) \div Months, mon |-> Mo(t) % Months,
                     mday |-> Da(t) - FirstDay(Mo(t)) + 1, hour |-> Ho(t) % Hours,
                     min |-> Mi(t) % Min60, sec |-> t % Sec]
  BY DEF Calendar, Mo, Da, Ho, Mi
<1>2. /\ Mo(t) = (Mo(t) \div Months) * Months + (Mo(t) % Months)
      /\ Mo(t) % Months \in 0 .. Months - 1 /\ Mo(t) \div Months \in Nat
  BY Parts, Lengths, Division
<1>3. FirstDay(Mo(t)) \in Nat /\ FirstDay(Mo(t)) <= Da(t) /\ Da(t) < FirstDay(Mo(t)) + MonthLength(Mo(t))
  BY Parts, FirstDayStep, MonthOfDay DEF Mo
<1>4. MonthLength(Mo(t)) \in Nat /\ MonthLength(Mo(t)) <= MaxDayOfMonth
  BY Parts, MonthLengthType
<1>5. /\ Da(t) - FirstDay(Mo(t)) + 1 \in Nat /\ Ho(t) % Hours \in Nat
      /\ Mi(t) % Min60 \in Nat /\ t % Sec \in Nat /\ Mo(t) % Months \in Nat
  <2>1. Da(t) - FirstDay(Mo(t)) + 1 \in Nat
    <3>1. Da(t) \in Nat
      BY Parts
    <3> QED
      BY <1>3, <3>1
  <2>2. \A R \in Nat : 0 .. R - 1 \subseteq Nat
    OBVIOUS
  <2> QED
    BY <1>2, <2>1, <2>2, Parts, Lengths
<1>6. Calendar[t] \in Broken
  BY <1>1, <1>2, <1>5 DEF Broken
<1>7. /\ Calendar[t].year = Mo(t) \div Months /\ Calendar[t].mon = Mo(t) % Months
      /\ Calendar[t].mday = Da(t) - FirstDay(Mo(t)) + 1
      /\ Calendar[t].hour = Ho(t) % Hours /\ Calendar[t].min = Mi(t) % Min60
      /\ Calendar[t].sec = t % Sec
  BY <1>1
<1> QED
  BY <1>1, <1>2, <1>3, <1>4, <1>6, <1>7

\* mktime turns what localtime made of an instant back into the instant.
LEMMA RoundTrip ==
    ASSUME NEW t \in Nat
    PROVE  DayNumber[Calendar[t]] = Da(t) /\ Instant[Calendar[t]] = t
<1> DEFINE c == Calendar[t]
<1>1. /\ c \in Broken /\ c.year * Months + c.mon = Mo(t)
      /\ c.mday = Da(t) - FirstDay(Mo(t)) + 1
      /\ c.hour = Ho(t) % Hours /\ c.min = Mi(t) % Min60 /\ c.sec = t % Sec
      /\ FirstDay(Mo(t)) \in Nat
  BY CalendarFields
<1> HIDE DEF c
<1>2. DayNumber[c] = Da(t)
  <2>1. DayNumber[c] = FirstDay(c.year * Months + c.mon) + c.mday - 1
    BY <1>1 DEF DayNumber
  <2>2. Da(t) \in Nat
    BY Parts
  <2> QED
    BY <1>1, <2>1, <2>2
<1>3. Instant[c] = ((DayNumber[c] * Hours + c.hour) * Min60 + c.min) * Sec + c.sec
  BY <1>1 DEF Instant
<1>4. Instant[c] = t
  BY <1>1, <1>2, <1>3, Parts
<1> QED
  BY <1>2, <1>4 DEF c

\* What mktime makes of a date with one field changed.
LEMMA MakeTime ==
    ASSUME NEW c \in Broken
    PROVE  /\ mktime[c] = Calendar[MomentOf(DayNumber[c], c.hour, c.min, c.sec)]
           /\ DayNumber[c] = FirstDay(c.year * Months + c.mon) + c.mday - 1
BY DEF mktime, Instant, MomentOf, DayNumber

LEMMA PutSecond ==
    ASSUME NEW t \in Nat, NEW v \in Nat
    PROVE  mktime[[Calendar[t] EXCEPT !.sec = v]] = Calendar[Mi(t) * Sec + v]
<1> DEFINE c == Calendar[t]
           e == [c EXCEPT !.sec = v]
<1>1. /\ c \in Broken /\ DayNumber[c] = Da(t)
      /\ c.hour = Ho(t) % Hours /\ c.min = Mi(t) % Min60
  BY CalendarFields, RoundTrip
<1> HIDE DEF c
<1>2. e \in Broken /\ DayNumber[e] = DayNumber[c] /\ e.hour = c.hour /\ e.min = c.min /\ e.sec = v
  BY <1>1 DEF Broken, DayNumber
<1> HIDE DEF e
<1>3. mktime[e] = Calendar[MomentOf(Da(t), Ho(t) % Hours, Mi(t) % Min60, v)]
  BY <1>1, <1>2, MakeTime
<1> QED
  BY <1>3, Parts DEF MomentOf, c, e

LEMMA PutMinute ==
    ASSUME NEW t \in Nat, NEW v \in Nat
    PROVE  mktime[[Calendar[t] EXCEPT !.min = v]]
              = Calendar[(Ho(t) * Min60 + v) * Sec + (t % Sec)]
<1> DEFINE c == Calendar[t]
           e == [c EXCEPT !.min = v]
<1>1. /\ c \in Broken /\ DayNumber[c] = Da(t)
      /\ c.hour = Ho(t) % Hours /\ c.sec = t % Sec
  BY CalendarFields, RoundTrip
<1> HIDE DEF c
<1>2. e \in Broken /\ DayNumber[e] = DayNumber[c] /\ e.hour = c.hour /\ e.min = v /\ e.sec = c.sec
  BY <1>1 DEF Broken, DayNumber
<1> HIDE DEF e
<1>3. mktime[e] = Calendar[MomentOf(Da(t), Ho(t) % Hours, v, t % Sec)]
  BY <1>1, <1>2, MakeTime
<1> QED
  BY <1>3, Parts DEF MomentOf, c, e

LEMMA PutHour ==
    ASSUME NEW t \in Nat, NEW v \in Nat
    PROVE  mktime[[Calendar[t] EXCEPT !.hour = v]]
              = Calendar[MomentOf(Da(t), v, Mi(t) % Min60, t % Sec)]
<1> DEFINE c == Calendar[t]
           e == [c EXCEPT !.hour = v]
<1>1. /\ c \in Broken /\ DayNumber[c] = Da(t)
      /\ c.min = Mi(t) % Min60 /\ c.sec = t % Sec
  BY CalendarFields, RoundTrip
<1> HIDE DEF c
<1>2. e \in Broken /\ DayNumber[e] = DayNumber[c] /\ e.hour = v /\ e.min = c.min /\ e.sec = c.sec
  BY <1>1 DEF Broken, DayNumber
<1> HIDE DEF e
<1> QED
  BY <1>1, <1>2, MakeTime DEF c, e

\* A date whose day has changed, by any of its three fields.
LEMMA PutDay ==
    ASSUME NEW t \in Nat, NEW e \in Broken,
           e.hour = Calendar[t].hour, e.min = Calendar[t].min, e.sec = Calendar[t].sec
    PROVE  mktime[e] = Calendar[MomentOf(FirstDay(e.year * Months + e.mon) + e.mday - 1, Ho(t) % Hours,
                                   Mi(t) % Min60, t % Sec)]
<1>1. /\ mktime[e] = Calendar[MomentOf(DayNumber[e], e.hour, e.min, e.sec)]
      /\ DayNumber[e] = FirstDay(e.year * Months + e.mon) + e.mday - 1
  BY MakeTime
<1>2. /\ Calendar[t].hour = Ho(t) % Hours /\ Calendar[t].min = Mi(t) % Min60
      /\ Calendar[t].sec = t % Sec
  BY CalendarFields
<1> QED
  BY <1>1, <1>2
-----------------------------------------------------------------------------
(* Parsing *)

APart == [lo : Nat \cup {-1}, hi : Nat \cup {-1}, by : Nat]

\* What one part of a field whose least value is min says of the value w.
Covers(p, w, min) ==
    LET lo == IF p.lo = -1 THEN min ELSE p.lo
    IN  /\ w >= lo
        /\ p.lo = -1 \/ (p.by > 0 /\ p.lo = p.hi) \/ w <= p.hi
        /\ p.by > 0 => (w - lo) % p.by = 0

\* The bits of parts without an error are what the parts mean, and there is one.
LEMMA HitsMean ==
    ASSUME NEW parts \in Seq(APart), parts # <<>>, NEW min \in Nat, NEW max \in Nat, min < max,
           \A j \in DOMAIN parts : ~Rejected(parts[j], min, max)
    PROVE  LET hits == set_number_hits(parts, min, max)
           IN  /\ hits \subseteq min .. max - 1 /\ hits # {}
               /\ \A v \in min .. max - 1 :
                     v \in hits <=> \E i \in DOMAIN parts : Covers(parts[i], v, min)
<1> DEFINE hits == set_number_hits(parts, min, max)
<1>1. /\ DOMAIN parts = 1 .. Len(parts) /\ Len(parts) \in Nat /\ 1 \in DOMAIN parts
      /\ \A i \in DOMAIN parts : parts[i] \in APart
  OBVIOUS
<1>2. \A i \in DOMAIN parts : \A j \in 1 .. i : ~Rejected(parts[j], min, max)
  BY <1>1
<1>3. ASSUME NEW v \in min .. max - 1, NEW i \in DOMAIN parts
      PROVE  LET r == get_range(parts[i], min, max)
             IN  (v \in r.lo .. r.hi /\ (parts[i].by > 0 => (v - r.lo) % parts[i].by = 0))
                    <=> Covers(parts[i], v, min)
  <2> DEFINE p == parts[i]
  <2>1. p.lo \in Nat \cup {-1} /\ p.hi \in Nat \cup {-1} /\ p.by \in Nat
    BY <1>1 DEF APart
  <2> HIDE DEF p
  <2>2. LET r == get_range(p, min, max)
        IN  /\ r.lo = IF p.lo = -1 THEN min ELSE p.lo
            /\ r.hi = IF p.lo = -1 \/ (p.by > 0 /\ p.lo = p.hi) THEN max - 1 ELSE p.hi
    BY DEF get_range
  <2> DEFINE r == get_range(p, min, max)
  <2>3. r.lo \in Nat /\ r.hi \in Int
    BY <2>1, <2>2
  <2>4. v \in r.lo .. r.hi
          <=> (v >= r.lo /\ (p.lo = -1 \/ (p.by > 0 /\ p.lo = p.hi) \/ v <= p.hi))
    BY <2>1, <2>2, <2>3
  <2> HIDE DEF r
  <2> QED
    BY <2>2, <2>4 DEF Covers, p, r
<1>4. hits \subseteq min .. max - 1
  BY DEF set_number_hits
<1>5. ASSUME NEW v \in min .. max - 1
      PROVE  v \in hits <=> \E i \in DOMAIN parts : Covers(parts[i], v, min)
  <2>1. v \in hits <=> \E i \in DOMAIN parts :
                          LET r == get_range(parts[i], min, max)
                          IN  v \in r.lo .. r.hi /\ (parts[i].by > 0 => (v - r.lo) % parts[i].by = 0)
    BY <1>2 DEF set_number_hits
  <2> HIDE DEF hits
  <2> QED
    BY <1>3, <2>1
<1>6. hits # {}
  <2> DEFINE p == parts[1]
             v == IF p.lo = -1 THEN min ELSE p.lo
  <2>1. p.lo \in Nat \cup {-1} /\ p.hi \in Nat \cup {-1} /\ p.by \in Nat
    BY <1>1 DEF APart
  <2>2. ~Rejected(p, min, max)
    BY <1>1
  <2> HIDE DEF p
  <2>3. v \in min .. max - 1 /\ (p.lo = -1 \/ v <= p.hi)
    BY <2>1, <2>2 DEF Rejected
  <2>4. (v - v) % p.by = 0 \/ ~(p.by > 0)
    BY <2>1, <2>3
  <2>5. Covers(p, v, min)
    BY <2>3, <2>4 DEF Covers
  <2> HIDE DEF hits, v
  <2> QED
    BY <1>1, <1>5, <2>3, <2>5 DEF p
<1> QED
  BY <1>4, <1>5, <1>6

ParsedText == text \in Text /\ expr = cron_parse_expr(text)
NoErrors == \A i \in 1 .. 6 : ~Bad(text, i)

LEMMA FieldNames ==
    /\ Fields[1] = "sec" /\ Fields[2] = "min" /\ Fields[3] = "hour"
    /\ Fields[4] = "wday" /\ Fields[5] = "mday" /\ Fields[6] = "mon"
BY DEF Fields

LEMMA FieldIndex ==
    /\ (CHOOSE n \in 1 .. 6 : Fields[n] = "sec") = 1
    /\ (CHOOSE n \in 1 .. 6 : Fields[n] = "min") = 2
    /\ (CHOOSE n \in 1 .. 6 : Fields[n] = "hour") = 3
    /\ (CHOOSE n \in 1 .. 6 : Fields[n] = "wday") = 4
    /\ (CHOOSE n \in 1 .. 6 : Fields[n] = "mday") = 5
    /\ (CHOOSE n \in 1 .. 6 : Fields[n] = "mon") = 6
BY FieldNames

LEMMA ParsedFields ==
    ASSUME ParsedText, NoErrors
    PROVE  /\ expr.sec = set_number_hits(text.sec, 0, Sec)
           /\ expr.min = set_number_hits(text.min, 0, Min60)
           /\ expr.hour = set_number_hits(text.hour, 0, Hours)
           /\ expr.mday = set_number_hits(text.mday, 1, MaxDayOfMonth + 1)
           /\ expr.wday = {b % Week : b \in set_number_hits(text.wday, 0, Week + 1)}
           /\ expr.mon = {b - 1 : b \in set_number_hits(text.mon, 1, Months + 1)}
<1> DEFINE names == {Fields[i] : i \in 1 .. 6}
           idx(f) == CHOOSE n \in 1 .. 6 : Fields[n] = f
           hits(f) == set_number_hits(text[f], Lowest[f], Above[f])
<1>1. ASSUME NEW f \in names
      PROVE  expr[f] = CASE f = "mon" -> {b - 1 : b \in hits(f)}
                         [] f = "wday" /\ ~Bad(text, idx(f)) -> {b % Week : b \in hits(f)}
                         [] OTHER -> hits(f)
  <2>1. idx(f) \in 1 .. 6
    OBVIOUS
  <2>2. \A j \in 1 .. idx(f) - 1 : ~Bad(text, j)
    BY <2>1 DEF NoErrors
  <2> HIDE DEF idx, names, hits
  <2> QED
    BY <2>1, <2>2 DEF ParsedText, cron_parse_expr, names, idx, hits
<1>2. {"sec", "min", "hour", "wday", "mday", "mon"} \subseteq names
  BY FieldNames
<1>3. ~Bad(text, idx("wday"))
  <2>1. idx("wday") = 4
    BY FieldIndex
  <2> HIDE DEF idx
  <2> QED
    BY <2>1 DEF NoErrors
<1>4. /\ Lowest.sec = 0 /\ Lowest.min = 0 /\ Lowest.hour = 0 /\ Lowest.wday = 0
      /\ Lowest.mday = 1 /\ Lowest.mon = 1
      /\ Above.sec = Sec /\ Above.min = Min60 /\ Above.hour = Hours /\ Above.wday = Week + 1
      /\ Above.mday = MaxDayOfMonth + 1 /\ Above.mon = Months + 1
  BY DEF Lowest, Above
<1> HIDE DEF names, idx
<1>5. expr.sec = hits("sec") /\ expr.min = hits("min") /\ expr.hour = hits("hour")
  BY <1>1, <1>2
<1>6. expr.mday = hits("mday") /\ expr.wday = {b % Week : b \in hits("wday")}
  BY <1>1, <1>2, <1>3
<1>7. expr.mon = {b - 1 : b \in hits("mon")}
  BY <1>1, <1>2
<1> QED
  BY <1>4, <1>5, <1>6, <1>7
LEMMA PartTypes ==
    ASSUME ParsedText, NoErrors
    PROVE  /\ \A f \in {"sec", "min", "hour", "wday", "mday", "mon"} :
                 text[f] \in Seq(APart) /\ text[f] # <<>>
           /\ \A j \in DOMAIN text.sec : ~Rejected(text.sec[j], 0, Sec)
           /\ \A j \in DOMAIN text.min : ~Rejected(text.min[j], 0, Min60)
           /\ \A j \in DOMAIN text.hour : ~Rejected(text.hour[j], 0, Hours)
           /\ \A j \in DOMAIN text.wday : ~Rejected(text.wday[j], 0, Week + 1)
           /\ \A j \in DOMAIN text.mday : ~Rejected(text.mday[j], 1, MaxDayOfMonth + 1)
           /\ \A j \in DOMAIN text.mon : ~Rejected(text.mon[j], 1, Months + 1)
<1>1. \A f \in {"sec", "min", "hour", "wday", "mday", "mon"} :
          text[f] \in Seq(APart) /\ text[f] # <<>>
  BY TextAssumption DEF ParsedText, APart
<1>2. /\ Lowest["sec"] = 0 /\ Lowest["min"] = 0 /\ Lowest["hour"] = 0 /\ Lowest["wday"] = 0
      /\ Lowest["mday"] = 1 /\ Lowest["mon"] = 1
      /\ Above["sec"] = Sec /\ Above["min"] = Min60 /\ Above["hour"] = Hours
      /\ Above["wday"] = Week + 1
      /\ Above["mday"] = MaxDayOfMonth + 1 /\ Above["mon"] = Months + 1
  BY DEF Lowest, Above
<1>3. ASSUME NEW i \in 1 .. 6, NEW f, Fields[i] = f
      PROVE  \A j \in DOMAIN text[f] : ~Rejected(text[f][j], Lowest[f], Above[f])
  BY <1>3 DEF NoErrors, Bad
<1>4. /\ \A j \in DOMAIN text["sec"] : ~Rejected(text["sec"][j], Lowest["sec"], Above["sec"])
      /\ \A j \in DOMAIN text["min"] : ~Rejected(text["min"][j], Lowest["min"], Above["min"])
      /\ \A j \in DOMAIN text["hour"] : ~Rejected(text["hour"][j], Lowest["hour"], Above["hour"])
      /\ \A j \in DOMAIN text["wday"] : ~Rejected(text["wday"][j], Lowest["wday"], Above["wday"])
      /\ \A j \in DOMAIN text["mday"] : ~Rejected(text["mday"][j], Lowest["mday"], Above["mday"])
      /\ \A j \in DOMAIN text["mon"] : ~Rejected(text["mon"][j], Lowest["mon"], Above["mon"])
  BY <1>3, FieldNames
<1> QED
  BY <1>1, <1>2, <1>4

\* Every field has a bit and none out of its range.
BitSets ==
    /\ expr.sec \in SUBSET (0 .. Sec - 1) /\ expr.sec # {}
    /\ expr.min \in SUBSET (0 .. Min60 - 1) /\ expr.min # {}
    /\ expr.hour \in SUBSET (0 .. Hours - 1) /\ expr.hour # {}
    /\ expr.wday \in SUBSET (0 .. Week - 1) /\ expr.wday # {}
    /\ expr.mday \in SUBSET (1 .. MaxDayOfMonth) /\ expr.mday # {}
    /\ expr.mon \in SUBSET (0 .. Months - 1) /\ expr.mon # {}

\* The bits are what the text means.
BitsMean ==
    /\ \A v \in 0 .. Sec - 1 : v \in expr.sec <=> Means("sec", v)
    /\ \A v \in 0 .. Min60 - 1 : v \in expr.min <=> Means("min", v)
    /\ \A v \in 0 .. Hours - 1 : v \in expr.hour <=> Means("hour", v)
    /\ \A v \in 0 .. Week - 1 : v \in expr.wday <=> Means("wday", v)
    /\ \A v \in 1 .. MaxDayOfMonth : v \in expr.mday <=> Means("mday", v)
    /\ \A v \in 0 .. Months - 1 : v \in expr.mon <=> Means("mon", v + 1)

LEMMA MeansCovers ==
    /\ \A v : Means("sec", v) <=> \E i \in DOMAIN text.sec : Covers(text.sec[i], v, 0)
    /\ \A v : Means("min", v) <=> \E i \in DOMAIN text.min : Covers(text.min[i], v, 0)
    /\ \A v : Means("hour", v) <=> \E i \in DOMAIN text.hour : Covers(text.hour[i], v, 0)
    /\ \A v : Means("mday", v) <=> \E i \in DOMAIN text.mday : Covers(text.mday[i], v, 1)
    /\ \A v : Means("mon", v) <=> \E i \in DOMAIN text.mon : Covers(text.mon[i], v, 1)
    /\ \A v : Means("wday", v) <=>
                 \E i \in DOMAIN text.wday : \E w \in IF v = 0 THEN {0, Week} ELSE {v} :
                    Covers(text.wday[i], w, 0)
<1>1. /\ Lowest["sec"] = 0 /\ Lowest["min"] = 0 /\ Lowest["hour"] = 0 /\ Lowest["wday"] = 0
      /\ Lowest["mday"] = 1 /\ Lowest["mon"] = 1
  BY DEF Lowest
<1>2. ASSUME NEW f, NEW v
      PROVE  Means(f, v) <=>
                \E i \in DOMAIN text[f] : \E w \in IF f = "wday" /\ v = 0 THEN {0, Week} ELSE {v} :
                    Covers(text[f][i], w, Lowest[f])
  BY DEF Means, Covers
<1>3. ASSUME NEW f, NEW v, f # "wday"
      PROVE  Means(f, v) <=> \E i \in DOMAIN text[f] : Covers(text[f][i], v, Lowest[f])
  BY <1>2, <1>3
<1>4. \A v : Means("sec", v) <=> \E i \in DOMAIN text["sec"] : Covers(text["sec"][i], v, 0)
  BY <1>1, <1>3
<1>5. \A v : Means("min", v) <=> \E i \in DOMAIN text["min"] : Covers(text["min"][i], v, 0)
  BY <1>1, <1>3
<1>6. \A v : Means("hour", v) <=> \E i \in DOMAIN text["hour"] : Covers(text["hour"][i], v, 0)
  BY <1>1, <1>3
<1>7. \A v : Means("mday", v) <=> \E i \in DOMAIN text["mday"] : Covers(text["mday"][i], v, 1)
  BY <1>1, <1>3
<1>8. \A v : Means("mon", v) <=> \E i \in DOMAIN text["mon"] : Covers(text["mon"][i], v, 1)
  BY <1>1, <1>3
<1>9. \A v : Means("wday", v) <=>
                 \E i \in DOMAIN text["wday"] : \E w \in IF v = 0 THEN {0, Week} ELSE {v} :
                    Covers(text["wday"][i], w, 0)
  BY <1>1, <1>2
<1> QED
  BY <1>4, <1>5, <1>6, <1>7, <1>8, <1>9
LEMMA BitsAreMeant ==
    ASSUME ParsedText, NoErrors
    PROVE  BitSets /\ BitsMean
<1>0. /\ Sec \in Nat \ {0} /\ Min60 \in Nat \ {0} /\ Hours \in Nat \ {0} /\ Week \in Nat \ {0}
      /\ Months \in Nat \ {0} /\ MaxDayOfMonth \in Nat \ {0}
  BY Lengths, DaysType
<1>1. /\ \A f \in {"sec", "min", "hour", "wday", "mday", "mon"} :
              text[f] \in Seq(APart) /\ text[f] # <<>>
      /\ \A j \in DOMAIN text["sec"] : ~Rejected(text["sec"][j], 0, Sec)
      /\ \A j \in DOMAIN text["min"] : ~Rejected(text["min"][j], 0, Min60)
      /\ \A j \in DOMAIN text["hour"] : ~Rejected(text["hour"][j], 0, Hours)
      /\ \A j \in DOMAIN text["wday"] : ~Rejected(text["wday"][j], 0, Week + 1)
      /\ \A j \in DOMAIN text["mday"] : ~Rejected(text["mday"][j], 1, MaxDayOfMonth + 1)
      /\ \A j \in DOMAIN text["mon"] : ~Rejected(text["mon"][j], 1, Months + 1)
  BY PartTypes
<1> DEFINE H(f, min, max) == set_number_hits(text[f], min, max)
           Good(f, min, max, top) ==
              /\ H(f, min, max) \subseteq min .. top /\ H(f, min, max) # {}
              /\ \A v \in min .. top :
                    v \in H(f, min, max) <=> \E i \in DOMAIN text[f] : Covers(text[f][i], v, min)
<1>2. ASSUME NEW f \in {"sec", "min", "hour", "wday", "mday", "mon"},
             NEW min \in Nat, NEW max \in Nat, NEW top, top = max - 1, min < max,
             \A j \in DOMAIN text[f] : ~Rejected(text[f][j], min, max)
      PROVE  Good(f, min, max, top)
  <2>1. text[f] \in Seq(APart) /\ text[f] # <<>>
    BY <1>1
  <2> QED
    BY <1>2, <2>1, HitsMean
<1>3. Good("sec", 0, Sec, Sec - 1) /\ Good("min", 0, Min60, Min60 - 1) /\ Good("hour", 0, Hours, Hours - 1)
  <2> HIDE DEF Good
  <2> QED
    BY <1>0, <1>1, <1>2
<1>4. /\ Good("wday", 0, Week + 1, Week)
      /\ Good("mday", 1, MaxDayOfMonth + 1, MaxDayOfMonth)
      /\ Good("mon", 1, Months + 1, Months)
  <2>1. Good("wday", 0, Week + 1, Week)
    <3>1. Week + 1 \in Nat /\ 0 < Week + 1 /\ Week = (Week + 1) - 1
      BY <1>0
    <3> DEFINE max == Week + 1
    <3>2. max \in Nat /\ 0 < max /\ Week = max - 1
      BY <3>1
    <3>3. \A j \in DOMAIN text["wday"] : ~Rejected(text["wday"][j], 0, max)
      BY <1>1
    <3> HIDE DEF max, Good
    <3>4. Good("wday", 0, max, Week)
      BY <1>2, <3>2, <3>3
    <3> QED
      BY <3>4 DEF max
  <2>2. Good("mday", 1, MaxDayOfMonth + 1, MaxDayOfMonth)
    <3>1. MaxDayOfMonth + 1 \in Nat /\ 1 < MaxDayOfMonth + 1 /\ MaxDayOfMonth = (MaxDayOfMonth + 1) - 1
      BY <1>0
    <3> DEFINE max == MaxDayOfMonth + 1
    <3>2. max \in Nat /\ 1 < max /\ MaxDayOfMonth = max - 1
      BY <3>1
    <3>3. \A j \in DOMAIN text["mday"] : ~Rejected(text["mday"][j], 1, max)
      BY <1>1
    <3> HIDE DEF max, Good
    <3>4. Good("mday", 1, max, MaxDayOfMonth)
      BY <1>2, <3>2, <3>3
    <3> QED
      BY <3>4 DEF max
  <2>3. Good("mon", 1, Months + 1, Months)
    <3>1. Months + 1 \in Nat /\ 1 < Months + 1 /\ Months = (Months + 1) - 1
      BY <1>0
    <3> DEFINE max == Months + 1
    <3>2. max \in Nat /\ 1 < max /\ Months = max - 1
      BY <3>1
    <3>3. \A j \in DOMAIN text["mon"] : ~Rejected(text["mon"][j], 1, max)
      BY <1>1
    <3> HIDE DEF max, Good
    <3>4. Good("mon", 1, max, Months)
      BY <1>2, <3>2, <3>3
    <3> QED
      BY <3>4 DEF max
  <2> QED
    BY <2>1, <2>2, <2>3
<1>5. /\ expr.sec = H("sec", 0, Sec) /\ expr.min = H("min", 0, Min60)
      /\ expr.hour = H("hour", 0, Hours) /\ expr.mday = H("mday", 1, MaxDayOfMonth + 1)
      /\ expr.wday = {b % Week : b \in H("wday", 0, Week + 1)}
      /\ expr.mon = {b - 1 : b \in H("mon", 1, Months + 1)}
  BY ParsedFields
<1> HIDE DEF H
<1>6. /\ expr.sec \in SUBSET (0 .. Sec - 1) /\ expr.sec # {}
      /\ \A v \in 0 .. Sec - 1 : v \in expr.sec <=> Means("sec", v)
  BY <1>3, <1>5, MeansCovers
<1>7. /\ expr.min \in SUBSET (0 .. Min60 - 1) /\ expr.min # {}
      /\ \A v \in 0 .. Min60 - 1 : v \in expr.min <=> Means("min", v)
  BY <1>3, <1>5, MeansCovers
<1>8. /\ expr.hour \in SUBSET (0 .. Hours - 1) /\ expr.hour # {}
      /\ \A v \in 0 .. Hours - 1 : v \in expr.hour <=> Means("hour", v)
  BY <1>3, <1>5, MeansCovers
<1>9. /\ expr.mday \in SUBSET (1 .. MaxDayOfMonth) /\ expr.mday # {}
      /\ \A v \in 1 .. MaxDayOfMonth : v \in expr.mday <=> Means("mday", v)
  BY <1>4, <1>5, MeansCovers
<1>10. /\ expr.mon \in SUBSET (0 .. Months - 1) /\ expr.mon # {}
       /\ \A v \in 0 .. Months - 1 : v \in expr.mon <=> Means("mon", v + 1)
  <2> DEFINE h == H("mon", 1, Months + 1)
  <2>1. /\ h \subseteq 1 .. Months /\ h # {} /\ expr.mon = {b - 1 : b \in h}
        /\ \A v \in 1 .. Months : v \in h <=> Means("mon", v)
    BY <1>4, <1>5, MeansCovers
  <2> HIDE DEF h
  <2>2. \A v \in 0 .. Months - 1 : v + 1 \in 1 .. Months /\ (v \in expr.mon <=> v + 1 \in h)
    <3>1. ASSUME NEW v \in 0 .. Months - 1  PROVE v + 1 \in 1 .. Months /\ (v + 1) - 1 = v
      BY <1>0
    <3>2. \A b \in h : b \in Int /\ (b - 1) + 1 = b
      BY <1>0, <2>1
    <3> QED
      BY <2>1, <3>1, <3>2
  <2>3. expr.mon \subseteq 0 .. Months - 1 /\ expr.mon # {}
    <3>1. \A b \in h : b - 1 \in 0 .. Months - 1
      BY <1>0, <2>1
    <3> QED
      BY <2>1, <3>1
  <2> QED
    BY <2>1, <2>2, <2>3
<1>11. /\ expr.wday \in SUBSET (0 .. Week - 1) /\ expr.wday # {}
       /\ \A v \in 0 .. Week - 1 : v \in expr.wday <=> Means("wday", v)
  <2> DEFINE h == H("wday", 0, Week + 1)
  <2>1. /\ h \subseteq 0 .. Week /\ h # {} /\ expr.wday = {b % Week : b \in h}
        /\ \A v \in 0 .. Week :
              v \in h <=> \E i \in DOMAIN text["wday"] : Covers(text["wday"][i], v, 0)
    BY <1>4, <1>5
  <2> HIDE DEF h
  <2>2. \A b \in 0 .. Week : b % Week = IF b = Week THEN 0 ELSE b
    <3>1. (1 * Week + 0) % Week = 0 /\ 1 * Week + 0 = Week
      <4>1. 0 \in 0 .. Week - 1
        BY <1>0
      <4> QED
        BY <1>0, <4>1, DivisionUnique
    <3>2. ASSUME NEW b \in 0 .. Week - 1  PROVE b % Week = b
      <4>1. (0 * Week + b) % Week = b
        BY <1>0, DivisionUnique
      <4> QED
        BY <1>0, <4>1
    <3> QED
      BY <1>0, <3>1, <3>2
  <2>3. expr.wday \subseteq 0 .. Week - 1 /\ expr.wday # {}
    <3>1. \A b \in h : b % Week \in 0 .. Week - 1
      BY <1>0, <2>1, <2>2
    <3> QED
      BY <2>1, <3>1
  <2>4. ASSUME NEW v \in 0 .. Week - 1  PROVE v \in expr.wday <=> Means("wday", v)
    <3> DEFINE names == IF v = 0 THEN {0, Week} ELSE {v}
    <3>1. v \in expr.wday <=> \E w \in names : w \in h
      <4>1. \A b \in h : b % Week = v <=> b \in names
        BY <1>0, <2>1, <2>2
      <4>2. v \in expr.wday <=> \E b \in h : b % Week = v
        BY <2>1
      <4> HIDE DEF names
      <4> QED
        BY <4>1, <4>2
    <3>2. names \subseteq 0 .. Week
      BY <1>0
    <3>3. Means("wday", v) <=>
             \E i \in DOMAIN text["wday"] : \E w \in names : Covers(text["wday"][i], w, 0)
      BY MeansCovers
    <3> HIDE DEF names
    <3> QED
      BY <2>1, <3>1, <3>2, <3>3
  <2> QED
    BY <2>3, <2>4
<1> QED
  BY <1>6, <1>7, <1>8, <1>9, <1>10, <1>11 DEF BitSets, BitsMean
-----------------------------------------------------------------------------
(* What does not fit *)

FitsAt(t) == Fits(Calendar[t])
DayOK(d) == d - FirstDay(MonthOf(d)) + 1 \in expr.mday /\ d % Week \in expr.wday

LEMMA FitsParts ==
    ASSUME NEW t \in Nat
    PROVE  /\ DayFits(Calendar[t]) <=> DayOK(Da(t))
           /\ FitsAt(t) <=> /\ t % Sec \in expr.sec /\ Mi(t) % Min60 \in expr.min
                            /\ Ho(t) % Hours \in expr.hour /\ DayOK(Da(t))
                            /\ Mo(t) % Months \in expr.mon
<1>1. DayFits(Calendar[t]) <=> DayOK(Da(t))
  <2>1. Wday(Calendar[t]) = Da(t) % Week
    BY RoundTrip DEF Wday
  <2>2. Calendar[t].mday = Da(t) - FirstDay(MonthOf(Da(t))) + 1
    BY CalendarFields DEF Mo
  <2> QED
    BY <2>1, <2>2 DEF DayFits, DayOK
<1>2. /\ Calendar[t].mon = Mo(t) % Months /\ Calendar[t].hour = Ho(t) % Hours
      /\ Calendar[t].min = Mi(t) % Min60 /\ Calendar[t].sec = t % Sec
  BY CalendarFields
<1> QED
  BY <1>1, <1>2 DEF FitsAt, Fits

\* An instant that fits matches the text, and the other way round.
LEMMA FitsMatches ==
    ASSUME NEW t \in Nat, BitSets, BitsMean
    PROVE  FitsAt(t) <=> Matches(t)
<1> DEFINE c == Calendar[t]
<1>0. /\ Sec \in Nat \ {0} /\ Min60 \in Nat \ {0} /\ Hours \in Nat \ {0} /\ Week \in Nat \ {0}
      /\ Months \in Nat \ {0} /\ MaxDayOfMonth \in Nat
  BY Lengths
<1>1. /\ c.sec \in 0 .. Sec - 1 /\ c.min \in 0 .. Min60 - 1 /\ c.hour \in 0 .. Hours - 1
      /\ c.mon \in 0 .. Months - 1
  BY CalendarFields, Parts
<1>2. c.mday \in 1 .. MaxDayOfMonth
  <2>1. /\ c.mday = Da(t) - FirstDay(Mo(t)) + 1 /\ Da(t) \in Nat
        /\ FirstDay(Mo(t)) \in Nat /\ FirstDay(Mo(t)) <= Da(t)
        /\ Da(t) < FirstDay(Mo(t)) + MonthLength(Mo(t))
        /\ MonthLength(Mo(t)) \in Nat /\ MonthLength(Mo(t)) <= MaxDayOfMonth
    BY CalendarFields, Parts
  <2> HIDE DEF c
  <2> QED
    BY <1>0, <2>1
<1>3. Wday(c) \in 0 .. Week - 1
  <2>1. Wday(c) = Da(t) % Week
    BY RoundTrip DEF Wday
  <2>2. Da(t) \in Nat
    BY Parts
  <2> QED
    BY <1>0, <2>1, <2>2, Division
<1> HIDE DEF c
<1>4. /\ c.sec \in expr.sec <=> Means("sec", c.sec)
      /\ c.min \in expr.min <=> Means("min", c.min)
      /\ c.hour \in expr.hour <=> Means("hour", c.hour)
      /\ c.mday \in expr.mday <=> Means("mday", c.mday)
      /\ c.mon \in expr.mon <=> Means("mon", c.mon + 1)
      /\ Wday(c) \in expr.wday <=> Means("wday", Wday(c))
  BY <1>1, <1>2, <1>3 DEF BitsMean
<1> QED
  BY <1>4 DEF FitsAt, Fits, DayFits, Matches, c

LEMMA LessInUnit ==
    ASSUME NEW a \in Nat, NEW b \in Nat, NEW R \in Nat \ {0}, a \div R = b \div R
    PROVE  /\ a < b => a % R < b % R
           /\ a <= b /\ b % R = 0 => a = b
<1> DEFINE p == a % R
           q == b % R
<1>1. a - b = p - q
  BY SameUnit
<1>2. p \in Nat /\ q \in Nat
  BY Division
<1> HIDE DEF p, q
<1>3. (a < b => p < q) /\ (a <= b /\ q = 0 => a = b)
  BY <1>1, <1>2
<1> QED
  BY <1>3 DEF p, q

\* Two instants of the same minute, hour, day, month, the later one with the lower
\* fields reset: the earlier one has them reset as well.
LEMMA SameMinute ==
    ASSUME NEW w \in Nat, NEW u \in Nat, w < u, Mi(w) = Mi(u)
    PROVE  w % Sec < u % Sec
BY Lengths, LessInUnit DEF Mi

LEMMA SameHour ==
    ASSUME NEW w \in Nat, NEW u \in Nat, w < u, Ho(w) = Ho(u), Mi(u) % Min60 = 0
    PROVE  Mi(w) = Mi(u)
<1>1. Mi(w) <= Mi(u)
  BY PartsMono
<1>2. Mi(w) \in Nat /\ Mi(u) \in Nat /\ Min60 \in Nat \ {0}
  BY Parts, Lengths
<1> QED
  BY <1>1, <1>2, LessInUnit DEF Ho

LEMMA SameDay ==
    ASSUME NEW w \in Nat, NEW u \in Nat, w < u, Da(w) = Da(u), Ho(u) % Hours = 0
    PROVE  Ho(w) = Ho(u)
<1>1. Ho(w) <= Ho(u)
  BY PartsMono
<1>2. Ho(w) \in Nat /\ Ho(u) \in Nat /\ Hours \in Nat \ {0}
  BY Parts, Lengths
<1> QED
  BY <1>1, <1>2, LessInUnit DEF Da

LEMMA SameMonth ==
    ASSUME NEW w \in Nat, NEW u \in Nat, w < u, Mo(w) = Mo(u), Da(u) = FirstDay(Mo(u))
    PROVE  Da(w) = Da(u)
<1>1. Da(w) <= Da(u)
  BY PartsMono
<1>2. FirstDay(Mo(w)) <= Da(w)
  BY CalendarFields
<1>3. Da(w) \in Nat /\ Da(u) \in Nat
  BY Parts
<1> QED
  BY <1>1, <1>2, <1>3

\* A second that was reset, or that is the first one there is.
Earliest(s) == s = 0 \/ \A b \in expr.sec : s <= b

LEMMA NothingInMinute ==
    ASSUME BitSets, NEW w \in Nat, NEW u \in Nat, w < u, Mi(w) = Mi(u), Earliest(u % Sec)
    PROVE  ~FitsAt(w)
<1>1. w % Sec < u % Sec
  BY SameMinute
<1>2. w % Sec \in 0 .. Sec - 1 /\ u % Sec \in 0 .. Sec - 1 /\ Sec \in Nat
  BY Parts, Lengths
<1>3. w % Sec \notin expr.sec
  BY <1>1, <1>2 DEF Earliest
<1> QED
  BY <1>3, FitsParts

LEMMA NothingInHour ==
    ASSUME BitSets, NEW w \in Nat, NEW u \in Nat, w < u, Ho(w) = Ho(u), Mi(u) % Min60 = 0,
           Earliest(u % Sec)
    PROVE  ~FitsAt(w)
BY SameHour, NothingInMinute

LEMMA NothingInDay ==
    ASSUME BitSets, NEW w \in Nat, NEW u \in Nat, w < u, Da(w) = Da(u), Ho(u) % Hours = 0,
           Mi(u) % Min60 = 0, Earliest(u % Sec)
    PROVE  ~FitsAt(w)
BY SameDay, NothingInHour

LEMMA NothingInMonth ==
    ASSUME BitSets, NEW w \in Nat, NEW u \in Nat, w < u, Mo(w) = Mo(u), Da(u) = FirstDay(Mo(u)),
           Ho(u) % Hours = 0, Mi(u) % Min60 = 0, Earliest(u % Sec)
    PROVE  ~FitsAt(w)
BY SameMonth, NothingInDay
-----------------------------------------------------------------------------
(* reset_all_min *)

LEMMA ResetRecord ==
    ASSUME NEW y, NEW k, NEW d, NEW h, NEW m, NEW s, NEW R \in SUBSET Lower
    PROVE  reset_all_min([year |-> y, mon |-> k, mday |-> d, hour |-> h, min |-> m, sec |-> s], R) =
              [year |-> y, mon |-> k, mday |-> IF "mday" \in R THEN 1 ELSE d,
               hour |-> IF "hour" \in R THEN 0 ELSE h,
               min |-> IF "min" \in R THEN 0 ELSE m, sec |-> IF "sec" \in R THEN 0 ELSE s]
<1>1. "year" \notin R /\ "mon" \notin R
  BY DEF Lower
<1> QED
  BY <1>1 DEF reset_all_min

LEMMA ResetTime ==
    ASSUME NEW x \in Nat, NEW R \in SUBSET Lower
    PROVE  LET d == IF "mday" \in R THEN FirstDay(Mo(x)) ELSE Da(x)
               h == IF "hour" \in R THEN 0 ELSE Ho(x) % Hours
               m == IF "min" \in R THEN 0 ELSE Mi(x) % Min60
               s == IF "sec" \in R THEN 0 ELSE x % Sec
           IN  /\ reset_all_min(Calendar[x], R) = Calendar[MomentOf(d, h, m, s)]
               /\ d \in Nat /\ h \in 0 .. Hours - 1 /\ m \in 0 .. Min60 - 1 /\ s \in 0 .. Sec - 1
               /\ MonthOf(d) = Mo(x)
<1> DEFINE d == IF "mday" \in R THEN FirstDay(Mo(x)) ELSE Da(x)
           h == IF "hour" \in R THEN 0 ELSE Ho(x) % Hours
           m == IF "min" \in R THEN 0 ELSE Mi(x) % Min60
           s == IF "sec" \in R THEN 0 ELSE x % Sec
           c == Calendar[x]
<1>1. /\ c \in Broken /\ c.year = Mo(x) \div Months /\ c.mon = Mo(x) % Months
      /\ c.mday = Da(x) - FirstDay(Mo(x)) + 1 /\ c.hour = Ho(x) % Hours
      /\ c.min = Mi(x) % Min60 /\ c.sec = x % Sec
      /\ FirstDay(Mo(x)) \in Nat /\ Da(x) \in Nat /\ Mo(x) \in Nat
      /\ FirstDay(Mo(x)) <= Da(x) /\ Da(x) < FirstDay(Mo(x)) + MonthLength(Mo(x))
      /\ MonthLength(Mo(x)) \in Nat
  BY CalendarFields, Parts
<1>2. h \in 0 .. Hours - 1 /\ m \in 0 .. Min60 - 1 /\ s \in 0 .. Sec - 1
  <2>1. 0 \in 0 .. Hours - 1 /\ 0 \in 0 .. Min60 - 1 /\ 0 \in 0 .. Sec - 1
    BY Lengths
  <2> QED
    BY <2>1, Parts
<1>3. d \in Nat
  BY <1>1
<1>4. MonthOf(d) = Mo(x)
  <2>1. CASE "mday" \in R
    <3>1. FirstDay(Mo(x)) < FirstDay(Mo(x)) + MonthLength(Mo(x))
      BY <1>1
    <3> QED
      BY <1>1, <2>1, <3>1, MonthOfUnique
  <2> QED
    BY <2>1 DEF Mo
<1>5. reset_all_min(c, R) =
        [year |-> Mo(x) \div Months, mon |-> Mo(x) % Months, mday |-> d - FirstDay(Mo(x)) + 1,
         hour |-> h, min |-> m, sec |-> s]
  <2>1. c = [year |-> Mo(x) \div Months, mon |-> Mo(x) % Months,
             mday |-> Da(x) - FirstDay(Mo(x)) + 1, hour |-> Ho(x) % Hours,
             min |-> Mi(x) % Min60, sec |-> x % Sec]
    BY CalendarFields
  <2>2. (IF "mday" \in R THEN 1 ELSE Da(x) - FirstDay(Mo(x)) + 1) = d - FirstDay(Mo(x)) + 1
    <3> HIDE DEF c
    <3> QED
      BY <1>1
  <2> HIDE DEF c
  <2>3. reset_all_min(c, R) =
          [year |-> Mo(x) \div Months, mon |-> Mo(x) % Months,
           mday |-> IF "mday" \in R THEN 1 ELSE Da(x) - FirstDay(Mo(x)) + 1,
           hour |-> h, min |-> m, sec |-> s]
    BY <2>1, ResetRecord
  <2> QED
    BY <2>2, <2>3
<1> HIDE DEF d, h, m, s
<1> DEFINE u == MomentOf(d, h, m, s)
<1>6. /\ u \in Nat /\ u % Sec = s /\ Mi(u) % Min60 = m /\ Ho(u) % Hours = h /\ Da(u) = d
  BY <1>2, <1>3, FromDay
<1> HIDE DEF u
<1>7. Mo(u) = Mo(x)
  BY <1>4, <1>6 DEF Mo
<1>8. Calendar[u] =
        [year |-> Mo(x) \div Months, mon |-> Mo(x) % Months, mday |-> d - FirstDay(Mo(x)) + 1,
         hour |-> h, min |-> m, sec |-> s]
  BY <1>6, <1>7, CalendarFields
<1> QED
  BY <1>2, <1>3, <1>4, <1>5, <1>8 DEF c, d, h, m, s, u
-----------------------------------------------------------------------------
(* find_next *)

\* The value find_next looks for in the bits B of a field with R values.
Ahead(u, R, B) == {b \in B : b >= u % R}
Value(u, R, B) == IF Ahead(u, R, B) # {} THEN Min(Ahead(u, R, B)) ELSE Min(B)

LEMMA ValueFacts ==
    ASSUME NEW u \in Nat, NEW R \in Nat \ {0}, NEW B \in SUBSET (0 .. R - 1), B # {}
    PROVE  LET v == Value(u, R, B)
           IN  /\ v \in B /\ v \in 0 .. R - 1 /\ v \in Nat
               /\ v = u % R <=> u % R \in B
               /\ Ahead(u, R, B) # {} => NextIn(u, R, B) = (u \div R) * R + v
               /\ Ahead(u, R, B) = {} => NextIn(u, R, B) = (u \div R + 1) * R + v
               /\ u % R \in B => NextIn(u, R, B) = u /\ Ahead(u, R, B) # {}
               /\ NextIn(u, R, B) < u + R
               /\ \A b \in B : b < v => b < u % R
<1> DEFINE A == Ahead(u, R, B)
           v == Value(u, R, B)
           p == u % R
<1>0. u = (u \div R) * R + p /\ u \div R \in Nat /\ p \in 0 .. R - 1
  BY Division
<1>1. A = {b \in B : b >= p} /\ A \in SUBSET Nat /\ B \in SUBSET Nat
  <2>1. B \in SUBSET Nat
    OBVIOUS
  <2>2. A = {b \in B : b >= p}
    BY DEF Ahead
  <2> HIDE DEF A
  <2> QED
    BY <2>1, <2>2
<1>2. NextIn(u, R, B) = IF A # {} THEN u - p + v ELSE u - p + R + v
  BY DEF NextIn, Ahead, Value
<1>3. (u \div R + 1) * R = (u \div R) * R + R /\ (u \div R) * R \in Nat
  BY <1>0, TimesNext
<1>4. CASE A # {}
  <2>1. v \in A /\ \A k \in A : v <= k
    BY <1>1, <1>4, MinIsLeast DEF Value
  <2> HIDE DEF A, v, p
  <2>2. v \in B /\ v \in 0 .. R - 1 /\ v \in Nat /\ v >= p
    BY <1>1, <2>1
  <2>3. v = p <=> p \in B
    BY <1>0, <1>1, <2>1, <2>2
  <2>4. NextIn(u, R, B) = (u \div R) * R + v /\ NextIn(u, R, B) < u + R
    BY <1>0, <1>2, <1>3, <1>4, <2>2
  <2>5. \A b \in B : b < v => b < p
    BY <1>0, <1>1, <2>1, <2>2
  <2>6. p \in B => NextIn(u, R, B) = u
    BY <1>0, <2>3, <2>4
  <2> QED
    BY <1>4, <2>2, <2>3, <2>4, <2>5, <2>6 DEF A, v, p
<1>5. CASE A = {}
  <2>1. v \in B /\ \A k \in B : v <= k
    BY <1>1, <1>5, MinIsLeast DEF Value
  <2> HIDE DEF A, v, p
  <2>2. v \in 0 .. R - 1 /\ v \in Nat /\ v < p /\ p \notin B
    BY <1>0, <1>1, <1>5, <2>1
  <2>3. NextIn(u, R, B) = (u \div R + 1) * R + v /\ NextIn(u, R, B) < u + R
    BY <1>0, <1>2, <1>3, <1>5, <2>2
  <2>4. \A b \in B : b < v => b < p
    BY <1>0, <1>1, <2>1, <2>2
  <2> QED
    BY <1>5, <2>1, <2>2, <2>3, <2>4 DEF A, v, p
<1> QED
  BY <1>4, <1>5 DEF A

\* find_next in these terms, for a field that holds u % R and has the bits B.
Finds(f, nf, lower, u, R, B) ==
    LET n == find_next(f, nf, lower)
        v == Value(u, R, B)
    IN  /\ n.value = v
        /\ u % R \in B => n.cal = cal
        /\ u % R \notin B /\ Ahead(u, R, B) # {} => n.cal = reset_all_min(set_field(cal, f, v), lower)
        /\ Ahead(u, R, B) = {} =>
              n.cal = reset_all_min(set_field(reset_min(add_to_field(cal, nf), f), f, v), lower)

LEMMA FindNext ==
    ASSUME NEW f, NEW nf, NEW lower, NEW u \in Nat, NEW R \in Nat \ {0},
           NEW B \in SUBSET (0 .. R - 1), B # {}, expr[f] = B, cal[f] = u % R
    PROVE  Finds(f, nf, lower, u, R, B)
<1> DEFINE n == find_next(f, nf, lower)
           v == Value(u, R, B)
           A == Ahead(u, R, B)
           rolled == IF A = {} THEN reset_min(add_to_field(cal, nf), f) ELSE cal
<1>1. A = {b \in expr[f] : b >= cal[f]}
  BY DEF Ahead
<1>2. n = [value |-> v,
           cal |-> IF A # {} /\ v = cal[f] THEN cal
                   ELSE reset_all_min(set_field(rolled, f, v), lower)]
  <2> HIDE DEF A
  <2> QED
    BY <1>1 DEF find_next, Value, A
<1>3. (v = u % R <=> u % R \in B) /\ (u % R \in B => A # {})
  BY ValueFacts
<1> HIDE DEF A, n, v
<1> QED
  BY <1>2, <1>3 DEF Finds, n, v, A

\* Nothing is reset but what is in R.
LEMMA ResetNone ==
    ASSUME NEW x \in Nat
    PROVE  reset_all_min(Calendar[x], {}) = Calendar[x]
<1>1. reset_all_min(Calendar[x], {}) = Calendar[MomentOf(Da(x), Ho(x) % Hours, Mi(x) % Min60, x % Sec)]
  BY ResetTime, {} \in SUBSET Lower
<1> QED
  BY <1>1, Parts DEF MomentOf

LEMMA FindSecond ==
    ASSUME BitSets, NEW t \in Nat, cal = Calendar[t]
    PROVE  LET n == find_next("sec", "min", {})
           IN  /\ n.cal = Calendar[NextIn(t, Sec, expr.sec)]
               /\ n.value = Value(t, Sec, expr.sec)
<1> DEFINE n == find_next("sec", "min", {})
           v == Value(t, Sec, expr.sec)
           A == Ahead(t, Sec, expr.sec)
<1>0. /\ Sec \in Nat \ {0} /\ expr["sec"] \in SUBSET (0 .. Sec - 1) /\ expr["sec"] # {}
      /\ cal["sec"] = t % Sec
  BY Lengths, CalendarFields DEF BitSets
<1>1. /\ n.value = v
      /\ t % Sec \in expr.sec => n.cal = cal
      /\ t % Sec \notin expr.sec /\ A # {} => n.cal = reset_all_min(set_field(cal, "sec", v), {})
      /\ A = {} => n.cal = reset_all_min(
                            set_field(reset_min(add_to_field(cal, "min"), "sec"), "sec", v), {})
  <2>1. Finds("sec", "min", {}, t, Sec, expr["sec"])
    BY <1>0, FindNext
  <2> QED
    BY <2>1 DEF Finds
<1>2. /\ v \in 0 .. Sec - 1 /\ v \in Nat
      /\ A # {} => NextIn(t, Sec, expr.sec) = Mi(t) * Sec + v
      /\ A = {} => NextIn(t, Sec, expr.sec) = (Mi(t) + 1) * Sec + v
      /\ t % Sec \in expr.sec => NextIn(t, Sec, expr.sec) = t
  BY <1>0, ValueFacts DEF Mi
<1> HIDE DEF n, v, A
<1>3. Mi(t) \in Nat /\ Ho(t) \in Nat
  BY Parts
<1>4. CASE A # {}
  <2>1. set_field(cal, "sec", v) = Calendar[Mi(t) * Sec + v]
    BY <1>2, PutSecond DEF set_field
  <2>2. Mi(t) * Sec + v \in Nat
    BY <1>2, <1>3, FromMinute
  <2>3. reset_all_min(Calendar[Mi(t) * Sec + v], {}) = Calendar[Mi(t) * Sec + v]
    BY <2>2, ResetNone
  <2> QED
    BY <1>1, <1>2, <1>4, <2>1, <2>3 DEF n, v
<1>5. CASE A = {}
  <2>1. add_to_field(cal, "min") = Calendar[(Mi(t) + 1) * Sec + (t % Sec)]
    <3>1. Calendar[t].min = Mi(t) % Min60 /\ Mi(t) % Min60 \in Nat
      <4>1. Mi(t) % Min60 \in 0 .. Min60 - 1 /\ Min60 \in Nat
        BY Parts, Lengths
      <4>2. Mi(t) % Min60 \in Nat
        BY <4>1
      <4> QED
        BY <4>2, CalendarFields
    <3>2. mktime[[Calendar[t] EXCEPT !.min = @ + 1]]
             = Calendar[(Ho(t) * Min60 + ((Mi(t) % Min60) + 1)) * Sec + (t % Sec)]
      BY <3>1, PutMinute, (Mi(t) % Min60) + 1 \in Nat
    <3>3. Ho(t) * Min60 + ((Mi(t) % Min60) + 1) = Mi(t) + 1
      <4>1. Mi(t) = Ho(t) * Min60 + (Mi(t) % Min60) /\ Ho(t) * Min60 \in Nat
        BY Parts, TimesNext, Lengths
      <4> QED
        BY <1>3, <3>1, <4>1
    <3> QED
      BY <3>2, <3>3 DEF add_to_field
  <2> DEFINE x == (Mi(t) + 1) * Sec + (t % Sec)
  <2>2. x \in Nat /\ Mi(x) = Mi(t) + 1
    <3>1. Mi(t) + 1 \in Nat /\ t % Sec \in 0 .. Sec - 1
      <4>1. t % Sec \in 0 .. Sec - 1
        BY Parts
      <4> QED
        BY <1>3, <4>1
    <3> QED
      BY <3>1, FromMinute
  <2> HIDE DEF x
  <2>3. reset_min(Calendar[x], "sec") = Calendar[Mi(x) * Sec + 0]
    BY <2>2, PutSecond DEF reset_min, set_field
  <2> DEFINE y == Mi(x) * Sec + 0
  <2>4. y \in Nat /\ Mi(y) = Mi(t) + 1
    <3>1. 0 \in 0 .. Sec - 1 /\ Mi(x) \in Nat
      BY <1>0, <1>3, <2>2
    <3> QED
      BY <2>2, <3>1, FromMinute
  <2> HIDE DEF y
  <2>5. set_field(Calendar[y], "sec", v) = Calendar[(Mi(t) + 1) * Sec + v]
    BY <1>2, <2>4, PutSecond DEF set_field
  <2>6. (Mi(t) + 1) * Sec + v \in Nat
    BY <1>2, <1>3, FromMinute, Mi(t) + 1 \in Nat
  <2>7. reset_all_min(Calendar[(Mi(t) + 1) * Sec + v], {}) = Calendar[(Mi(t) + 1) * Sec + v]
    BY <2>6, ResetNone
  <2>8. t % Sec \notin expr.sec
    BY <1>0, <1>5, ValueFacts DEF A
  <2> QED
    BY <1>1, <1>2, <1>5, <2>1, <2>3, <2>5, <2>7, <2>8 DEF n, v, x, y
<1> QED
  BY <1>4, <1>5

LEMMA FindMinute ==
    ASSUME BitSets, NEW t \in Nat, cal = Calendar[t], NEW R
    PROVE  LET n == find_next("min", "hour", R)
           IN  /\ n.value = Value(Mi(t), Min60, expr.min)
               /\ Mi(t) % Min60 \in expr.min => n.cal = cal
               /\ Mi(t) % Min60 \notin expr.min =>
                     n.cal = reset_all_min(
                               Calendar[NextIn(Mi(t), Min60, expr.min) * Sec + (t % Sec)], R)
<1> DEFINE n == find_next("min", "hour", R)
           v == Value(Mi(t), Min60, expr.min)
           A == Ahead(Mi(t), Min60, expr.min)
<1>0. /\ Min60 \in Nat \ {0} /\ expr["min"] \in SUBSET (0 .. Min60 - 1) /\ expr["min"] # {}
      /\ cal["min"] = Mi(t) % Min60 /\ Mi(t) \in Nat
  BY Lengths, CalendarFields, Parts DEF BitSets
<1>1. /\ n.value = v
      /\ Mi(t) % Min60 \in expr.min => n.cal = cal
      /\ Mi(t) % Min60 \notin expr.min /\ A # {} => n.cal = reset_all_min(set_field(cal, "min", v), R)
      /\ A = {} => n.cal = reset_all_min(
                            set_field(reset_min(add_to_field(cal, "hour"), "min"), "min", v), R)
  <2>1. Finds("min", "hour", R, Mi(t), Min60, expr["min"])
    BY <1>0, FindNext
  <2> QED
    BY <2>1 DEF Finds
<1>2. /\ v \in 0 .. Min60 - 1 /\ v \in Nat
      /\ A # {} => NextIn(Mi(t), Min60, expr.min) = Ho(t) * Min60 + v
      /\ A = {} => NextIn(Mi(t), Min60, expr.min) = (Ho(t) + 1) * Min60 + v
      /\ Mi(t) % Min60 \in expr.min => A # {}
  BY <1>0, ValueFacts DEF Ho
<1> HIDE DEF n, v, A
<1>3. Ho(t) \in Nat /\ Da(t) \in Nat /\ t % Sec \in 0 .. Sec - 1
  BY Parts
<1>4. CASE A # {}
  <2>1. set_field(cal, "min", v) = Calendar[(Ho(t) * Min60 + v) * Sec + (t % Sec)]
    BY <1>2, PutMinute DEF set_field
  <2> QED
    BY <1>1, <1>2, <1>4, <2>1 DEF n, v
<1>5. CASE A = {}
  <2>1. add_to_field(cal, "hour")
           = Calendar[MomentOf(Da(t), (Ho(t) % Hours) + 1, Mi(t) % Min60, t % Sec)]
    <3>1. Calendar[t].hour = Ho(t) % Hours
      BY CalendarFields
    <3>2. (Ho(t) % Hours) + 1 \in Nat
      <4>1. Ho(t) % Hours \in 0 .. Hours - 1 /\ Hours \in Nat
        BY Parts, Lengths
      <4> QED
        BY <4>1
    <3> QED
      BY <3>1, <3>2, PutHour DEF add_to_field
  <2> DEFINE x == ((Ho(t) + 1) * Min60 + (Mi(t) % Min60)) * Sec + (t % Sec)
  <2>2. MomentOf(Da(t), (Ho(t) % Hours) + 1, Mi(t) % Min60, t % Sec) = x
    <3>1. Da(t) * Hours + ((Ho(t) % Hours) + 1) = Ho(t) + 1
      <4>1. /\ Ho(t) = Da(t) * Hours + (Ho(t) % Hours) /\ Da(t) * Hours \in Nat
        BY <1>3, Parts, TimesNext, Lengths
      <4>2. Ho(t) % Hours \in 0 .. Hours - 1 /\ Hours \in Nat
        BY Parts, Lengths
      <4> QED
        BY <1>3, <4>1, <4>2
    <3> QED
      BY <3>1 DEF MomentOf
  <2>3. x \in Nat /\ Ho(x) = Ho(t) + 1 /\ x % Sec = t % Sec
    <3>1. Ho(t) + 1 \in Nat /\ Mi(t) % Min60 \in 0 .. Min60 - 1
      <4>1. Mi(t) % Min60 \in 0 .. Min60 - 1
        BY Parts
      <4> QED
        BY <1>3, <4>1
    <3> QED
      BY <1>3, <3>1, FromHour
  <2> HIDE DEF x
  <2> DEFINE y == (Ho(x) * Min60 + 0) * Sec + (x % Sec)
  <2>4. reset_min(Calendar[x], "min") = Calendar[y]
    BY <2>3, PutMinute DEF reset_min, set_field
  <2>5. y \in Nat /\ Ho(y) = Ho(t) + 1 /\ y % Sec = t % Sec
    <3>1. Ho(x) \in Nat /\ 0 \in 0 .. Min60 - 1 /\ x % Sec \in 0 .. Sec - 1
      BY <1>0, <1>3, <2>3
    <3> QED
      BY <2>3, <3>1, FromHour
  <2> HIDE DEF y
  <2>6. set_field(Calendar[y], "min", v) = Calendar[((Ho(t) + 1) * Min60 + v) * Sec + (t % Sec)]
    BY <1>2, <2>5, PutMinute DEF set_field
  <2> QED
    BY <1>1, <1>2, <1>5, <2>1, <2>2, <2>4, <2>6 DEF n, v
<1> QED
  BY <1>4, <1>5

LEMMA FindHour ==
    ASSUME BitSets, NEW t \in Nat, cal = Calendar[t], NEW R
    PROVE  LET n == find_next("hour", "mday", R)
               h == NextIn(Ho(t), Hours, expr.hour)
           IN  /\ n.value = Value(Ho(t), Hours, expr.hour)
               /\ Ho(t) % Hours \in expr.hour => n.cal = cal
               /\ Ho(t) % Hours \notin expr.hour =>
                     n.cal = reset_all_min(
                               Calendar[(h * Min60 + (Mi(t) % Min60)) * Sec + (t % Sec)], R)
<1> DEFINE n == find_next("hour", "mday", R)
           v == Value(Ho(t), Hours, expr.hour)
           A == Ahead(Ho(t), Hours, expr.hour)
<1>0. /\ Hours \in Nat \ {0} /\ expr["hour"] \in SUBSET (0 .. Hours - 1) /\ expr["hour"] # {}
      /\ cal["hour"] = Ho(t) % Hours /\ Ho(t) \in Nat
  BY Lengths, CalendarFields, Parts DEF BitSets
<1>1. /\ n.value = v
      /\ Ho(t) % Hours \in expr.hour => n.cal = cal
      /\ Ho(t) % Hours \notin expr.hour /\ A # {} =>
            n.cal = reset_all_min(set_field(cal, "hour", v), R)
      /\ A = {} => n.cal = reset_all_min(
                            set_field(reset_min(add_to_field(cal, "mday"), "hour"), "hour", v), R)
  <2>1. Finds("hour", "mday", R, Ho(t), Hours, expr["hour"])
    BY <1>0, FindNext
  <2> QED
    BY <2>1 DEF Finds
<1>2. /\ v \in 0 .. Hours - 1 /\ v \in Nat
      /\ A # {} => NextIn(Ho(t), Hours, expr.hour) = Da(t) * Hours + v
      /\ A = {} => NextIn(Ho(t), Hours, expr.hour) = (Da(t) + 1) * Hours + v
      /\ Ho(t) % Hours \in expr.hour => A # {}
  BY <1>0, ValueFacts DEF Da
<1> HIDE DEF n, v, A
<1>3. /\ Da(t) \in Nat /\ t % Sec \in 0 .. Sec - 1 /\ Mi(t) % Min60 \in 0 .. Min60 - 1
      /\ Ho(t) % Hours \in 0 .. Hours - 1
  BY Parts
<1>4. CASE A # {}
  <2>1. set_field(cal, "hour", v) = Calendar[MomentOf(Da(t), v, Mi(t) % Min60, t % Sec)]
    BY <1>2, PutHour DEF set_field
  <2> QED
    BY <1>1, <1>2, <1>4, <2>1 DEF n, v, MomentOf
<1>5. CASE A = {}
  <2> DEFINE x == MomentOf(Da(t) + 1, Ho(t) % Hours, Mi(t) % Min60, t % Sec)
  <2>1. add_to_field(cal, "mday") = Calendar[x]
    <3> DEFINE c == Calendar[t]
               e == [c EXCEPT !.mday = @ + 1]
    <3>1. /\ c \in Broken /\ c.mday = Da(t) - FirstDay(Mo(t)) + 1 /\ FirstDay(Mo(t)) \in Nat
          /\ c.year * Months + c.mon = Mo(t)
      BY CalendarFields
    <3>2. e \in Broken /\ e.mday = c.mday + 1 /\ e.year = c.year /\ e.mon = c.mon
          /\ e.hour = c.hour /\ e.min = c.min /\ e.sec = c.sec
      <4> HIDE DEF c
      <4> QED
        BY <3>1 DEF Broken
    <3> HIDE DEF e
    <3>3. mktime[e] = Calendar[MomentOf(FirstDay(e.year * Months + e.mon) + e.mday - 1, Ho(t) % Hours,
                                  Mi(t) % Min60, t % Sec)]
      BY <3>2, PutDay
    <3>4. FirstDay(e.year * Months + e.mon) + e.mday - 1 = Da(t) + 1
      <4> HIDE DEF c
      <4> QED
        BY <1>3, <3>1, <3>2
    <3> QED
      BY <3>3, <3>4 DEF add_to_field, e
  <2>2. x \in Nat /\ Da(x) = Da(t) + 1 /\ Mi(x) % Min60 = Mi(t) % Min60 /\ x % Sec = t % Sec
    <3>1. Da(t) + 1 \in Nat
      BY <1>3
    <3> QED
      BY <1>3, <3>1, FromDay
  <2> HIDE DEF x
  <2> DEFINE y == MomentOf(Da(x), 0, Mi(x) % Min60, x % Sec)
  <2>3. reset_min(Calendar[x], "hour") = Calendar[y]
    BY <2>2, PutHour DEF reset_min, set_field
  <2>4. y \in Nat /\ Da(y) = Da(t) + 1 /\ Mi(y) % Min60 = Mi(t) % Min60 /\ y % Sec = t % Sec
    <3>1. Da(x) \in Nat /\ 0 \in 0 .. Hours - 1
      BY <1>0, <1>3, <2>2
    <3> QED
      BY <1>3, <2>2, <3>1, FromDay
  <2> HIDE DEF y
  <2>5. set_field(Calendar[y], "hour", v) = Calendar[MomentOf(Da(t) + 1, v, Mi(t) % Min60, t % Sec)]
    BY <1>2, <2>4, PutHour DEF set_field
  <2> QED
    BY <1>1, <1>2, <1>5, <2>1, <2>3, <2>5 DEF n, v, MomentOf
<1> QED
  BY <1>4, <1>5

\* The same day and time of another month, or of a later one if it has no such day.
LEMMA MoveMonth ==
    ASSUME NEW t \in Nat, NEW y \in Nat, NEW m \in Nat, NEW e,
           \/ e = [Calendar[t] EXCEPT !.mon = m] /\ y = Calendar[t].year
           \/ e = [Calendar[t] EXCEPT !.year = y] /\ m = Calendar[t].mon
    PROVE  \E x \in Nat : /\ mktime[e] = Calendar[x] /\ x % Sec = t % Sec
                          /\ y * Months + m \in Nat
                          /\ FirstDay(y * Months + m) \in Nat
                          /\ Da(x) = FirstDay(y * Months + m) + (Calendar[t].mday - 1)
<1> DEFINE c == Calendar[t]
           d == FirstDay(y * Months + m) + (c.mday - 1)
           x == MomentOf(d, Ho(t) % Hours, Mi(t) % Min60, t % Sec)
<1>1. /\ c \in Broken /\ c.mday = Da(t) - FirstDay(Mo(t)) + 1
      /\ FirstDay(Mo(t)) \in Nat /\ FirstDay(Mo(t)) <= Da(t)
  BY CalendarFields
<1>2. /\ Ho(t) % Hours \in 0 .. Hours - 1 /\ Mi(t) % Min60 \in 0 .. Min60 - 1
      /\ t % Sec \in 0 .. Sec - 1 /\ Da(t) \in Nat
  BY Parts
<1>3. /\ e \in Broken /\ e.year = y /\ e.mon = m /\ e.mday = c.mday
      /\ e.hour = c.hour /\ e.min = c.min /\ e.sec = c.sec
  <2> HIDE DEF c
  <2>1. (e = [c EXCEPT !.mon = m] /\ y = c.year) \/ (e = [c EXCEPT !.year = y] /\ m = c.mon)
    BY DEF c
  <2> QED
    BY <1>1, <2>1 DEF Broken
<1>4. mktime[e] = Calendar[MomentOf(FirstDay(e.year * Months + e.mon) + e.mday - 1, Ho(t) % Hours,
                              Mi(t) % Min60, t % Sec)]
  BY <1>3, PutDay
<1>5. y * Months + m \in Nat /\ FirstDay(y * Months + m) \in Nat
  <2>1. y * Months \in Nat
    BY Lengths, TimesNext
  <2>2. y * Months + m \in Nat
    BY <2>1
  <2> QED
    BY <2>2, FirstDayStep
<1>6. c.mday - 1 \in Nat /\ c.mday \in Nat
  <2> HIDE DEF c
  <2> QED
    BY <1>1, <1>2
<1>7. d \in Nat /\ FirstDay(e.year * Months + e.mon) + e.mday - 1 = d
  <2> HIDE DEF c
  <2> QED
    BY <1>3, <1>5, <1>6
<1> HIDE DEF d
<1>8. x \in Nat /\ Da(x) = d /\ x % Sec = t % Sec
  BY <1>2, <1>7, FromDay
<1>9. mktime[e] = Calendar[x]
  BY <1>4, <1>7
<1> HIDE DEF x
<1> QED
  BY <1>5, <1>8, <1>9 DEF d, c

LEMMA FindMonth ==
    ASSUME BitSets, NEW t \in Nat, cal = Calendar[t], NEW R
    PROVE  LET n == find_next("mon", "year", R)
               k == NextIn(Mo(t), Months, expr.mon)
           IN  /\ n.value = Value(Mo(t), Months, expr.mon)
               /\ Mo(t) % Months \in expr.mon => n.cal = cal
               /\ Mo(t) % Months \notin expr.mon =>
                     \E x \in Nat : /\ n.cal = reset_all_min(Calendar[x], R)
                                    /\ x % Sec = t % Sec
                                    /\ FirstDay(k) <= Da(x)
                                    /\ Da(x) <= FirstDay(k) + (cal.mday - 1)
<1> DEFINE n == find_next("mon", "year", R)
           v == Value(Mo(t), Months, expr.mon)
           A == Ahead(Mo(t), Months, expr.mon)
           k == NextIn(Mo(t), Months, expr.mon)
           y == Mo(t) \div Months
<1>0. /\ Months \in Nat \ {0} /\ expr["mon"] \in SUBSET (0 .. Months - 1) /\ expr["mon"] # {}
      /\ cal["mon"] = Mo(t) % Months /\ Mo(t) \in Nat
  BY Lengths, CalendarFields, Parts DEF BitSets
<1>1. /\ n.value = v
      /\ Mo(t) % Months \in expr.mon => n.cal = cal
      /\ Mo(t) % Months \notin expr.mon /\ A # {} =>
            n.cal = reset_all_min(set_field(cal, "mon", v), R)
      /\ A = {} => n.cal = reset_all_min(
                            set_field(reset_min(add_to_field(cal, "year"), "mon"), "mon", v), R)
  <2>1. Finds("mon", "year", R, Mo(t), Months, expr["mon"])
    BY <1>0, FindNext
  <2> QED
    BY <2>1 DEF Finds
<1>2. /\ v \in 0 .. Months - 1 /\ v \in Nat
      /\ A # {} => k = y * Months + v
      /\ A = {} => k = (y + 1) * Months + v
      /\ Mo(t) % Months \in expr.mon => A # {}
  BY <1>0, ValueFacts
<1>3. /\ cal.year = y /\ y \in Nat /\ cal.mon = Mo(t) % Months /\ cal.mon \in 0 .. Months - 1
      /\ cal.mday = Da(t) - FirstDay(Mo(t)) + 1
      /\ FirstDay(Mo(t)) \in Nat /\ FirstDay(Mo(t)) <= Da(t) /\ Da(t) \in Nat
      /\ Da(t) < FirstDay(Mo(t)) + MonthLength(Mo(t))
      /\ MonthLength(Mo(t)) \in Nat /\ MonthLength(Mo(t)) <= MaxDayOfMonth
      /\ MaxDayOfMonth \in Nat
  BY CalendarFields, Parts, Lengths
<1> HIDE DEF n, v, A, k, y
<1>4. cal.mday - 1 \in Nat /\ cal.mday <= MaxDayOfMonth
  BY <1>3
<1>5. CASE A # {} /\ Mo(t) % Months \notin expr.mon
  <2>1. PICK x \in Nat : /\ set_field(cal, "mon", v) = Calendar[x] /\ x % Sec = t % Sec
                         /\ FirstDay(y * Months + v) \in Nat
                         /\ Da(x) = FirstDay(y * Months + v) + (cal.mday - 1)
    BY <1>2, <1>3, MoveMonth DEF set_field
  <2>2. FirstDay(k) <= Da(x) /\ Da(x) <= FirstDay(k) + (cal.mday - 1)
    BY <1>2, <1>4, <1>5, <2>1
  <2> QED
    BY <1>1, <1>5, <2>1, <2>2 DEF n, v, k
<1>6. CASE A = {}
  <2> DEFINE z == y + 1
             m == cal.mon
  <2>0. z \in Nat /\ m \in Nat /\ m <= Months - 1
    BY <1>0, <1>3
  <2>1. PICK x1 \in Nat : /\ add_to_field(cal, "year") = Calendar[x1] /\ x1 % Sec = t % Sec
                          /\ z * Months + m \in Nat
                          /\ FirstDay(z * Months + m) \in Nat
                          /\ Da(x1) = FirstDay(z * Months + m) + (cal.mday - 1)
    <3> HIDE DEF z, m
    <3>1. add_to_field(cal, "year") = mktime[[Calendar[t] EXCEPT !.year = z]]
      BY <1>3 DEF add_to_field, z
    <3>2. m = Calendar[t].mon
      BY DEF m
    <3> QED
      BY <2>0, <3>1, <3>2, MoveMonth
  <2> HIDE DEF z, m
  <2>2. /\ z * Months \in Nat /\ MonthLength(z * Months) = MaxDayOfMonth
        /\ MonthLength(z * Months + (Months - 1)) = MaxDayOfMonth
    BY <2>0, YearFacts
  \* The year is the next one, and the day no later in its month than before.
  <2> DEFINE k1 == Mo(x1)
             b1 == Calendar[x1].mday
  <2>3. /\ k1 \in Nat /\ b1 = Da(x1) - FirstDay(k1) + 1 /\ FirstDay(k1) \in Nat
        /\ FirstDay(k1) <= Da(x1) /\ Da(x1) \in Nat
        /\ Calendar[x1].year = k1 \div Months
    BY CalendarFields, Parts
  <2>4. z * Months + m <= k1
    <3>1. MonthOf(FirstDay(z * Months + m)) = z * Months + m
      <4>1. /\ FirstDay(z * Months + m) < FirstDay(z * Months + m) + MonthLength(z * Months + m)
        BY <2>1, MonthLengthType, Lengths
      <4> QED
        BY <2>1, <4>1, MonthOfUnique
    <3>2. FirstDay(z * Months + m) <= Da(x1)
      BY <1>4, <2>1
    <3> QED
      BY <2>1, <2>3, <3>1, <3>2, MonthOfMono DEF Mo
  <2>5. k1 <= z * Months + (Months - 1)
    <3> DEFINE l == z * Months + (Months - 1)
    <3>1. l \in Nat /\ z * Months + m <= l /\ MonthLength(l) = MaxDayOfMonth
      BY <1>0, <2>0, <2>2
    <3> HIDE DEF l
    <3>2. FirstDay(z * Months + m) <= FirstDay(l) /\ FirstDay(l) \in Nat
      <4>1. CASE z * Months + m = l
        BY <2>1, <4>1
      <4>2. CASE z * Months + m < l
        BY <2>1, <3>1, <4>2, FirstDayMono, FirstDayStep, MonthLengthType
      <4> QED
        BY <2>1, <3>1, <4>1, <4>2
    <3>3. Da(x1) < FirstDay(l) + MonthLength(l)
      BY <1>3, <1>4, <2>1, <3>1, <3>2
    <3>4. CASE k1 > l
      <4>1. FirstDay(l) + MonthLength(l) <= FirstDay(k1)
        BY <2>3, <3>1, <3>4, FirstDayMono
      <4> QED
        BY <1>3, <2>3, <3>1, <3>2, <3>3, <4>1
    <3> QED
      BY <2>3, <3>1, <3>4 DEF l
  <2>6. Calendar[x1].year = z
    <3> DEFINE r == k1 - z * Months
    <3>1. r \in 0 .. Months - 1 /\ k1 = z * Months + r
      BY <1>0, <2>0, <2>2, <2>3, <2>4, <2>5
    <3> HIDE DEF r, k1
    <3>2. k1 \div Months = z
      BY <1>0, <2>0, <3>1, DivisionUnique
    <3> QED
      BY <2>3, <3>2
  <2>7. b1 - 1 \in Nat /\ b1 - 1 <= cal.mday - 1
    <3>1. FirstDay(z * Months + m) <= FirstDay(k1)
      <4>1. CASE z * Months + m = k1
        BY <2>1, <4>1
      <4>2. CASE z * Months + m < k1
        BY <2>1, <2>3, <4>2, FirstDayMono, MonthLengthType
      <4> HIDE DEF k1
      <4> QED
        BY <2>1, <2>3, <2>4, <4>1, <4>2
    <3> HIDE DEF k1, b1
    <3> QED
      BY <1>4, <2>1, <2>3, <3>1
  <2> HIDE DEF k1
  <2>8. PICK x2 \in Nat : /\ reset_min(Calendar[x1], "mon") = Calendar[x2] /\ x2 % Sec = t % Sec
                          /\ FirstDay(z * Months + 0) \in Nat
                          /\ Da(x2) = FirstDay(z * Months + 0) + (b1 - 1)
    BY <2>0, <2>1, <2>6, MoveMonth DEF reset_min, set_field
  <2>9. Mo(x2) = z * Months
    <3> HIDE DEF b1
    <3>1. FirstDay(z * Months) \in Nat /\ Da(x2) = FirstDay(z * Months) + (b1 - 1)
      BY <2>2, <2>8
    <3>2. FirstDay(z * Months) <= Da(x2) /\ Da(x2) < FirstDay(z * Months) + MonthLength(z * Months)
      BY <1>3, <1>4, <2>2, <2>7, <3>1
    <3> QED
      BY <2>2, <3>2, MonthOfUnique, Parts DEF Mo
  <2>10. Calendar[x2].year = z /\ Calendar[x2].mday - 1 = b1 - 1
    <3>1. (z * Months + 0) \div Months = z
      <4>1. 0 \in 0 .. Months - 1
        BY <1>0
      <4> QED
        BY <1>0, <2>0, <4>1, DivisionUnique
    <3>2. z * Months + 0 = z * Months
      BY <2>2
    <3>3. /\ Calendar[x2].year = Mo(x2) \div Months
          /\ Calendar[x2].mday = Da(x2) - FirstDay(Mo(x2)) + 1
      BY CalendarFields
    <3>4. Calendar[x2].mday = (b1 - 1) + 1
      <4> HIDE DEF b1
      <4> DEFINE F == FirstDay(z * Months)
      <4>1. F \in Nat /\ Da(x2) = F + (b1 - 1)
        BY <2>8, <3>2
      <4>2. Calendar[x2].mday = Da(x2) - F + 1
        BY <2>9, <3>3
      <4> HIDE DEF F
      <4> QED
        BY <2>7, <4>1, <4>2
    <3> HIDE DEF b1
    <3> QED
      BY <2>7, <2>9, <3>1, <3>2, <3>3, <3>4
  <2>11. PICK x \in Nat : /\ set_field(Calendar[x2], "mon", v) = Calendar[x] /\ x % Sec = t % Sec
                          /\ FirstDay(z * Months + v) \in Nat
                          /\ Da(x) = FirstDay(z * Months + v) + (b1 - 1)
    BY <1>2, <2>0, <2>8, <2>10, MoveMonth DEF set_field
  <2>12. FirstDay(k) <= Da(x) /\ Da(x) <= FirstDay(k) + (cal.mday - 1)
    <3>1. k = z * Months + v
      BY <1>2, <1>6 DEF z
    <3> HIDE DEF b1
    <3> QED
      BY <1>4, <2>7, <2>11, <3>1
  <2>13. Mo(t) % Months \notin expr.mon
    BY <1>2, <1>6
  <2> QED
    BY <1>1, <1>6, <2>1, <2>8, <2>11, <2>12, <2>13 DEF n, v, k
<1> QED
  BY <1>1, <1>5, <1>6 DEF n, v, k
-----------------------------------------------------------------------------
(* find_next_day *)

LEMMA AddDays ==
    ASSUME NEW t \in Nat, NEW i \in Nat
    PROVE  LET x == MomentOf(Da(t) + i, Ho(t) % Hours, Mi(t) % Min60, t % Sec)
           IN  /\ mktime[[Calendar[t] EXCEPT !.mday = @ + i]] = Calendar[x]
               /\ x \in Nat /\ Da(x) = Da(t) + i /\ x % Sec = t % Sec
<1> DEFINE c == Calendar[t]
           e == [c EXCEPT !.mday = @ + i]
<1>1. /\ c \in Broken /\ c.mday = Da(t) - FirstDay(Mo(t)) + 1 /\ FirstDay(Mo(t)) \in Nat
      /\ c.year * Months + c.mon = Mo(t)
  BY CalendarFields
<1>2. e \in Broken /\ e.mday = c.mday + i /\ e.year = c.year /\ e.mon = c.mon
      /\ e.hour = c.hour /\ e.min = c.min /\ e.sec = c.sec
  <2> HIDE DEF c
  <2> QED
    BY <1>1 DEF Broken
<1> HIDE DEF e
<1>3. mktime[e] = Calendar[MomentOf(FirstDay(e.year * Months + e.mon) + e.mday - 1, Ho(t) % Hours,
                              Mi(t) % Min60, t % Sec)]
  BY <1>2, PutDay
<1>4. Da(t) \in Nat
  BY Parts
<1>5. FirstDay(e.year * Months + e.mon) + e.mday - 1 = Da(t) + i /\ Da(t) + i \in Nat
  <2> HIDE DEF c
  <2> QED
    BY <1>1, <1>2, <1>4
<1>6. /\ Ho(t) % Hours \in 0 .. Hours - 1 /\ Mi(t) % Min60 \in 0 .. Min60 - 1
      /\ t % Sec \in 0 .. Sec - 1
  BY Parts
<1> QED
  BY <1>3, <1>5, <1>6, FromDay DEF e

\* The texts that cron_next can search, as the step lemmas use them.
Searchable ==
    /\ BitSets
    /\ \A a, b \in expr.sec : a .. b \subseteq expr.sec
    /\ expr.mday = 1 .. MaxDayOfMonth \/ expr.wday = 0 .. Week - 1
    /\ expr.mon = 0 .. Months - 1 \/ \E d \in expr.mday : expr.mday = {d}

LEMMA MaxDaysBig == MaxDayOfMonth <= MaxDays /\ Week <= MaxDays /\ 0 < MaxDays
<1>1. /\ 0 * Months \in Nat /\ MonthLength(0 * Months) = MaxDayOfMonth
      /\ FirstDay(0 * Months + Months) <= FirstDay(0 * Months) + MaxDays
  BY YearFacts
<1>2. /\ Months \in Nat \ {0} /\ Week \in Nat \ {0} /\ MaxDays \in Nat /\ 0 * Months = 0
  BY Lengths
<1>3. FirstDay(0) + MonthLength(0) <= FirstDay(Months) /\ FirstDay(0) = 0
  BY <1>2, FirstDayMono, FirstDayStep
<1>4. FirstDay(Months) \in Nat /\ MonthLength(0) \in Nat /\ Week <= MonthLength(0)
  BY <1>2, FirstDayStep, MonthLengthType
<1>5. MonthLength(0) = MaxDayOfMonth /\ FirstDay(Months) <= 0 + MaxDays
  BY <1>1, <1>2, <1>3
<1> QED
  BY <1>2, <1>3, <1>4, <1>5

\* Within MaxDays days there is one that fits, within a week if any day of the
\* month will do.
LEMMA DayWithin ==
    ASSUME Searchable, NEW d \in Nat
    PROVE  /\ \E i \in Nat : i < MaxDays /\ DayOK(d + i)
           /\ expr.wday # 0 .. Week - 1 => \E i \in Nat : i < Week /\ DayOK(d + i)
<1>0. /\ Week \in Nat \ {0} /\ Months \in Nat \ {0} /\ MaxDays \in Nat /\ MaxDayOfMonth \in Nat
      /\ MaxDayOfMonth <= MaxDays /\ Week <= MaxDays
  BY Lengths, MaxDaysBig
<1>1. ASSUME NEW e \in Nat
      PROVE  e - FirstDay(MonthOf(e)) + 1 \in 1 .. MaxDayOfMonth /\ e % Week \in 0 .. Week - 1
  <2>1. /\ FirstDay(MonthOf(e)) \in Nat /\ FirstDay(MonthOf(e)) <= e
        /\ e < FirstDay(MonthOf(e)) + MonthLength(MonthOf(e))
        /\ MonthLength(MonthOf(e)) \in Nat /\ MonthLength(MonthOf(e)) <= MaxDayOfMonth
    BY MonthOfDay, FirstDayStep, MonthLengthType
  <2>2. e - FirstDay(MonthOf(e)) + 1 \in 1 .. MaxDayOfMonth
    BY <1>0, <2>1
  <2> QED
    BY <1>0, <2>2, Division
<1>2. CASE expr.mday = 1 .. MaxDayOfMonth
  <2> DEFINE e == NextIn(d, Week, expr.wday)
             i == e - d
  <2>1. e \in Nat /\ e >= d /\ e % Week \in expr.wday /\ e < d + Week
    BY <1>0, NextInFound, ValueFacts DEF Searchable, BitSets
  <2> HIDE DEF e
  <2>2. i \in Nat /\ i < Week /\ i < MaxDays /\ d + i = e
    BY <1>0, <2>1
  <2>3. DayOK(e)
    BY <1>1, <1>2, <2>1 DEF DayOK
  <2> HIDE DEF i
  <2> QED
    BY <2>2, <2>3
<1>3. CASE expr.wday = 0 .. Week - 1
  <2> DEFINE y == MonthOf(d) \div Months
             z == y + 1
             k == MonthOf(d)
  <2>1. PICK b \in expr.mday : b \in 1 .. MaxDayOfMonth
    BY DEF Searchable, BitSets
  <2>2. /\ k \in Nat /\ FirstDay(k) <= d /\ d < FirstDay(k) + MonthLength(k)
        /\ MonthLength(k) \in Nat /\ FirstDay(k) \in Nat
    BY MonthOfDay, FirstDayStep, MonthLengthType
  <2>3. k = y * Months + (k % Months) /\ y \in Nat /\ k % Months \in 0 .. Months - 1
    BY <1>0, <2>2, Division
  <2> HIDE DEF y, k
  <2>4. /\ y * Months \in Nat /\ MonthLength(y * Months) = MaxDayOfMonth
        /\ FirstDay(y * Months + Months) <= FirstDay(y * Months) + MaxDays
    BY <2>3, YearFacts
  <2>5. z \in Nat /\ z * Months = y * Months + Months
    BY <1>0, <2>3, TimesNext
  <2> HIDE DEF z
  <2>6. z * Months \in Nat /\ MonthLength(z * Months) = MaxDayOfMonth
    BY <2>5, YearFacts
  <2>7. FirstDay(y * Months) \in Nat /\ FirstDay(z * Months) \in Nat
    BY <2>4, <2>6, FirstDayStep
  <2>8. FirstDay(y * Months) <= d
    <3>1. CASE k = y * Months
      BY <2>2, <3>1
    <3>2. CASE k > y * Months
      <4>1. FirstDay(y * Months) + MonthLength(y * Months) <= FirstDay(k)
        BY <2>2, <2>4, <3>2, FirstDayMono
      <4> QED
        BY <1>0, <2>2, <2>4, <2>7, <4>1
    <3>3. k >= y * Months
      <4> DEFINE p == k % Months
                 q == y * Months
      <4>1. k = q + p /\ p \in Nat /\ q \in Nat
        BY <1>0, <2>3, <2>4
      <4> HIDE DEF p, q
      <4>2. k >= q
        BY <4>1
      <4> QED
        BY <4>2 DEF q
    <3> QED
      BY <2>2, <2>4, <3>1, <3>2, <3>3
  <2>9. d < FirstDay(z * Months)
    <3>1. k < z * Months
      <4> DEFINE p == k % Months
                 q == y * Months
      <4>1. k = q + p /\ p \in 0 .. Months - 1 /\ q \in Nat /\ z * Months = q + Months
        BY <1>0, <2>3, <2>4, <2>5
      <4> HIDE DEF p, q
      <4> QED
        BY <1>0, <4>1
    <3>2. FirstDay(k) + MonthLength(k) <= FirstDay(z * Months)
      BY <2>2, <2>6, <3>1, FirstDayMono
    <3> QED
      BY <2>2, <2>7, <3>2
  \* Day b of a month of full length is day b.
  <2>10. ASSUME NEW m \in Nat, MonthLength(m) = MaxDayOfMonth
         PROVE  DayOK(FirstDay(m) + (b - 1)) /\ FirstDay(m) \in Nat
    <3> DEFINE e == FirstDay(m) + (b - 1)
    <3>1. FirstDay(m) \in Nat
      BY FirstDayStep
    <3>2. /\ e \in Nat /\ FirstDay(m) <= e /\ e < FirstDay(m) + MonthLength(m)
          /\ e - FirstDay(m) + 1 = b
      BY <1>0, <2>1, <2>10, <3>1
    <3> HIDE DEF e
    <3>3. MonthOf(e) = m
      BY <3>2, MonthOfUnique
    <3>4. DayOK(e)
      BY <1>1, <1>3, <2>1, <3>2, <3>3 DEF DayOK
    <3> QED
      BY <3>1, <3>4 DEF e
  <2>11. CASE d <= FirstDay(y * Months) + (b - 1)
    <3> DEFINE i == FirstDay(y * Months) + (b - 1) - d
    <3>1. i \in Nat /\ i < MaxDays /\ d + i = FirstDay(y * Months) + (b - 1)
      BY <1>0, <2>1, <2>7, <2>8, <2>11
    <3>2. DayOK(d + i)
      BY <2>4, <2>10, <3>1
    <3> HIDE DEF i
    <3> QED
      BY <1>3, <3>1, <3>2
  <2>12. CASE d > FirstDay(y * Months) + (b - 1)
    <3> DEFINE i == FirstDay(z * Months) + (b - 1) - d
    <3>1. FirstDay(z * Months) <= FirstDay(y * Months) + MaxDays
      BY <2>4, <2>5
    <3>2. i \in Nat /\ i < MaxDays /\ d + i = FirstDay(z * Months) + (b - 1)
      BY <1>0, <2>1, <2>7, <2>9, <2>12, <3>1
    <3>3. DayOK(d + i)
      BY <2>6, <2>10, <3>2
    <3> HIDE DEF i
    <3> QED
      BY <1>3, <3>2, <3>3
  <2> QED
    BY <2>1, <2>7, <2>11, <2>12
<1> QED
  BY <1>2, <1>3 DEF Searchable

LEMMA FindDay ==
    ASSUME Searchable, NEW t \in Nat, cal = Calendar[t],
           DayOK(Da(t)) \/ resets \in SUBSET {"sec", "min", "hour"}
    PROVE  /\ DayOK(Da(t)) => find_next_day.cal = cal /\ find_next_day.value = cal.mday
           /\ ~DayOK(Da(t)) =>
                /\ find_next_day.value # cal.mday
                /\ \E x \in Nat : /\ find_next_day.cal = reset_all_min(Calendar[x], resets)
                                  /\ Da(t) < Da(x) /\ x % Sec = t % Sec
                                  /\ \A d \in Nat : Da(t) <= d /\ d < Da(x) => ~DayOK(d)
<1> DEFINE after == [n \in 0 .. MaxDays |-> mktime[[cal EXCEPT !.mday = @ + n]]]
           fits(n) == after[n].mday \in expr.mday /\ Wday(after[n]) \in expr.wday
           S == {i \in 0 .. MaxDays - 1 : fits(i)} \cup {MaxDays}
           n == Min(S)
           end == IF n = 0 THEN cal ELSE reset_all_min(after[n], resets)
           X(i) == MomentOf(Da(t) + i, Ho(t) % Hours, Mi(t) % Min60, t % Sec)
<1>0. MaxDays \in Nat /\ 0 < MaxDays /\ Week <= MaxDays /\ Week \in Nat \ {0} /\ Da(t) \in Nat
  BY MaxDaysBig, Lengths, Parts
<1>1. find_next_day = [value |-> end.mday, cal |-> end]
  BY DEF find_next_day
<1>2. ASSUME NEW i \in 0 .. MaxDays
      PROVE  /\ after[i] = Calendar[X(i)] /\ X(i) \in Nat /\ Da(X(i)) = Da(t) + i
             /\ X(i) % Sec = t % Sec
             /\ fits(i) <=> DayOK(Da(t) + i)
  <2>1. i \in Nat
    BY <1>0
  <2>2. /\ mktime[[Calendar[t] EXCEPT !.mday = @ + i]] = Calendar[X(i)]
        /\ X(i) \in Nat /\ Da(X(i)) = Da(t) + i /\ X(i) % Sec = t % Sec
    BY <2>1, AddDays
  <2>3. after[i] = Calendar[X(i)]
    BY <2>2
  <2> HIDE DEF after, X
  <2>4. DayFits(Calendar[X(i)]) <=> DayOK(Da(t) + i)
    BY <2>2, FitsParts
  <2> QED
    BY <2>2, <2>3, <2>4 DEF DayFits
<1> HIDE DEF after, fits, X
<1>3. S \in SUBSET Nat /\ S # {}
  BY <1>0
<1>4. n \in S /\ \A k \in S : n <= k
  BY <1>3, MinIsLeast
<1>5. PICK j \in Nat : /\ j < MaxDays /\ DayOK(Da(t) + j)
                       /\ expr.wday # 0 .. Week - 1 => j < Week
  <2>1. /\ \E i \in Nat : i < MaxDays /\ DayOK(Da(t) + i)
        /\ expr.wday # 0 .. Week - 1 => \E i \in Nat : i < Week /\ DayOK(Da(t) + i)
    BY <1>0, DayWithin
  <2> QED
    BY <1>0, <2>1
<1>6. j \in S /\ j \in 0 .. MaxDays
  <2>1. j \in 0 .. MaxDays - 1 /\ j \in 0 .. MaxDays
    BY <1>0, <1>5
  <2>2. fits(j)
    BY <1>2, <1>5, <2>1
  <2> QED
    BY <2>1, <2>2
<1> HIDE DEF n
<1>7. /\ n \in 0 .. MaxDays - 1 /\ n \in 0 .. MaxDays /\ n \in Nat /\ n <= j /\ fits(n)
      /\ \A i \in 0 .. MaxDays - 1 : fits(i) => n <= i
  <2>1. n \in Nat /\ n <= j /\ n # MaxDays
    BY <1>0, <1>3, <1>4, <1>5, <1>6
  <2>2. n \in {i \in 0 .. MaxDays - 1 : fits(i)}
    BY <1>4, <2>1
  <2>3. n \in 0 .. MaxDays - 1 /\ fits(n)
    BY <2>2
  <2>4. n \in 0 .. MaxDays
    BY <1>0, <2>3
  <2> HIDE DEF end
  <2> QED
    BY <1>4, <2>1, <2>3, <2>4
<1>8. DayOK(Da(t) + n) /\ Da(X(n)) = Da(t) + n /\ X(n) \in Nat /\ X(n) % Sec = t % Sec
      /\ after[n] = Calendar[X(n)]
  BY <1>2, <1>7
<1>9. ASSUME NEW d \in Nat, Da(t) <= d, d < Da(t) + n  PROVE ~DayOK(d)
  <2> DEFINE i == d - Da(t)
  <2>1. i \in 0 .. MaxDays - 1 /\ i \in 0 .. MaxDays /\ Da(t) + i = d /\ i < n
    BY <1>0, <1>7, <1>9
  <2> HIDE DEF i
  <2>2. ~fits(i)
    BY <1>7, <2>1
  <2> QED
    BY <1>2, <2>1, <2>2
<1>10. CASE DayOK(Da(t))
  <2>1. n = 0
    <3>1. Da(t) <= Da(t) /\ (n # 0 => Da(t) < Da(t) + n)
      BY <1>0, <1>7
    <3> QED
      BY <1>0, <1>9, <1>10, <3>1
  <2> QED
    BY <1>1, <1>10, <2>1
<1>11. CASE ~DayOK(Da(t))
  <2> DEFINE x == X(n)
  <2>1. n # 0
    <3>1. n = 0 => Da(t) + n = Da(t)
      BY <1>0
    <3> QED
      BY <1>8, <1>11, <3>1
  <2>2. end = reset_all_min(Calendar[x], resets)
    BY <1>8, <2>1
  <2>3. Da(t) < Da(x)
    BY <1>0, <1>7, <1>8, <2>1
  <2>4. x \in Nat /\ Da(x) = Da(t) + n /\ x % Sec = t % Sec
    BY <1>8
  <2> HIDE DEF x, end
  <2>5. end.mday = Calendar[x].mday
    <3>1. Calendar[x] \in Broken /\ "mday" \notin resets
      BY <1>11, <2>4, CalendarFields
    <3>2. DOMAIN Calendar[x] = {"year", "mon", "mday", "hour", "min", "sec"}
      BY <3>1 DEF Broken
    <3> QED
      BY <2>2, <3>1, <3>2 DEF reset_all_min
  <2>6. /\ Calendar[x].mday = Da(x) - FirstDay(Mo(x)) + 1
        /\ FirstDay(Mo(x)) \in Nat /\ FirstDay(Mo(x)) <= Da(x)
        /\ cal.mday = Da(t) - FirstDay(Mo(t)) + 1
        /\ FirstDay(Mo(t)) \in Nat /\ FirstDay(Mo(t)) <= Da(t)
        /\ Da(t) < FirstDay(Mo(t)) + MonthLength(Mo(t))
        /\ MonthLength(Mo(t)) \in Nat /\ Week <= MonthLength(Mo(t))
        /\ Mo(t) \in Nat /\ Mo(x) \in Nat /\ Mo(t) <= Mo(x)
    <3>1. Mo(t) <= Mo(x)
      BY <1>0, <2>3, <2>4, MonthOfMono, Parts DEF Mo
    <3>2. Mo(t) \in Nat /\ Mo(x) \in Nat /\ Week <= MonthLength(Mo(t))
      BY <2>4, Parts, MonthLengthType
    <3> QED
      BY <2>4, <3>1, <3>2, CalendarFields
  <2>7. Calendar[x].mday # cal.mday
    <3>1. CASE expr.wday = 0 .. Week - 1
      <4>1. \A d \in Nat : d % Week \in expr.wday
        BY <1>0, <3>1, Division
      <4>2. Calendar[x].mday \in expr.mday
        BY <1>8, <2>4, <2>6 DEF DayOK, Mo
      <4>3. cal.mday \notin expr.mday
        BY <1>0, <1>11, <2>6, <4>1 DEF DayOK, Mo
      <4> QED
        BY <4>2, <4>3
    <3>2. CASE expr.wday # 0 .. Week - 1
      <4>1. n < Week /\ n > 0
        BY <1>0, <1>5, <1>7, <2>1, <3>2
      <4>2. CASE Mo(x) = Mo(t)
        BY <1>0, <1>7, <2>1, <2>4, <2>6, <4>2
      <4>3. CASE Mo(t) < Mo(x)
        <5>1. FirstDay(Mo(t)) + MonthLength(Mo(t)) <= FirstDay(Mo(x))
          BY <2>6, <4>3, FirstDayMono
        <5> HIDE DEF Searchable
        <5> DEFINE a == Calendar[x].mday
                   b == cal.mday
                   F == FirstDay(Mo(t))
                   G == FirstDay(Mo(x))
                   L == MonthLength(Mo(t))
                   D == Da(t)
        <5>2. /\ a = D + n - G + 1 /\ b = D - F + 1 /\ F + L <= G /\ n < L
              /\ D \in Nat /\ F \in Nat /\ G \in Nat /\ L \in Nat /\ n \in Nat
          BY <1>0, <1>7, <2>4, <2>6, <4>1, <5>1
        <5> HIDE DEF a, b, F, G, L, D
        <5>3. a # b
          BY <5>2
        <5> QED
          BY <5>3 DEF a, b
      <4> QED
        BY <2>6, <4>2, <4>3
    <3> QED
      BY <3>1, <3>2
  <2>8. find_next_day.value # cal.mday /\ find_next_day.cal = reset_all_min(Calendar[x], resets)
    BY <1>1, <2>2, <2>5, <2>7
  <2>9. \A d \in Nat : Da(t) <= d /\ d < Da(x) => ~DayOK(d)
    BY <1>9, <2>4
  <2> QED
    BY <1>11, <2>3, <2>4, <2>8, <2>9
<1> QED
  BY <1>10, <1>11
-----------------------------------------------------------------------------
(* Steps of the search: no instant that is passed over fits. *)

LEMMA ResetAt ==
    ASSUME NEW x \in Nat, NEW R \in SUBSET Lower
    PROVE  \E u \in Nat :
             /\ reset_all_min(Calendar[x], R) = Calendar[u]
             /\ u % Sec = IF "sec" \in R THEN 0 ELSE x % Sec
             /\ Mo(u) = Mo(x)
             /\ Da(u) = IF "mday" \in R THEN FirstDay(Mo(x)) ELSE Da(x)
             /\ "hour" \in R => Ho(u) % Hours = 0
             /\ "min" \in R => Mi(u) % Min60 = 0
             /\ "hour" \notin R /\ "mday" \notin R => Ho(u) = Ho(x)
             /\ "min" \notin R /\ "hour" \notin R /\ "mday" \notin R => Mi(u) = Mi(x)
<1> DEFINE d == IF "mday" \in R THEN FirstDay(Mo(x)) ELSE Da(x)
           h == IF "hour" \in R THEN 0 ELSE Ho(x) % Hours
           m == IF "min" \in R THEN 0 ELSE Mi(x) % Min60
           s == IF "sec" \in R THEN 0 ELSE x % Sec
           u == MomentOf(d, h, m, s)
<1>1. /\ reset_all_min(Calendar[x], R) = Calendar[u]
      /\ d \in Nat /\ h \in 0 .. Hours - 1 /\ m \in 0 .. Min60 - 1 /\ s \in 0 .. Sec - 1
      /\ MonthOf(d) = Mo(x)
  BY ResetTime
<1> HIDE DEF d, h, m, s
<1>2. /\ u \in Nat /\ u % Sec = s /\ Mi(u) % Min60 = m /\ Ho(u) % Hours = h
      /\ Ho(u) = d * Hours + h /\ Da(u) = d
  BY <1>1, FromDay
<1>3. Mo(u) = Mo(x)
  BY <1>1, <1>2 DEF Mo
<1>4. Mi(u) = Ho(u) * Min60 + m
  BY <1>2, Parts
<1>5. Ho(x) = Da(x) * Hours + (Ho(x) % Hours) /\ Mi(x) = Ho(x) * Min60 + (Mi(x) % Min60)
  BY Parts
<1> HIDE DEF u
<1>6. "hour" \notin R /\ "mday" \notin R => Ho(u) = Ho(x)
  BY <1>2, <1>5 DEF d, h
<1>7. "min" \notin R /\ "hour" \notin R /\ "mday" \notin R => Mi(u) = Mi(x)
  BY <1>4, <1>5, <1>6 DEF m
<1>8. /\ u % Sec = IF "sec" \in R THEN 0 ELSE x % Sec
      /\ Da(u) = IF "mday" \in R THEN FirstDay(Mo(x)) ELSE Da(x)
      /\ "hour" \in R => Ho(u) % Hours = 0
      /\ "min" \in R => Mi(u) % Min60 = 0
  BY <1>2 DEF d, h, m, s
<1> QED
  BY <1>1, <1>2, <1>3, <1>6, <1>7, <1>8 DEF u

LEMMA NextInValue ==
    ASSUME NEW u \in Nat, NEW R \in Nat \ {0}, NEW B \in SUBSET (0 .. R - 1), B # {}
    PROVE  NextIn(u, R, B) % R = Value(u, R, B)
<1> DEFINE v == Value(u, R, B)
           q == u \div R
<1>1. /\ v \in 0 .. R - 1 /\ v \in Nat
      /\ NextIn(u, R, B) = q * R + v \/ NextIn(u, R, B) = (q + 1) * R + v
  BY ValueFacts
<1>2. q \in Nat /\ q + 1 \in Nat
  BY Division
<1> HIDE DEF v, q
<1>3. (q * R + v) % R = v /\ ((q + 1) * R + v) % R = v
  BY <1>1, <1>2, DivisionUnique
<1> QED
  BY <1>1, <1>3 DEF v

\* The search passes over the instants from t to u.
Passes(t, u) == t <= u /\ \A w \in Nat : t <= w /\ w < u => ~FitsAt(w)

LEMMA PassSecond ==
    ASSUME Searchable, NEW t \in Nat, cal = Calendar[t]
    PROVE  LET n == find_next("sec", "min", {})
           IN  \E u \in Nat : /\ n.cal = Calendar[u] /\ Passes(t, u)
                              /\ u % Sec \in expr.sec
                              /\ n.value = cal.sec \/ \A b \in expr.sec : u % Sec <= b
<1> DEFINE n == find_next("sec", "min", {})
           u == NextIn(t, Sec, expr.sec)
           v == Value(t, Sec, expr.sec)
<1>0. Sec \in Nat \ {0} /\ expr.sec \in SUBSET (0 .. Sec - 1) /\ expr.sec # {} /\ BitSets
  BY Lengths DEF Searchable, BitSets
<1>1. n.cal = Calendar[u] /\ n.value = v
  BY <1>0, FindSecond
<1>2. /\ u \in Nat /\ u >= t /\ u % Sec \in expr.sec /\ u % Sec = v
      /\ \A w \in Nat : t <= w /\ w < u => w % Sec \notin expr.sec
  BY <1>0, NextInFound, NextInValue
<1>3. v = t % Sec <=> t % Sec \in expr.sec
  BY <1>0, ValueFacts
<1>4. \A b \in expr.sec : b < v => b < t % Sec
  BY <1>0, ValueFacts
<1>5. t % Sec <= v \/ v < t % Sec
  <2>1. t % Sec \in 0 .. Sec - 1 /\ v \in 0 .. Sec - 1
    BY <1>0, <1>2, Parts
  <2> HIDE DEF v
  <2> QED
    BY <1>0, <2>1
<1> HIDE DEF n, u, v
<1>6. Passes(t, u)
  BY <1>2, FitsParts DEF Passes
<1>7. cal.sec = t % Sec
  BY CalendarFields
<1>8. v = t % Sec \/ \A b \in expr.sec : v <= b
  <2> SUFFICES ASSUME NEW b \in expr.sec, b < v  PROVE v = t % Sec
    BY <1>0, <1>2
  <2>1. b < t % Sec
    BY <1>4
  <2>2. t % Sec \in 0 .. Sec - 1 /\ v \in expr.sec /\ b .. v \subseteq expr.sec
    BY <1>2, Parts DEF Searchable
  <2>3. v \in 0 .. Sec - 1 /\ b \in 0 .. Sec - 1
    BY <1>0, <2>2
  <2>4. CASE t % Sec <= v
    <3> DEFINE p == t % Sec
    <3>1. p \in b .. v
      <4>1. p \in 0 .. Sec - 1 /\ b < p /\ p <= v
        BY <2>1, <2>2, <2>4
      <4> HIDE DEF p
      <4> QED
        BY <1>0, <2>3, <4>1
    <3> QED
      BY <1>3, <2>2, <3>1
  \* The search rolled over to the least bit.
  <2>5. CASE v < t % Sec
    <3>1. Ahead(t, Sec, expr.sec) = {}
      <4>1. SUFFICES ASSUME Ahead(t, Sec, expr.sec) # {}  PROVE FALSE
        OBVIOUS
      <4>2. v = Min(Ahead(t, Sec, expr.sec))
        BY <4>1 DEF v, Value
      <4>3. Ahead(t, Sec, expr.sec) \in SUBSET Nat
        BY <1>0 DEF Ahead
      <4>4. v \in Ahead(t, Sec, expr.sec)
        BY <4>1, <4>2, <4>3, MinIsLeast
      <4>5. v >= t % Sec
        BY <4>4 DEF Ahead
      <4> QED
        BY <1>0, <2>2, <2>3, <2>5, <4>5
    <3>2. v = Min(expr.sec)
      BY <3>1 DEF v, Value
    <3>3. v <= b
      BY <1>0, <3>2, MinIsLeast, expr.sec \in SUBSET Nat
    <3> QED
      BY <1>0, <2>3, <3>3
  <2> QED
    BY <1>5, <2>4, <2>5
<1> QED
  BY <1>1, <1>2, <1>6, <1>7, <1>8 DEF n

LEMMA PassMinute ==
    ASSUME Searchable, NEW t \in Nat, cal = Calendar[t], resets \in SUBSET {"sec"},
           "sec" \in resets \/ Earliest(cal.sec)
    PROVE  LET n == find_next("min", "hour", resets)
           IN  /\ cal.min \in expr.min => n.cal = cal /\ n.value = cal.min
               /\ cal.min \notin expr.min =>
                    n.value # cal.min /\ \E u \in Nat : n.cal = Calendar[u] /\ Passes(t, u)
<1> DEFINE n == find_next("min", "hour", resets)
           N == NextIn(Mi(t), Min60, expr.min)
<1>0. /\ Min60 \in Nat \ {0} /\ expr.min \in SUBSET (0 .. Min60 - 1) /\ expr.min # {} /\ BitSets
      /\ Mi(t) \in Nat /\ t % Sec \in 0 .. Sec - 1
  BY Lengths, Parts DEF Searchable, BitSets
<1>1. cal.min = Mi(t) % Min60 /\ cal.sec = t % Sec
  BY CalendarFields
<1>2. /\ n.value = Value(Mi(t), Min60, expr.min)
      /\ Mi(t) % Min60 \in expr.min => n.cal = cal
      /\ Mi(t) % Min60 \notin expr.min => n.cal = reset_all_min(Calendar[N * Sec + (t % Sec)], resets)
  BY <1>0, FindMinute
<1>3. Value(Mi(t), Min60, expr.min) = Mi(t) % Min60 <=> Mi(t) % Min60 \in expr.min
  BY <1>0, ValueFacts
<1>4. /\ N \in Nat /\ N >= Mi(t) /\ N % Min60 \in expr.min
      /\ \A w \in Nat : Mi(t) <= w /\ w < N => w % Min60 \notin expr.min
  BY <1>0, NextInFound
<1> HIDE DEF n, N
<1>5. CASE cal.min \in expr.min
  BY <1>1, <1>2, <1>3, <1>5 DEF n
<1>6. CASE cal.min \notin expr.min
  <2> DEFINE x == N * Sec + (t % Sec)
  <2>1. x \in Nat /\ Mi(x) = N /\ x % Sec = t % Sec
    BY <1>0, <1>4, FromMinute
  <2> HIDE DEF x
  <2>2. resets \in SUBSET Lower /\ "mday" \notin resets /\ "hour" \notin resets /\ "min" \notin resets
    BY DEF Lower
  <2>3. PICK u \in Nat : /\ reset_all_min(Calendar[x], resets) = Calendar[u]
                         /\ u % Sec = IF "sec" \in resets THEN 0 ELSE x % Sec
                         /\ Mi(u) = Mi(x)
    BY <2>1, <2>2, ResetAt
  <2>4. Earliest(u % Sec)
    BY <1>1, <2>1, <2>3 DEF Earliest
  <2>5. Mi(t) < N
    <3>1. N # Mi(t)
      BY <1>1, <1>4, <1>6
    <3> QED
      BY <1>0, <1>4, <3>1
  <2>6. t <= u
    <3>1. u <= t => Mi(u) <= Mi(t)
      BY PartsMono
    <3> QED
      BY <1>0, <1>4, <2>1, <2>3, <2>5, <3>1
  <2>7. ASSUME NEW w \in Nat, t <= w, w < u  PROVE ~FitsAt(w)
    <3>1. Mi(t) <= Mi(w) /\ Mi(w) <= Mi(u) /\ Mi(w) \in Nat
      <4>1. Mi(t) <= Mi(w)
        BY <2>7, PartsMono
      <4>2. Mi(w) <= Mi(u)
        BY <2>7, PartsMono
      <4> QED
        BY <4>1, <4>2, Parts
    <3>2. CASE Mi(w) < N
      <4>1. Mi(w) % Min60 \notin expr.min
        BY <1>4, <3>1, <3>2
      <4> QED
        BY <4>1, FitsParts
    <3>3. CASE Mi(w) = N
      <4>1. Mi(w) = Mi(u)
        BY <2>1, <2>3, <3>3
      <4> QED
        BY <1>0, <2>4, <2>7, <4>1, NothingInMinute
    <3> QED
      BY <1>4, <2>1, <2>3, <3>1, <3>2, <3>3
  <2>8. Passes(t, u)
    BY <2>6, <2>7 DEF Passes
  <2> QED
    BY <1>1, <1>2, <1>3, <1>6, <2>3, <2>8 DEF n, x
<1> QED
  BY <1>5, <1>6 DEF n

LEMMA PassHour ==
    ASSUME Searchable, NEW t \in Nat, cal = Calendar[t],
           \/ cal.hour \in expr.hour
           \/ /\ resets \cup {"sec"} = {"sec", "min"}
              /\ "sec" \in resets \/ Earliest(cal.sec)
    PROVE  LET n == find_next("hour", "mday", resets)
           IN  /\ cal.hour \in expr.hour => n.cal = cal /\ n.value = cal.hour
               /\ cal.hour \notin expr.hour =>
                    n.value # cal.hour /\ \E u \in Nat : n.cal = Calendar[u] /\ Passes(t, u)
<1> DEFINE n == find_next("hour", "mday", resets)
           N == NextIn(Ho(t), Hours, expr.hour)
           x == (N * Min60 + (Mi(t) % Min60)) * Sec + (t % Sec)
<1>0. /\ Hours \in Nat \ {0} /\ expr.hour \in SUBSET (0 .. Hours - 1) /\ expr.hour # {} /\ BitSets
      /\ Ho(t) \in Nat /\ t % Sec \in 0 .. Sec - 1 /\ Mi(t) % Min60 \in 0 .. Min60 - 1
  BY Lengths, Parts DEF Searchable, BitSets
<1>1. cal.hour = Ho(t) % Hours /\ cal.sec = t % Sec
  BY CalendarFields
<1>2. /\ n.value = Value(Ho(t), Hours, expr.hour)
      /\ Ho(t) % Hours \in expr.hour => n.cal = cal
      /\ Ho(t) % Hours \notin expr.hour => n.cal = reset_all_min(Calendar[x], resets)
  BY <1>0, FindHour
<1>3. Value(Ho(t), Hours, expr.hour) = Ho(t) % Hours <=> Ho(t) % Hours \in expr.hour
  BY <1>0, ValueFacts
<1>4. /\ N \in Nat /\ N >= Ho(t) /\ N % Hours \in expr.hour
      /\ \A w \in Nat : Ho(t) <= w /\ w < N => w % Hours \notin expr.hour
  BY <1>0, NextInFound
<1> HIDE DEF n, N
<1>5. CASE cal.hour \in expr.hour
  BY <1>1, <1>2, <1>3, <1>5 DEF n
<1>6. CASE cal.hour \notin expr.hour
  <2>1. x \in Nat /\ Ho(x) = N /\ x % Sec = t % Sec
    BY <1>0, <1>4, FromHour
  <2> HIDE DEF x
  <2>2. /\ resets \in SUBSET Lower /\ "mday" \notin resets /\ "hour" \notin resets /\ "min" \in resets
        /\ "sec" \in resets \/ Earliest(cal.sec)
    <3>1. resets \cup {"sec"} = {"sec", "min"}
      BY <1>6
    <3>2. resets \subseteq {"sec", "min"}
      BY <3>1
    <3> QED
      BY <1>6, <3>1, <3>2 DEF Lower
  <2>3. PICK u \in Nat : /\ reset_all_min(Calendar[x], resets) = Calendar[u]
                         /\ u % Sec = IF "sec" \in resets THEN 0 ELSE x % Sec
                         /\ Mi(u) % Min60 = 0 /\ Ho(u) = Ho(x)
    BY <2>1, <2>2, ResetAt
  <2>4. Earliest(u % Sec)
    BY <1>1, <2>1, <2>2, <2>3 DEF Earliest
  <2>5. Ho(t) < N
    <3>1. N # Ho(t)
      BY <1>1, <1>4, <1>6
    <3> QED
      BY <1>0, <1>4, <3>1
  <2>6. t <= u
    <3>1. u <= t => Ho(u) <= Ho(t)
      BY PartsMono
    <3> QED
      BY <1>0, <1>4, <2>1, <2>3, <2>5, <3>1
  <2>7. ASSUME NEW w \in Nat, t <= w, w < u  PROVE ~FitsAt(w)
    <3>1. Ho(t) <= Ho(w) /\ Ho(w) <= Ho(u) /\ Ho(w) \in Nat
      <4>1. Ho(t) <= Ho(w)
        BY <2>7, PartsMono
      <4>2. Ho(w) <= Ho(u)
        BY <2>7, PartsMono
      <4> QED
        BY <4>1, <4>2, Parts
    <3>2. CASE Ho(w) < N
      <4>1. Ho(w) % Hours \notin expr.hour
        BY <1>4, <3>1, <3>2
      <4> QED
        BY <4>1, FitsParts
    <3>3. CASE Ho(w) = N
      <4>1. Ho(w) = Ho(u)
        BY <2>1, <2>3, <3>3
      <4> QED
        BY <1>0, <2>3, <2>4, <2>7, <4>1, NothingInHour
    <3> QED
      BY <1>4, <2>1, <2>3, <3>1, <3>2, <3>3
  <2>8. Passes(t, u)
    BY <2>6, <2>7 DEF Passes
  <2> QED
    BY <1>1, <1>2, <1>3, <1>6, <2>3, <2>8 DEF n
<1> QED
  BY <1>5, <1>6 DEF n

LEMMA PassDay ==
    ASSUME Searchable, NEW t \in Nat, cal = Calendar[t],
           \/ DayFits(cal)
           \/ /\ resets \cup {"sec"} = {"sec", "min", "hour"}
              /\ "sec" \in resets \/ Earliest(cal.sec)
    PROVE  LET n == find_next_day
           IN  /\ DayFits(cal) => n.cal = cal /\ n.value = cal.mday
               /\ ~DayFits(cal) =>
                    n.value # cal.mday /\ \E u \in Nat : n.cal = Calendar[u] /\ Passes(t, u)
<1>0. BitSets /\ t % Sec \in 0 .. Sec - 1 /\ Da(t) \in Nat
  BY Parts DEF Searchable
<1>1. (DayFits(cal) <=> DayOK(Da(t))) /\ cal.sec = t % Sec
  BY FitsParts, CalendarFields
<1>2. DayOK(Da(t)) \/ resets \in SUBSET {"sec", "min", "hour"}
  BY <1>1
<1>3. /\ DayOK(Da(t)) => find_next_day.cal = cal /\ find_next_day.value = cal.mday
      /\ ~DayOK(Da(t)) =>
            /\ find_next_day.value # cal.mday
            /\ \E x \in Nat : /\ find_next_day.cal = reset_all_min(Calendar[x], resets)
                              /\ Da(t) < Da(x) /\ x % Sec = t % Sec
                              /\ \A d \in Nat : Da(t) <= d /\ d < Da(x) => ~DayOK(d)
  BY <1>2, FindDay
<1>4. CASE DayFits(cal)
  BY <1>1, <1>3, <1>4
<1>5. CASE ~DayFits(cal)
  <2>1. PICK x \in Nat : /\ find_next_day.cal = reset_all_min(Calendar[x], resets)
                         /\ Da(t) < Da(x) /\ x % Sec = t % Sec
                         /\ \A d \in Nat : Da(t) <= d /\ d < Da(x) => ~DayOK(d)
    BY <1>1, <1>3, <1>5
  <2>2. /\ resets \in SUBSET Lower /\ "mday" \notin resets /\ "hour" \in resets /\ "min" \in resets
        /\ "sec" \in resets \/ Earliest(cal.sec)
    BY <1>5 DEF Lower
  <2>3. PICK u \in Nat : /\ reset_all_min(Calendar[x], resets) = Calendar[u]
                         /\ u % Sec = IF "sec" \in resets THEN 0 ELSE x % Sec
                         /\ Mi(u) % Min60 = 0 /\ Ho(u) % Hours = 0 /\ Da(u) = Da(x)
    BY <2>1, <2>2, ResetAt
  <2>4. Earliest(u % Sec)
    BY <1>1, <2>1, <2>2, <2>3 DEF Earliest
  <2>5. t <= u
    <3>1. u <= t => Da(u) <= Da(t)
      BY PartsMono
    <3>2. Da(u) \in Nat
      BY Parts
    <3> QED
      BY <1>0, <2>1, <2>3, <3>1, <3>2
  <2>6. ASSUME NEW w \in Nat, t <= w, w < u  PROVE ~FitsAt(w)
    <3>1. Da(t) <= Da(w) /\ Da(w) <= Da(u) /\ Da(w) \in Nat /\ Da(u) \in Nat
      <4>1. Da(t) <= Da(w)
        BY <2>6, PartsMono
      <4>2. Da(w) <= Da(u)
        BY <2>6, PartsMono
      <4> QED
        BY <4>1, <4>2, Parts
    <3>2. CASE Da(w) < Da(u)
      <4>1. ~DayOK(Da(w))
        BY <2>1, <2>3, <3>1, <3>2
      <4> QED
        BY <4>1, FitsParts
    <3>3. CASE Da(w) = Da(u)
      BY <1>0, <2>3, <2>4, <2>6, <3>3, NothingInDay
    <3> QED
      BY <3>1, <3>2, <3>3
  <2>7. Passes(t, u)
    BY <2>5, <2>6 DEF Passes
  <2> QED
    BY <1>1, <1>3, <1>5, <2>1, <2>3, <2>7
<1> QED
  BY <1>4, <1>5

LEMMA PassMonth ==
    ASSUME Searchable, NEW t \in Nat, cal = Calendar[t],
           \/ cal.mon \in expr.mon
           \/ /\ DayFits(cal)
              /\ resets \cup {"sec"} = {"sec", "min", "hour", "mday"}
              /\ "sec" \in resets \/ Earliest(cal.sec)
    PROVE  LET n == find_next("mon", "year", resets)
           IN  /\ cal.mon \in expr.mon => n.cal = cal /\ n.value = cal.mon
               /\ cal.mon \notin expr.mon =>
                    n.value # cal.mon /\ \E u \in Nat : n.cal = Calendar[u] /\ Passes(t, u)
<1> DEFINE n == find_next("mon", "year", resets)
           k == NextIn(Mo(t), Months, expr.mon)
           b == cal.mday
<1>0. /\ Months \in Nat \ {0} /\ expr.mon \in SUBSET (0 .. Months - 1) /\ expr.mon # {} /\ BitSets
      /\ Mo(t) \in Nat /\ t % Sec \in 0 .. Sec - 1 /\ Da(t) \in Nat
  BY Lengths, Parts DEF Searchable, BitSets
<1>1. /\ cal.mon = Mo(t) % Months /\ cal.sec = t % Sec /\ cal.mon \in 0 .. Months - 1
      /\ b = Da(t) - FirstDay(Mo(t)) + 1 /\ FirstDay(Mo(t)) \in Nat /\ FirstDay(Mo(t)) <= Da(t)
      /\ Da(t) < FirstDay(Mo(t)) + MonthLength(Mo(t)) /\ MonthLength(Mo(t)) \in Nat
  BY CalendarFields
<1>2. /\ n.value = Value(Mo(t), Months, expr.mon)
      /\ Mo(t) % Months \in expr.mon => n.cal = cal
      /\ Mo(t) % Months \notin expr.mon =>
            \E x \in Nat : /\ n.cal = reset_all_min(Calendar[x], resets)
                           /\ x % Sec = t % Sec
                           /\ FirstDay(k) <= Da(x) /\ Da(x) <= FirstDay(k) + (b - 1)
  BY <1>0, FindMonth
<1>3. Value(Mo(t), Months, expr.mon) = Mo(t) % Months <=> Mo(t) % Months \in expr.mon
  BY <1>0, ValueFacts
<1>4. /\ k \in Nat /\ k >= Mo(t) /\ k % Months \in expr.mon
      /\ \A w \in Nat : Mo(t) <= w /\ w < k => w % Months \notin expr.mon
  BY <1>0, NextInFound
<1> HIDE DEF n, k
<1>5. CASE cal.mon \in expr.mon
  BY <1>1, <1>2, <1>3, <1>5 DEF n
<1>6. CASE cal.mon \notin expr.mon
  <2>1. PICK x \in Nat : /\ n.cal = reset_all_min(Calendar[x], resets)
                         /\ x % Sec = t % Sec
                         /\ FirstDay(k) <= Da(x) /\ Da(x) <= FirstDay(k) + (b - 1)
    BY <1>1, <1>2, <1>6
  <2>2. /\ resets \in SUBSET Lower /\ "mday" \in resets /\ "hour" \in resets /\ "min" \in resets
        /\ "sec" \in resets \/ Earliest(cal.sec)
    <3>1. resets \cup {"sec"} = {"sec", "min", "hour", "mday"}
      BY <1>6
    <3> QED
      BY <1>6, <3>1 DEF Lower
  <2>3. PICK u \in Nat : /\ reset_all_min(Calendar[x], resets) = Calendar[u]
                         /\ u % Sec = IF "sec" \in resets THEN 0 ELSE x % Sec
                         /\ Mi(u) % Min60 = 0 /\ Ho(u) % Hours = 0
                         /\ Mo(u) = Mo(x) /\ Da(u) = FirstDay(Mo(x))
    BY <2>1, <2>2, ResetAt
  <2>4. Earliest(u % Sec)
    BY <1>1, <2>1, <2>2, <2>3 DEF Earliest
  \* The month reached is the next one of the text, or a later one.
  <2>5. Mo(u) \in Nat /\ k <= Mo(u)
    <3>1. Mo(u) \in Nat /\ Mo(x) \in Nat /\ Da(x) \in Nat
      BY Parts
    <3>2. FirstDay(k) \in Nat /\ MonthLength(k) \in Nat /\ 1 <= MonthLength(k)
      BY <1>4, FirstDayStep, MonthLengthType, Lengths
    <3>3. MonthOf(FirstDay(k)) = k
      <4>1. FirstDay(k) < FirstDay(k) + MonthLength(k)
        BY <3>2
      <4> QED
        BY <1>4, <3>2, <4>1, MonthOfUnique
    <3>4. MonthOf(FirstDay(k)) <= MonthOf(Da(x))
      BY <2>1, <3>1, <3>2, MonthOfMono
    <3> QED
      BY <2>3, <3>1, <3>3, <3>4 DEF Mo
  <2>6. Mo(t) < k
    <3>1. k # Mo(t)
      BY <1>1, <1>4, <1>6
    <3> QED
      BY <1>0, <1>4, <3>1
  <2>7. t <= u
    <3>1. u <= t => Mo(u) <= Mo(t)
      BY PartsMono
    <3> QED
      BY <1>0, <1>4, <2>5, <2>6, <3>1
  <2>8. expr.mday = {b}
    <3>1. expr.mon # 0 .. Months - 1
      BY <1>1, <1>6
    <3>2. b \in expr.mday
      BY <1>6 DEF DayFits
    <3> QED
      BY <3>1, <3>2 DEF Searchable
  <2>9. ASSUME NEW w \in Nat, t <= w, w < u, FitsAt(w)  PROVE FALSE
    <3>1. Mo(t) <= Mo(w) /\ Mo(w) <= Mo(u) /\ Mo(w) \in Nat
      <4>1. Mo(t) <= Mo(w)
        BY <2>9, PartsMono
      <4>2. Mo(w) <= Mo(u)
        BY <2>9, PartsMono
      <4> QED
        BY <4>1, <4>2, Parts
    <3>2. CASE Mo(w) < k
      <4>1. Mo(w) % Months \notin expr.mon
        BY <1>4, <3>1, <3>2
      <4> QED
        BY <2>9, <4>1, FitsParts
    \* A month that is passed over has no such day: with it mktime had stopped there.
    <3>3. CASE k <= Mo(w) /\ Mo(w) < Mo(u)
      <4>1. Da(w) = FirstDay(Mo(w)) + (b - 1) /\ Da(w) \in Nat /\ FirstDay(Mo(w)) \in Nat
        <5>1. DayOK(Da(w))
          BY <2>9, FitsParts
        <5>2. Da(w) - FirstDay(Mo(w)) + 1 = b
          BY <2>8, <5>1 DEF DayOK, Mo
        <5>3. Da(w) \in Nat /\ FirstDay(Mo(w)) \in Nat
          BY CalendarFields, Parts
        <5> HIDE DEF b
        <5> QED
          BY <5>2, <5>3
      <4>2. FirstDay(k) <= FirstDay(Mo(w)) /\ FirstDay(k) \in Nat
        <5>1. FirstDay(k) \in Nat /\ MonthLength(k) \in Nat
          BY <1>4, FirstDayStep, MonthLengthType
        <5>2. CASE k = Mo(w)
          BY <4>1, <5>1, <5>2
        <5>3. CASE k < Mo(w)
          BY <1>4, <3>1, <4>1, <5>1, <5>3, FirstDayMono
        <5> QED
          BY <1>4, <3>1, <3>3, <5>1, <5>2, <5>3
      <4>3. b \in Int
        BY <1>0, <1>1
      <4>4. Da(x) \in Nat
        BY Parts
      <4>5. Da(x) <= Da(w)
        <5> HIDE DEF b
        <5> QED
          BY <2>1, <4>1, <4>2, <4>3, <4>4
      <4>6. Mo(x) <= Mo(w)
        BY <4>1, <4>4, <4>5, MonthOfMono DEF Mo
      <4> QED
        BY <2>3, <2>5, <3>1, <3>3, <4>6
    <3>4. CASE Mo(w) = Mo(u)
      <4>1. Da(u) = FirstDay(Mo(u))
        BY <2>3
      <4> QED
        BY <1>0, <2>3, <2>4, <2>9, <3>4, <4>1, NothingInMonth
    <3> QED
      BY <1>4, <2>5, <3>1, <3>2, <3>3, <3>4
  <2>10. Passes(t, u)
    BY <2>7, <2>9 DEF Passes
  <2> QED
    BY <1>1, <1>2, <1>3, <1>6, <2>1, <2>3, <2>10 DEF n
<1> QED
  BY <1>5, <1>6 DEF n
-----------------------------------------------------------------------------
(* The invariant *)

LEMMA SearchableText ==
    ASSUME ParsedText, Regular
    PROVE  Searchable /\ BitsMean
<1>1. NoErrors
  BY DEF Regular, NoErrors
<1>2. BitSets /\ BitsMean
  BY <1>1, BitsAreMeant
<1> QED
  BY <1>2 DEF Regular, Searchable

LEMMA InstantType ==
    ASSUME NEW c \in Broken
    PROVE  Instant[c] \in Int
<1>0. /\ Sec \in Nat /\ Min60 \in Nat /\ Hours \in Nat /\ Months \in Nat
  BY Lengths
<1>1. /\ c.year \in Nat /\ c.mon \in Nat /\ c.mday \in Nat /\ c.hour \in Nat
      /\ c.min \in Nat /\ c.sec \in Nat
  BY DEF Broken
<1>2. FirstDay(c.year * Months + c.mon) \in Nat
  <2>1. c.year * Months \in Nat
    BY <1>0, <1>1
  <2>2. c.year * Months + c.mon \in Nat
    BY <1>1, <2>1
  <2> QED
    BY <2>2, FirstDayStep
<1>3. DayNumber[c] \in Int
  <2>1. DayNumber[c] = FirstDay(c.year * Months + c.mon) + c.mday - 1
    BY DEF DayNumber
  <2> QED
    BY <1>1, <1>2, <2>1
<1>4. DayNumber[c] * Hours + c.hour \in Int
  BY <1>0, <1>1, <1>3
<1>5. (DayNumber[c] * Hours + c.hour) * Min60 + c.min \in Int
  BY <1>0, <1>1, <1>4
<1>6. ((DayNumber[c] * Hours + c.hour) * Min60 + c.min) * Sec + c.sec \in Int
  BY <1>0, <1>1, <1>5
<1> QED
  BY <1>6 DEF Instant

LEMMA FromType == from \in From => from \in Nat
BY FromAssumption

LEMMA ReachedNow ==
    ASSUME Reached, from \in From, again \in BOOLEAN
    PROVE  /\ Instant[cal] \in Nat /\ cal = Calendar[Instant[cal]]
           /\ Start \in Nat /\ Start <= Instant[cal]
           /\ \A w \in Nat : Start <= w /\ w < Instant[cal] => ~FitsAt(w)
<1>1. Start \in Nat
  BY FromType DEF Start
<1>2. Instant[cal] \in Int /\ Instant[cal] >= Start /\ cal = Calendar[Instant[cal]]
  BY InstantType DEF Reached
<1> HIDE DEF Start
<1>3. ASSUME NEW w \in Nat, Start <= w, w < Instant[cal]  PROVE ~FitsAt(w)
  <2>1. w \in Start .. Instant[cal] - 1
    BY <1>1, <1>2, <1>3
  <2> QED
    BY <2>1 DEF Reached, FitsAt
<1>4. Instant[cal] \in Nat
  BY <1>1, <1>2
<1> QED
  BY <1>1, <1>2, <1>3, <1>4

\* A step of the search that passes over instants that do not fit.
LEMMA ReachedNext ==
    ASSUME Reached, from \in From, again \in BOOLEAN,
           NEW u \in Nat, Passes(Instant[cal], u), cal' = Calendar[u],
           UNCHANGED <<expr, from, again, dot>>
    PROVE  Reached'
<1> DEFINE t == Instant[cal]
<1>1. /\ t \in Nat /\ Start \in Nat /\ Start <= t
      /\ \A w \in Nat : Start <= w /\ w < t => ~FitsAt(w)
  BY ReachedNow
<1>2. t <= u /\ \A w \in Nat : t <= w /\ w < u => ~FitsAt(w)
  BY DEF Passes
<1>3. cal' \in Broken /\ Instant[cal'] = u
  BY CalendarFields, RoundTrip
<1> HIDE DEF t
<1>4. ASSUME NEW w \in Start .. u - 1  PROVE ~Fits(Calendar[w])
  <2>1. w \in Nat /\ Start <= w /\ w < u
    BY <1>1, <1>4
  <2>2. CASE w < t
    BY <1>1, <2>1, <2>2 DEF FitsAt
  <2>3. CASE t <= w
    BY <1>2, <2>1, <2>3 DEF FitsAt
  <2> QED
    BY <1>1, <2>1, <2>2, <2>3
<1>5. Start' = Start
  BY DEF Start
<1>6. ASSUME NEW w \in Start' .. Instant[cal'] - 1  PROVE ~Fits(Calendar[w])'
  <2>1. ~Fits(Calendar[w])
    BY <1>3, <1>4, <1>5, <1>6
  <2>2. Fits(Calendar[w])' <=> Fits(Calendar[w])
    BY DEF Fits, DayFits
  <2> QED
    BY <2>1, <2>2
<1>7. u >= Start /\ dot' = Calendar[Start'].year
  BY <1>1, <1>2, <1>5 DEF Reached
<1>8. cal' = Calendar[Instant[cal']]
  BY <1>3
<1> HIDE DEF Start
<1> QED
  BY <1>3, <1>5, <1>6, <1>7, <1>8 DEF Reached

LEMMA ReachedStays ==
    ASSUME Reached, from \in From, again \in BOOLEAN, UNCHANGED <<cal, expr, from, again, dot>>
    PROVE  Reached'
<1>1. Instant[cal] \in Nat /\ cal = Calendar[Instant[cal]]
  BY ReachedNow
<1> DEFINE u == Instant[cal]
<1>2. Passes(u, u)
  <2> HIDE DEF u
  <2> QED
    BY <1>1 DEF Passes, u
<1> QED
  BY <1>1, <1>2, ReachedNext

\* The values of the variables, without the calendar.
Frame == [pc : {"hour", "day", "month", "return"}, resets : SUBSET Lower]
ExprTypes ==
    /\ text \in Text /\ from \in From /\ again \in BOOLEAN
    /\ expr = cron_parse_expr(text)
    /\ stack \in Seq(Frame)
    /\ resets \in SUBSET Lower

LEMMA RecurseTypes ==
    ASSUME ExprTypes, NEW next \in {"hour", "day", "month", "return"}, Recurse(next)
    PROVE  stack' \in Seq(Frame) /\ resets' \in SUBSET Lower
<1>1. [pc |-> next, resets |-> resets] \in Frame
  BY DEF ExprTypes, Frame
<1>2. <<[pc |-> next, resets |-> resets]>> \in Seq(Frame)
  BY <1>1
<1>3. stack' \in Seq(Frame)
  BY <1>2, ConcatProperties DEF Recurse, ExprTypes
<1> QED
  BY <1>3 DEF Recurse

LEMMA SearchTypes ==
    ASSUME ExprTypes, NEW f \in Lower, NEW n, NEW next \in {"hour", "day", "month", "return"},
           Search(f, n, next)
    PROVE  ExprTypes'
<1>1. text' = text /\ from' = from /\ again' = again /\ expr' = expr
  BY DEF Search, call
<1>2. stack' \in Seq(Frame) /\ resets' \in SUBSET Lower
  <2>1. CASE Recurse(next)
    BY <2>1, RecurseTypes
  <2>2. CASE resets' = resets \cup {f} /\ UNCHANGED stack
    BY <2>2 DEF ExprTypes
  <2> QED
    BY <2>1, <2>2 DEF Search
<1> QED
  BY <1>1, <1>2 DEF ExprTypes

LEMMA StepTypes ==
    ASSUME ExprTypes, [ExprNext]_exprVars
    PROVE  ExprTypes'
<1>1. CASE Second
  <2>1. resets' \in SUBSET Lower
    BY <1>1 DEF Second, Lower
  <2> QED
    BY <1>1, <2>1 DEF Second, call, ExprTypes
<1>2. CASE Minute
  BY <1>2, SearchTypes DEF Minute, Lower
<1>3. CASE Hour
  BY <1>3, SearchTypes DEF Hour, Lower
<1>4. CASE DayStep
  BY <1>4, SearchTypes DEF DayStep, Lower
<1>5. CASE Month
  <2>1. text' = text /\ from' = from /\ again' = again /\ expr' = expr
    BY <1>5 DEF Month
  <2>2. stack' \in Seq(Frame) /\ resets' \in SUBSET Lower
    <3>1. CASE Recurse("return")
      BY <3>1, RecurseTypes
    <3>2. CASE UNCHANGED <<resets, stack>>
      BY <3>2 DEF ExprTypes
    <3>3. Recurse("return") \/ UNCHANGED <<resets, stack>>
      BY <1>5 DEF Month
    <3> QED
      BY <3>1, <3>2, <3>3
  <2> QED
    BY <2>1, <2>2 DEF ExprTypes
<1>6. CASE Return
  <2>1. Head(stack) \in Frame /\ Tail(stack) \in Seq(Frame)
    BY <1>6, HeadTailProperties DEF Return, ExprTypes
  <2>2. Head(stack).resets \in SUBSET Lower
    BY <2>1 DEF Frame
  <2> QED
    BY <1>6, <2>1, <2>2 DEF Return, call, ExprTypes
<1>7. CASE Finish
  <2>1. again' \in BOOLEAN /\ resets' \in SUBSET Lower
    BY <1>7 DEF Finish, ExprTypes
  <2> QED
    BY <1>7, <2>1 DEF Finish, ExprTypes
<1>8. CASE UNCHANGED exprVars
  BY <1>8 DEF exprVars, ExprTypes
<1> QED
  BY <1>1, <1>2, <1>3, <1>4, <1>5, <1>6, <1>7, <1>8 DEF ExprNext

LEMMA InvParts == ExprInv <=> ExprTypes /\ (Regular => Reached /\ Found)
BY DEF ExprInv, ExprTypes, Frame

\* A text that can be searched stays one.
LEMMA RegularStays ==
    ASSUME [ExprNext]_exprVars
    PROVE  /\ UNCHANGED <<text, expr, from>>
           /\ Regular' <=> Regular
<1>1. UNCHANGED <<text, expr, from>>
  BY DEF ExprNext, Second, Minute, Hour, DayStep, Month, Return, Finish, Search, call, exprVars
<1> QED
  BY <1>1 DEF Regular, Bad

\* What the lemmas on single steps have in common.
Searching == ExprTypes /\ Searchable /\ Reached /\ Found

LEMMA SecondStep ==
    ASSUME Searching, Second
    PROVE  (Reached /\ Found)'
<1> DEFINE t == Instant[cal]
           n == find_next("sec", "min", {})
<1>0. from \in From /\ again \in BOOLEAN /\ UNCHANGED <<expr, from, again, dot>>
  BY DEF Searching, ExprTypes, Second, call
<1>1. t \in Nat /\ cal = Calendar[t]
  BY <1>0, ReachedNow DEF Searching
<1>2. /\ cal' = n.cal /\ resets' = (IF n.value = cal.sec THEN {"sec"} ELSE {})
      /\ pc' = "minute"
  BY DEF Second
<1> HIDE DEF t
<1>3. PICK u \in Nat : /\ n.cal = Calendar[u] /\ Passes(t, u)
                       /\ u % Sec \in expr.sec
                       /\ n.value = cal.sec \/ \A b \in expr.sec : u % Sec <= b
  BY <1>1, PassSecond DEF Searching
<1> HIDE DEF n
<1>4. Reached'
  BY <1>0, <1>2, <1>3, ReachedNext DEF Searching, t
<1>5. cal'.sec = u % Sec
  BY <1>2, <1>3, CalendarFields
<1>6. SecondFound'
  BY <1>0, <1>2, <1>3, <1>5 DEF SecondFound
<1>7. resets' \subseteq {"sec"}
  BY <1>2
<1> QED
  BY <1>2, <1>4, <1>6, <1>7 DEF Found

LEMMA MinuteStep ==
    ASSUME Searching, Minute
    PROVE  (Reached /\ Found)'
<1> DEFINE t == Instant[cal]
           n == find_next("min", "hour", resets)
<1>0. from \in From /\ again \in BOOLEAN /\ UNCHANGED <<expr, from, again, dot>>
  BY DEF Searching, ExprTypes, Minute, Search, call
<1>1. t \in Nat /\ cal = Calendar[t]
  BY <1>0, ReachedNow DEF Searching
<1>2. SecondFound /\ resets \subseteq {"sec"}
  BY DEF Searching, Found, Minute
<1>3. /\ cal' = n.cal
      /\ n.value = cal.min => resets' = resets \cup {"min"} /\ pc' = "hour"
      /\ n.value # cal.min => pc' = "second"
  BY DEF Minute, Search, Recurse
<1> HIDE DEF t
<1>4. /\ cal.min \in expr.min => n.cal = cal /\ n.value = cal.min
      /\ cal.min \notin expr.min =>
            n.value # cal.min /\ \E u \in Nat : n.cal = Calendar[u] /\ Passes(t, u)
  BY <1>1, <1>2, PassMinute DEF Searching, SecondFound, Earliest
<1> HIDE DEF n
<1>5. CASE cal.min \in expr.min
  <2>1. cal' = cal /\ resets' = resets \cup {"min"} /\ pc' = "hour"
    BY <1>3, <1>4, <1>5
  <2>2. Reached'
    BY <1>0, <2>1, ReachedStays DEF Searching
  <2>3. SecondFound' /\ cal'.min \in expr'.min /\ resets' \cup {"sec"} = {"sec", "min"}
    BY <1>0, <1>2, <1>5, <2>1 DEF SecondFound
  <2> QED
    BY <2>1, <2>2, <2>3 DEF Found
<1>6. CASE cal.min \notin expr.min
  <2>1. PICK u \in Nat : n.cal = Calendar[u] /\ Passes(t, u)
    BY <1>4, <1>6
  <2>2. Reached'
    BY <1>0, <1>3, <2>1, ReachedNext DEF Searching, t
  <2>3. pc' = "second"
    BY <1>3, <1>4, <1>6
  <2> QED
    BY <2>2, <2>3 DEF Found
<1> QED
  BY <1>5, <1>6

LEMMA HourStep ==
    ASSUME Searching, Hour
    PROVE  (Reached /\ Found)'
<1> DEFINE t == Instant[cal]
           n == find_next("hour", "mday", resets)
<1>0. from \in From /\ again \in BOOLEAN /\ UNCHANGED <<expr, from, again, dot>>
  BY DEF Searching, ExprTypes, Hour, Search, call
<1>1. t \in Nat /\ cal = Calendar[t]
  BY <1>0, ReachedNow DEF Searching
<1>2. \/ Fits(cal)
      \/ SecondFound /\ cal.min \in expr.min /\ resets \cup {"sec"} = {"sec", "min"}
  BY DEF Searching, Found, Hour
<1>3. /\ cal' = n.cal
      /\ n.value = cal.hour => resets' = resets \cup {"hour"} /\ pc' = "day"
      /\ n.value # cal.hour => pc' = "second"
  BY DEF Hour, Search, Recurse
<1> HIDE DEF t
<1>4. /\ cal.hour \in expr.hour => n.cal = cal /\ n.value = cal.hour
      /\ cal.hour \notin expr.hour =>
            n.value # cal.hour /\ \E u \in Nat : n.cal = Calendar[u] /\ Passes(t, u)
  <2>1. \/ cal.hour \in expr.hour
        \/ /\ resets \cup {"sec"} = {"sec", "min"}
           /\ "sec" \in resets \/ Earliest(cal.sec)
    BY <1>2 DEF Fits, SecondFound, Earliest
  <2> QED
    BY <1>1, <2>1, PassHour DEF Searching
<1> HIDE DEF n
<1>5. CASE cal.hour \in expr.hour
  <2>1. cal' = cal /\ resets' = resets \cup {"hour"} /\ pc' = "day"
    BY <1>3, <1>4, <1>5
  <2>2. Reached'
    BY <1>0, <2>1, ReachedStays DEF Searching
  <2>3. CASE Fits(cal)
    <3>1. Fits(cal)'
      BY <1>0, <2>1, <2>3 DEF Fits, DayFits
    <3> QED
      BY <2>1, <2>2, <3>1 DEF Found
  <2>4. CASE SecondFound /\ cal.min \in expr.min /\ resets \cup {"sec"} = {"sec", "min"}
    <3>1. /\ SecondFound' /\ cal'.min \in expr'.min /\ cal'.hour \in expr'.hour
      BY <1>0, <1>5, <2>1, <2>4 DEF SecondFound
    <3>2. resets' \cup {"sec"} = {"sec", "min", "hour"}
      <4>1. resets' \cup {"sec"} = (resets \cup {"sec"}) \cup {"hour"}
        BY <2>1
      <4> QED
        BY <2>4, <4>1
    <3> QED
      BY <2>1, <2>2, <3>1, <3>2 DEF Found
  <2> QED
    BY <1>2, <2>3, <2>4
<1>6. CASE cal.hour \notin expr.hour
  <2>1. PICK u \in Nat : n.cal = Calendar[u] /\ Passes(t, u)
    BY <1>4, <1>6
  <2>2. Reached'
    BY <1>0, <1>3, <2>1, ReachedNext DEF Searching, t
  <2>3. pc' = "second"
    BY <1>3, <1>4, <1>6
  <2> QED
    BY <2>2, <2>3 DEF Found
<1> QED
  BY <1>5, <1>6

LEMMA DayStepStep ==
    ASSUME Searching, DayStep
    PROVE  (Reached /\ Found)'
<1> DEFINE t == Instant[cal]
           n == find_next_day
           Waiting == /\ SecondFound /\ cal.min \in expr.min /\ cal.hour \in expr.hour
                      /\ resets \cup {"sec"} = {"sec", "min", "hour"}
<1>0. from \in From /\ again \in BOOLEAN /\ UNCHANGED <<expr, from, again, dot>>
  BY DEF Searching, ExprTypes, DayStep, Search, call
<1>1. t \in Nat /\ cal = Calendar[t]
  BY <1>0, ReachedNow DEF Searching
<1>2. Fits(cal) \/ Waiting
  BY DEF Searching, Found, DayStep
<1>3. /\ cal' = n.cal
      /\ n.value = cal.mday => resets' = resets \cup {"mday"} /\ pc' = "month"
      /\ n.value # cal.mday => pc' = "second"
  BY DEF DayStep, Search, Recurse
<1> HIDE DEF t
<1>4. /\ DayFits(cal) => n.cal = cal /\ n.value = cal.mday
      /\ ~DayFits(cal) =>
            n.value # cal.mday /\ \E u \in Nat : n.cal = Calendar[u] /\ Passes(t, u)
  <2>1. \/ DayFits(cal)
        \/ /\ resets \cup {"sec"} = {"sec", "min", "hour"}
           /\ "sec" \in resets \/ Earliest(cal.sec)
    BY <1>2 DEF Fits, SecondFound, Earliest
  <2> QED
    BY <1>1, <2>1, PassDay DEF Searching
<1> HIDE DEF n
<1>5. CASE DayFits(cal)
  <2>1. cal' = cal /\ resets' = resets \cup {"mday"} /\ pc' = "month"
    BY <1>3, <1>4, <1>5
  <2>2. Reached'
    BY <1>0, <2>1, ReachedStays DEF Searching
  <2>3. CASE Fits(cal)
    <3>1. Fits(cal)'
      BY <1>0, <2>1, <2>3 DEF Fits, DayFits
    <3> QED
      BY <2>1, <2>2, <3>1 DEF Found
  <2>4. CASE Waiting
    <3>1. SecondFound' /\ cal'.min \in expr'.min /\ cal'.hour \in expr'.hour
      BY <1>0, <2>1, <2>4 DEF SecondFound
    <3>2. DayFits(cal)'
      BY <1>0, <1>5, <2>1 DEF DayFits
    <3>3. resets' \cup {"sec"} = {"sec", "min", "hour", "mday"}
      <4>1. resets' \cup {"sec"} = (resets \cup {"sec"}) \cup {"mday"}
        BY <2>1
      <4> QED
        BY <2>4, <4>1
    <3> QED
      BY <2>1, <2>2, <3>1, <3>2, <3>3 DEF Found
  <2> QED
    BY <1>2, <2>3, <2>4
<1>6. CASE ~DayFits(cal)
  <2>1. PICK u \in Nat : n.cal = Calendar[u] /\ Passes(t, u)
    BY <1>4, <1>6
  <2>2. Reached'
    BY <1>0, <1>3, <2>1, ReachedNext DEF Searching, t
  <2>3. pc' = "second"
    BY <1>3, <1>4, <1>6
  <2> QED
    BY <2>2, <2>3 DEF Found
<1> QED
  BY <1>5, <1>6

LEMMA MonthStep ==
    ASSUME Searching, Month
    PROVE  (Reached /\ Found)'
<1> DEFINE t == Instant[cal]
           n == find_next("mon", "year", resets)
           Waiting == /\ SecondFound /\ cal.min \in expr.min /\ cal.hour \in expr.hour
                      /\ DayFits(cal)
                      /\ resets \cup {"sec"} = {"sec", "min", "hour", "mday"}
<1>0. from \in From /\ again \in BOOLEAN /\ UNCHANGED <<expr, from, again, dot>>
  BY DEF Searching, ExprTypes, Month
<1>1. t \in Nat /\ cal = Calendar[t]
  BY <1>0, ReachedNow DEF Searching
<1>2. Fits(cal) \/ Waiting
  BY DEF Searching, Found, Month
<1>3. /\ cal' = n.cal
      /\ \/ n.value = cal.mon /\ pc' = "return"
         \/ n.value # cal.mon /\ pc' = "second"
         \/ n.value # cal.mon /\ pc' = "done" /\ result' = -1 /\ TooFar(n.cal)
  BY DEF Month, Recurse
<1> HIDE DEF t
<1>4. /\ cal.mon \in expr.mon => n.cal = cal /\ n.value = cal.mon
      /\ cal.mon \notin expr.mon =>
            n.value # cal.mon /\ \E u \in Nat : n.cal = Calendar[u] /\ Passes(t, u)
  <2>1. \/ cal.mon \in expr.mon
        \/ /\ DayFits(cal)
           /\ resets \cup {"sec"} = {"sec", "min", "hour", "mday"}
           /\ "sec" \in resets \/ Earliest(cal.sec)
    BY <1>2 DEF Fits, SecondFound, Earliest
  <2> QED
    BY <1>1, <2>1, PassMonth DEF Searching
<1> HIDE DEF n
<1>5. CASE cal.mon \in expr.mon
  <2>1. cal' = cal /\ pc' = "return"
    BY <1>3, <1>4, <1>5
  <2>2. Reached'
    BY <1>0, <2>1, ReachedStays DEF Searching
  <2>3. Fits(cal)
    BY <1>2, <1>5 DEF Fits, SecondFound
  <2>4. Fits(cal)'
    BY <1>0, <2>1, <2>3 DEF Fits, DayFits
  <2> QED
    BY <2>1, <2>2, <2>4 DEF Found
<1>6. CASE cal.mon \notin expr.mon
  <2>1. PICK u \in Nat : n.cal = Calendar[u] /\ Passes(t, u)
    BY <1>4, <1>6
  <2>2. Reached'
    BY <1>0, <1>3, <2>1, ReachedNext DEF Searching, t
  <2>3. pc' = "second" \/ (pc' = "done" /\ result' = -1 /\ TooFar(n.cal))
    BY <1>3, <1>4, <1>6
  <2>4. TooFar(n.cal) => TooFar(cal)'
    BY <1>0, <1>3 DEF TooFar
  <2> QED
    BY <2>2, <2>3, <2>4 DEF Found
<1> QED
  BY <1>5, <1>6

LEMMA ReturnStep ==
    ASSUME Searching, Return
    PROVE  (Reached /\ Found)'
<1>0. /\ from \in From /\ again \in BOOLEAN /\ UNCHANGED <<cal, expr, from, again, dot>>
  BY DEF Searching, ExprTypes, Return, call
<1>1. Reached'
  BY <1>0, ReachedStays DEF Searching
<1>2. Fits(cal)'
  <2>1. Fits(cal)
    BY DEF Searching, Found, Return
  <2> QED
    BY <1>0, <2>1 DEF Fits, DayFits
<1>3. pc' \in {"hour", "day", "month", "return"}
  <2>1. Head(stack) \in Frame
    BY HeadTailProperties DEF Return, Searching, ExprTypes
  <2> QED
    BY <2>1 DEF Return, Frame
<1> QED
  BY <1>1, <1>2, <1>3 DEF Found

LEMMA FinishStep ==
    ASSUME Searching, Finish
    PROVE  (Reached /\ Found)'
<1> DEFINE t == Instant[cal]
<1>0. from \in From /\ again \in BOOLEAN /\ UNCHANGED <<expr, from>> /\ from \in Nat /\ Fits(cal)
  BY FromType DEF Searching, ExprTypes, Finish, Found
<1>1. t \in Nat /\ cal = Calendar[t] /\ Start <= t
  BY <1>0, ReachedNow DEF Searching
<1> HIDE DEF t
\* The date itself fits: the search goes on at the next second.
<1>2. CASE t = from /\ ~again
  <2>1. /\ cal' = add_to_field(cal, "sec") /\ dot' = add_to_field(cal, "sec").year
        /\ again' = TRUE /\ pc' = "second"
    BY <1>2 DEF Finish, t
  <2> DEFINE u == t + 1
  <2>2. add_to_field(cal, "sec") = Calendar[u] /\ u \in Nat
    <3>1. Calendar[t].sec = t % Sec /\ Mi(t) \in Nat
      BY <1>1, CalendarFields, Parts
    <3>2. (t % Sec) + 1 \in Nat
      <4>1. t % Sec \in 0 .. Sec - 1 /\ Sec \in Nat
        BY <1>1, Parts, Lengths
      <4> QED
        BY <4>1
    <3>3. mktime[[Calendar[t] EXCEPT !.sec = @ + 1]] = Calendar[Mi(t) * Sec + ((t % Sec) + 1)]
      BY <1>1, <3>1, <3>2, PutSecond
    <3>4. Mi(t) * Sec + ((t % Sec) + 1) = t + 1
      <4>1. t = Mi(t) * Sec + (t % Sec) /\ Mi(t) * Sec \in Nat /\ t % Sec \in 0 .. Sec - 1
        BY <1>1, Parts, TimesNext, Lengths
      <4>2. Sec \in Nat
        BY Lengths
      <4> QED
        BY <4>1, <4>2
    <3>5. t + 1 \in Nat
      BY <1>1
    <3> QED
      BY <1>1, <3>3, <3>4, <3>5 DEF add_to_field
  <2> HIDE DEF u
  <2>3. cal' = Calendar[u] /\ cal' \in Broken /\ Instant[cal'] = u /\ dot' = Calendar[u].year
    BY <2>1, <2>2, CalendarFields, RoundTrip
  <2>4. Start' = u
    BY <1>0, <1>2, <2>1 DEF Start, u
  <2>5. Reached'
    <3>1. Start' .. Instant[cal'] - 1 = {}
      BY <2>2, <2>3, <2>4
    <3>2. Instant[cal'] >= Start' /\ cal' = Calendar[Instant[cal']]
      BY <2>2, <2>3, <2>4
    <3> HIDE DEF Start
    <3> QED
      BY <2>3, <2>4, <3>1, <3>2 DEF Reached
  <2> QED
    BY <2>1, <2>5 DEF Found
<1>3. CASE ~(t = from /\ ~again)
  <2>1. result' = t /\ pc' = "done" /\ UNCHANGED <<cal, dot, again>>
    BY <1>3 DEF Finish, t
  <2>2. Reached'
    BY <1>0, <2>1, ReachedStays DEF Searching
  <2>3. t > from
    BY <1>0, <1>1, <1>3 DEF Start
  <2>4. Fits(cal)'
    BY <1>0, <2>1 DEF Fits, DayFits
  <2>5. result' = Instant[cal'] /\ result' > from'
    BY <1>0, <2>1, <2>3 DEF t
  <2> QED
    BY <2>1, <2>2, <2>4, <2>5 DEF Found
<1> QED
  BY <1>2, <1>3

LEMMA ExprInitInv == ExprInit => ExprInv
<1> SUFFICES ASSUME ExprInit  PROVE ExprInv
  OBVIOUS
<1>1. ExprTypes
  BY EmptySeq DEF ExprInit, ExprTypes, Frame
<1>2. from \in Nat
  BY FromType DEF ExprInit
<1>3. cal = Calendar[from] /\ cal \in Broken /\ Instant[cal] = from /\ dot = Calendar[from].year
  BY <1>2, CalendarFields, RoundTrip DEF ExprInit
<1>4. Start = from
  BY DEF ExprInit, Start
<1>5. Reached
  <2>1. Start .. Instant[cal] - 1 = {} /\ Instant[cal] >= Start
    BY <1>2, <1>3, <1>4
  <2> HIDE DEF Start
  <2> QED
    BY <1>3, <1>4, <2>1 DEF Reached
<1>6. Found
  BY DEF ExprInit, Found
<1> QED
  BY <1>1, <1>5, <1>6, InvParts

LEMMA ExprNextInv == ExprInv /\ [ExprNext]_exprVars => ExprInv'
<1> SUFFICES ASSUME ExprInv, [ExprNext]_exprVars  PROVE ExprInv'
  OBVIOUS
<1>0. ExprTypes /\ (Regular => Reached /\ Found)
  BY InvParts
<1>1. ExprTypes'
  BY <1>0, StepTypes
<1>2. ASSUME Regular  PROVE (Reached /\ Found)'
  <2>1. Searching
    BY <1>0, <1>2, SearchableText DEF Searching, ExprTypes, ParsedText
  <2>2. CASE UNCHANGED exprVars
    <3>1. Reached'
      BY <2>1, <2>2, ReachedStays DEF exprVars, Searching, ExprTypes
    <3>2. Fits(cal)' <=> Fits(cal)
      BY <2>2 DEF exprVars, Fits, DayFits
    <3>3. /\ SecondFound' <=> SecondFound
          /\ DayFits(cal)' <=> DayFits(cal)
          /\ TooFar(cal)' <=> TooFar(cal)
      BY <2>2 DEF exprVars, SecondFound, DayFits, TooFar
    <3>4. Found'
      BY <2>1, <2>2, <3>2, <3>3 DEF exprVars, Searching, Found
    <3> QED
      BY <3>1, <3>4
  <2> QED
    BY <2>1, <2>2, SecondStep, MinuteStep, HourStep, DayStepStep, MonthStep, ReturnStep, FinishStep
       DEF ExprNext
<1>3. Regular' <=> Regular
  BY RegularStays
<1> QED
  BY <1>1, <1>2, <1>3 DEF ExprInv, ExprTypes, Frame

LEMMA YearMono ==
    ASSUME NEW t \in Nat, NEW u \in Nat, t <= u
    PROVE  Calendar[t].year <= Calendar[u].year
<1>1. Mo(t) \in Nat /\ Mo(u) \in Nat /\ Mo(t) <= Mo(u) /\ Months \in Nat \ {0}
  BY Parts, PartsMono, Lengths
<1>2. Calendar[t].year = Mo(t) \div Months /\ Calendar[u].year = Mo(u) \div Months
  BY CalendarFields
<1> QED
  BY <1>1, <1>2, DivisionMono

LEMMA LastInstantType ==
    ASSUME NEW y \in Nat
    PROVE  LastInstant(y) \in Int
<1>1. (y + 1) * Months \in Nat
  BY Lengths, TimesNext, y + 1 \in Nat
<1>2. FirstDay((y + 1) * Months) \in Nat
  BY <1>1, FirstDayStep
<1>3. FirstDay((y + 1) * Months) * Hours \in Nat
  BY <1>2, Lengths
<1>4. FirstDay((y + 1) * Months) * Hours * Min60 \in Nat
  BY <1>3, Lengths
<1>5. FirstDay((y + 1) * Months) * Hours * Min60 * Sec \in Nat
  BY <1>4, Lengths
<1> QED
  BY <1>5 DEF LastInstant

\* The years a search that gives up has seen.
LEMMA LastInstantBefore ==
    ASSUME NEW t \in Nat, NEW y \in Nat, Calendar[t].year > y
    PROVE  LastInstant(y) < t
<1>0. /\ Sec \in Nat \ {0} /\ Min60 \in Nat \ {0} /\ Hours \in Nat \ {0} /\ Months \in Nat \ {0}
  BY Lengths
<1> DEFINE k == (y + 1) * Months
           q == Mo(t) \div Months
           F == FirstDay(k)
<1>1. /\ q \in Nat /\ q > y /\ Mo(t) = q * Months + (Mo(t) % Months)
      /\ Mo(t) % Months \in 0 .. Months - 1 /\ Mo(t) \in Nat
      /\ FirstDay(Mo(t)) \in Nat /\ FirstDay(Mo(t)) <= Da(t)
  BY CalendarFields, Parts
<1>2. k \in Nat /\ k <= Mo(t)
  <2> DEFINE p == Mo(t) % Months
             m == Mo(t)
             l == q * Months
  <2> HIDE DEF q
  <2>1. k <= l /\ k \in Nat /\ l \in Nat
    BY <1>0, <1>1, TimesMono, TimesNext, y + 1 \in Nat
  <2>2. m = l + p /\ p \in 0 .. Months - 1
    BY <1>1
  <2> HIDE DEF k, p, m, l
  <2>3. k <= m
    BY <1>0, <2>1, <2>2
  <2> QED
    BY <2>1, <2>3 DEF m
<1> HIDE DEF k, q
<1>3. F \in Nat /\ F <= Da(t) /\ Da(t) \in Nat
  <2>1. F \in Nat /\ MonthLength(k) \in Nat /\ Da(t) \in Nat
    BY <1>2, FirstDayStep, MonthLengthType, Parts
  <2>2. CASE k = Mo(t)
    BY <1>1, <2>1, <2>2
  <2>3. CASE k < Mo(t)
    <3>1. F + MonthLength(k) <= FirstDay(Mo(t))
      BY <1>1, <1>2, <2>3, FirstDayMono
    <3> HIDE DEF F
    <3> QED
      BY <1>1, <2>1, <3>1
  <2> QED
    BY <1>1, <1>2, <2>2, <2>3
<1> HIDE DEF F
\* The first instant of day F is not after t.
<1> DEFINE u == MomentOf(F, 0, 0, 0)
<1>4. u = F * Hours * Min60 * Sec /\ u \in Nat
  <2>1. F * Hours \in Nat /\ F * Hours + 0 = F * Hours
    BY <1>0, <1>3
  <2>2. F * Hours * Min60 \in Nat /\ F * Hours * Min60 + 0 = F * Hours * Min60
    BY <1>0, <2>1
  <2>3. F * Hours * Min60 * Sec \in Nat /\ F * Hours * Min60 * Sec + 0 = F * Hours * Min60 * Sec
    BY <1>0, <2>2
  <2> QED
    BY <2>1, <2>2, <2>3 DEF MomentOf
<1>5. u <= t
  <2>1. /\ Da(u) = F /\ Ho(u) % Hours = 0 /\ Mi(u) % Min60 = 0 /\ u % Sec = 0
    <3>1. 0 \in 0 .. Hours - 1 /\ 0 \in 0 .. Min60 - 1 /\ 0 \in 0 .. Sec - 1
      BY <1>0
    <3> QED
      BY <1>3, <3>1, FromDay
  <2>2. SUFFICES ASSUME t < u  PROVE FALSE
    BY <1>4
  <2> HIDE DEF u
  <2>3. Da(t) <= Da(u)
    BY <1>4, <2>2, PartsMono
  <2>4. Da(t) = Da(u)
    BY <1>3, <2>1, <2>3
  <2>5. Mi(t) = Mi(u)
    BY <1>4, <2>1, <2>2, <2>4, SameDay, SameHour
  <2>6. t % Sec < u % Sec
    BY <1>4, <2>2, <2>5, SameMinute
  <2>7. t % Sec \in 0 .. Sec - 1
    BY Parts
  <2> QED
    BY <1>0, <2>1, <2>6, <2>7
<1>6. LastInstant(y) = u - 1
  BY <1>4 DEF LastInstant, F, k
<1> HIDE DEF u
<1> QED
  BY <1>4, <1>5, <1>6

\* The invariant says what FindsNext promises.
LEMMA ExprInvFinds == ExprInv => FindsNext
<1> SUFFICES ASSUME ExprInv, pc = "done", Regular
             PROVE  IF result = -1
                    THEN \A t \in from + 1 .. LastInstant(Calendar[from].year + YearsDiff) : ~Matches(t)
                    ELSE /\ result > from /\ Matches(result)
                         /\ \A t \in from + 1 .. result - 1 : ~Matches(t)
  BY DEF FindsNext
<1>0. ExprTypes /\ Reached /\ Found
  BY InvParts
<1>1. Searchable /\ BitsMean /\ BitSets
  BY <1>0, SearchableText DEF ExprTypes, ParsedText, Searchable
<1>2. /\ from \in Nat /\ YearsDiff \in Nat /\ Calendar[from].year \in Nat
      /\ dot \in Nat /\ Calendar[from].year <= dot
  <2>1. from \in Nat /\ YearsDiff \in Nat
    BY <1>0, FromType, Lengths DEF ExprTypes
  <2>2. Start \in Nat /\ from <= Start /\ dot = Calendar[Start].year
    BY <1>0, <2>1 DEF Reached, Start
  <2> HIDE DEF Start
  <2> QED
    BY <2>1, <2>2, YearMono, CalendarFields
<1> DEFINE t == Instant[cal]
<1>3. /\ t \in Nat /\ cal = Calendar[t]
      /\ \A w \in Nat : Start <= w /\ w < t => ~FitsAt(w)
  BY <1>0, ReachedNow DEF ExprTypes
<1>4. (result = -1 /\ TooFar(cal)) \/ (result = t /\ result > from /\ Fits(cal))
  BY <1>0 DEF Found
<1> HIDE DEF t
<1>5. ASSUME NEW w \in Nat, from < w, w < t  PROVE ~Matches(w)
  <2>1. Start <= w
    BY <1>2, <1>5 DEF Start
  <2> QED
    BY <1>1, <1>3, <1>5, <2>1, FitsMatches
<1>6. CASE result = -1 /\ TooFar(cal)
  <2> DEFINE y == Calendar[from].year + YearsDiff
  <2>1. y \in Nat /\ Calendar[t].year > y
    <3>1. Calendar[t].year \in Nat
      BY <1>3, CalendarFields
    <3> QED
      BY <1>2, <1>3, <1>6, <3>1 DEF TooFar
  <2> HIDE DEF y
  <2>2. LastInstant(y) < t
    BY <1>3, <2>1, LastInstantBefore
  <2>3. ASSUME NEW w \in from + 1 .. LastInstant(y)  PROVE ~Matches(w)
    <3>1. w \in Nat /\ from < w /\ w < t
      <4>1. LastInstant(y) \in Int
        BY <2>1, LastInstantType
      <4> QED
        BY <1>2, <1>3, <2>2, <2>3, <4>1
    <3> QED
      BY <1>5, <3>1
  <2> QED
    BY <1>6, <2>3 DEF y
<1>7. CASE result = t /\ result > from /\ Fits(cal)
  <2>1. result # -1
    BY <1>3, <1>7
  <2>2. Matches(result)
    BY <1>1, <1>3, <1>7, FitsMatches DEF FitsAt
  <2>3. ASSUME NEW w \in from + 1 .. result - 1  PROVE ~Matches(w)
    <3>1. w \in Nat /\ from < w /\ w < t
      BY <1>2, <1>3, <1>7, <2>3
    <3> QED
      BY <1>5, <3>1
  <2> QED
    BY <1>7, <2>1, <2>2, <2>3
<1> QED
  BY <1>4, <1>6, <1>7

\* cron_next finds the next instant of the text, for every calendar, text and date:
\* what it returns is after the date and matches, and nothing between them does.
THEOREM CronNextFinds == ExprSpec => []FindsNext
<1>1. ExprSpec => []ExprInv
  BY ExprInitInv, ExprNextInv, PTL DEF ExprSpec
<1>2. QED
  BY <1>1, ExprInvFinds, PTL

\* add_cron's text for a schedule of one time of the day.
DailyText(tx, h, m) ==
    /\ tx.sec = <<Number(0)>> /\ tx.min = <<Number(m)>> /\ tx.hour = <<Number(h)>>
    /\ tx.mday = <<Star>> /\ tx.mon = <<Star>> /\ tx.wday = <<Star>>

LEMMA DailyBits ==
    ASSUME ParsedText, NEW h \in 0 .. Hours - 1, NEW m \in 0 .. Min60 - 1, DailyText(text, h, m)
    PROVE  /\ NoErrors /\ BitSets /\ BitsMean
           /\ expr.sec = {0} /\ expr.min = {m} /\ expr.hour = {h}
           /\ expr.mday = 1 .. MaxDayOfMonth /\ expr.mon = 0 .. Months - 1
           /\ expr.wday = 0 .. Week - 1
<1>0. /\ Sec \in Nat \ {0} /\ Min60 \in Nat \ {0} /\ Hours \in Nat \ {0} /\ Week \in Nat \ {0}
      /\ Months \in Nat \ {0} /\ MaxDayOfMonth \in Nat \ {0} /\ h \in Nat /\ m \in Nat
  BY Lengths, DaysType
<1>1. Star.lo = -1 /\ Star.by = 0
  BY DEF Star
<1>2. \A i \in Nat : Number(i).lo = i /\ Number(i).hi = i /\ Number(i).by = 0
  BY DEF Number
<1>3. ASSUME NEW min \in Nat, NEW max \in Nat  PROVE ~Rejected(Star, min, max)
  BY <1>1 DEF Rejected
<1>4. ASSUME NEW i \in Nat, NEW max \in Nat, i < max  PROVE ~Rejected(Number(i), 0, max)
  BY <1>2, <1>4 DEF Rejected
<1>5. NoErrors
  <2> SUFFICES ASSUME NEW i \in 1 .. 6  PROVE ~Bad(text, i)
    BY DEF NoErrors
  <2>1. /\ ~Rejected(Number(0), 0, Sec) /\ ~Rejected(Number(m), 0, Min60)
        /\ ~Rejected(Number(h), 0, Hours) /\ ~Rejected(Star, 0, Week + 1)
        /\ ~Rejected(Star, 1, MaxDayOfMonth + 1) /\ ~Rejected(Star, 1, Months + 1)
    BY <1>0, <1>3, <1>4
  <2>2. /\ Lowest["sec"] = 0 /\ Lowest["min"] = 0 /\ Lowest["hour"] = 0 /\ Lowest["wday"] = 0
        /\ Lowest["mday"] = 1 /\ Lowest["mon"] = 1
        /\ Above["sec"] = Sec /\ Above["min"] = Min60 /\ Above["hour"] = Hours
        /\ Above["wday"] = Week + 1
        /\ Above["mday"] = MaxDayOfMonth + 1 /\ Above["mon"] = Months + 1
    BY DEF Lowest, Above
  <2>3. ASSUME NEW f, NEW p, text[f] = <<p>>, ~Rejected(p, Lowest[f], Above[f])
        PROVE  \A j \in DOMAIN text[f] : ~Rejected(text[f][j], Lowest[f], Above[f])
    BY <2>3
  <2>4. i = 1 \/ i = 2 \/ i = 3 \/ i = 4 \/ i = 5 \/ i = 6
    OBVIOUS
  <2>5. /\ text["sec"] = <<Number(0)>> /\ text["min"] = <<Number(m)>>
        /\ text["hour"] = <<Number(h)>> /\ text["mday"] = <<Star>> /\ text["mon"] = <<Star>>
        /\ text["wday"] = <<Star>>
    BY DEF DailyText
  <2>6. \A f \in {"sec", "min", "hour", "wday", "mday", "mon"} :
            \A j \in DOMAIN text[f] : ~Rejected(text[f][j], Lowest[f], Above[f])
    BY <2>1, <2>2, <2>3, <2>5
  <2> QED
    BY <2>4, <2>6, FieldNames DEF Bad
<1>6. BitSets /\ BitsMean
  BY <1>5, BitsAreMeant DEF ParsedText
<1>7. ASSUME NEW i \in Nat, NEW v \in Nat, Covers(Number(i), v, 0)  PROVE v = i
  BY <1>2, <1>7 DEF Covers
<1>8. expr.sec = {0}
  <2>1. ASSUME NEW v \in expr.sec  PROVE v = 0
    <3>1. v \in 0 .. Sec - 1 /\ Means("sec", v)
      BY <1>6 DEF BitSets, BitsMean
    <3>2. PICK i \in DOMAIN text.sec : Covers(text.sec[i], v, 0)
      BY <3>1, MeansCovers
    <3>3. text.sec[i] = Number(0) /\ v \in Nat
      BY <1>0, <3>1, <3>2 DEF DailyText
    <3> QED
      BY <1>7, <3>2, <3>3
  <2> QED
    BY <1>6, <2>1 DEF BitSets
<1>9. expr.min = {m}
  <2>1. ASSUME NEW v \in expr.min  PROVE v = m
    <3>1. v \in 0 .. Min60 - 1 /\ Means("min", v)
      BY <1>6 DEF BitSets, BitsMean
    <3>2. PICK i \in DOMAIN text.min : Covers(text.min[i], v, 0)
      BY <3>1, MeansCovers
    <3>3. text.min[i] = Number(m) /\ v \in Nat
      BY <1>0, <3>1, <3>2 DEF DailyText
    <3> QED
      BY <1>0, <1>7, <3>2, <3>3
  <2> QED
    BY <1>6, <2>1 DEF BitSets
<1>10. expr.hour = {h}
  <2>1. ASSUME NEW v \in expr.hour  PROVE v = h
    <3>1. v \in 0 .. Hours - 1 /\ Means("hour", v)
      BY <1>6 DEF BitSets, BitsMean
    <3>2. PICK i \in DOMAIN text.hour : Covers(text.hour[i], v, 0)
      BY <3>1, MeansCovers
    <3>3. text.hour[i] = Number(h) /\ v \in Nat
      BY <1>0, <3>1, <3>2 DEF DailyText
    <3> QED
      BY <1>0, <1>7, <3>2, <3>3
  <2> QED
    BY <1>6, <2>1 DEF BitSets
<1>11. ASSUME NEW v \in Nat, NEW min \in Nat, min <= v  PROVE Covers(Star, v, min)
  BY <1>1, <1>11 DEF Covers
<1>12. expr.mday = 1 .. MaxDayOfMonth
  <2>1. ASSUME NEW v \in 1 .. MaxDayOfMonth  PROVE v \in expr.mday
    <3>1. 1 \in DOMAIN text.mday /\ text.mday[1] = Star
      BY DEF DailyText
    <3>2. Covers(Star, v, 1)
      BY <1>0, <1>11, <2>1
    <3> QED
      BY <1>6, <2>1, <3>1, <3>2, MeansCovers DEF BitsMean
  <2> QED
    BY <1>6, <2>1 DEF BitSets
<1>13. expr.mon = 0 .. Months - 1
  <2>1. ASSUME NEW v \in 0 .. Months - 1  PROVE v \in expr.mon
    <3>1. 1 \in DOMAIN text.mon /\ text.mon[1] = Star
      BY DEF DailyText
    <3>2. Covers(Star, v + 1, 1)
      BY <1>0, <1>11, <2>1
    <3> QED
      BY <1>6, <2>1, <3>1, <3>2, MeansCovers DEF BitsMean
  <2> QED
    BY <1>6, <2>1 DEF BitSets
<1>14. expr.wday = 0 .. Week - 1
  <2>1. ASSUME NEW v \in 0 .. Week - 1  PROVE v \in expr.wday
    <3>1. 1 \in DOMAIN text.wday /\ text.wday[1] = Star
      BY DEF DailyText
    <3>2. Covers(Star, v, 0) /\ v \in IF v = 0 THEN {0, Week} ELSE {v}
      BY <1>0, <1>11, <2>1
    <3>3. Means("wday", v)
      BY <3>1, <3>2, MeansCovers
    <3> QED
      BY <1>6, <2>1, <3>3 DEF BitsMean
  <2> QED
    BY <1>6, <2>1 DEF BitSets
<1> QED
  BY <1>5, <1>6, <1>8, <1>9, <1>10, <1>12, <1>13, <1>14

\* The text that the schedule of a day is written as (config.cpp:181) is one that
\* cron_next can search, at whatever hour and minute: FindsNext is about it.
THEOREM DailyTextIsRegular ==
    ASSUME text \in Text, expr = cron_parse_expr(text),
           NEW h \in 0 .. Hours - 1, NEW m \in 0 .. Min60 - 1, DailyText(text, h, m)
    PROVE  Regular
<1>1. NoErrors /\ expr.sec = {0} /\ expr.mday = 1 .. MaxDayOfMonth /\ expr.mon = 0 .. Months - 1
  BY DailyBits DEF ParsedText
<1>2. \A a, b \in expr.sec : a .. b \subseteq expr.sec
  BY <1>1
<1> QED
  BY <1>1, <1>2 DEF Regular, NoErrors
-----------------------------------------------------------------------------
(* What CronSched takes cron_next for *)

\* The instants of a day, and the time of day of hour h, minute m.
OneDay == Hours * Min60 * Sec
TimeOfDay(h, m) == (h * Min60 + m) * Sec

LEMMA Distributes ==
    ASSUME NEW a \in Int, NEW b \in Int, NEW c \in Int
    PROVE  (a + b) * c = a * c + b * c /\ (a * b) * c = a * (b * c) /\ a * b \in Int
OBVIOUS

LEMMA OneDayType == OneDay \in Nat \ {0}
<1>1. Hours \in Nat \ {0} /\ Min60 \in Nat \ {0} /\ Sec \in Nat \ {0}
  BY Lengths
<1>2. Hours * Min60 \in Nat \ {0}
  BY <1>1
<1> DEFINE p == Hours * Min60
<1> HIDE DEF p
<1>3. p * Sec \in Nat \ {0}
  BY <1>1, <1>2 DEF p
<1> QED
  BY <1>3 DEF OneDay, p

LEMMA MomentInDay ==
    ASSUME NEW d \in Nat, NEW h \in Nat, NEW m \in Nat, NEW s \in Nat
    PROVE  MomentOf(d, h, m, s) = d * OneDay + TimeOfDay(h, m) + s
<1>0. Hours \in Int /\ Min60 \in Int /\ Sec \in Int
  BY Lengths
<1>1. (d * Hours + h) * Min60 = d * (Hours * Min60) + h * Min60
  BY <1>0, Distributes
<1> DEFINE p == Hours * Min60
           q == h * Min60
<1>2. p \in Int /\ q \in Int /\ d * p \in Int /\ q + m \in Int
  BY <1>0, Distributes
<1>3. (d * p + (q + m)) * Sec = (d * p) * Sec + (q + m) * Sec
  <2> HIDE DEF p, q
  <2> QED
    BY <1>0, <1>2, Distributes
<1>4. (d * p) * Sec = d * (p * Sec)
  <2> HIDE DEF p
  <2> QED
    BY <1>0, <1>2, Distributes
<1>5. (d * Hours + h) * Min60 + m = d * p + (q + m)
  <2> DEFINE l == (d * Hours + h) * Min60
             r == d * p
  <2>1. l = r + q
    BY <1>1
  <2> HIDE DEF l, r, p, q
  <2>2. l + m = r + (q + m)
    BY <1>2, <2>1 DEF r
  <2> QED
    BY <2>2 DEF l, r
<1> HIDE DEF p, q
<1> QED
  BY <1>3, <1>4, <1>5 DEF MomentOf, OneDay, TimeOfDay, p, q

LEMMA TimeOfDayType ==
    ASSUME NEW h \in 0 .. Hours - 1, NEW m \in 0 .. Min60 - 1, NEW s \in 0 .. Sec - 1
    PROVE  TimeOfDay(h, m) \in Nat /\ TimeOfDay(h, m) + s \in 0 .. OneDay - 1
<1>0. Hours \in Nat \ {0} /\ Min60 \in Nat \ {0} /\ Sec \in Nat \ {0} /\ h \in Nat /\ m \in Nat
  BY Lengths
<1> DEFINE a == h * Min60 + m
           p == Hours * Min60
<1>1. a \in Nat /\ p \in Nat /\ a + 1 <= p
  <2>1. h * Min60 \in Nat /\ (h + 1) * Min60 = h * Min60 + Min60 /\ h + 1 \in Nat /\ h + 1 <= Hours
    BY <1>0, TimesNext
  <2>2. (h + 1) * Min60 <= p
    BY <1>0, <2>1, TimesMono
  <2>3. p \in Nat
    BY <1>0, TimesNext
  <2> DEFINE x == h * Min60
  <2> HIDE DEF x, p
  <2> QED
    BY <1>0, <2>1, <2>2, <2>3 DEF x
<1> HIDE DEF a, p
<1>2. a * Sec \in Nat /\ (a + 1) * Sec = a * Sec + Sec /\ (a + 1) * Sec <= p * Sec /\ p * Sec \in Nat
  BY <1>0, <1>1, TimesNext, TimesMono
<1>3. a * Sec + s \in 0 .. p * Sec - 1
  <2> DEFINE x == a * Sec
             y == p * Sec
  <2>1. x \in Nat /\ y \in Nat /\ x + Sec <= y
    BY <1>2
  <2> HIDE DEF x, y
  <2>2. x + s \in 0 .. y - 1
    BY <1>0, <2>1
  <2> QED
    BY <2>2 DEF x, y
<1> QED
  BY <1>2, <1>3 DEF a, p, TimeOfDay, OneDay

LEMMA PartsOfDay ==
    ASSUME NEW t \in Nat
    PROVE  LET x == TimeOfDay(Ho(t) % Hours, Mi(t) % Min60) + (t % Sec)
           IN  t = Da(t) * OneDay + x /\ x \in 0 .. OneDay - 1
<1> DEFINE h == Ho(t) % Hours
           m == Mi(t) % Min60
           s == t % Sec
<1>1. /\ h \in 0 .. Hours - 1 /\ m \in 0 .. Min60 - 1 /\ s \in 0 .. Sec - 1
      /\ Da(t) \in Nat /\ t = Mi(t) * Sec + s /\ Mi(t) = Ho(t) * Min60 + m
      /\ Ho(t) = Da(t) * Hours + h
  BY Parts
<1>2. h \in Nat /\ m \in Nat /\ s \in Nat /\ Sec \in Nat \ {0} /\ Hours \in Nat /\ Min60 \in Nat
  <2> HIDE DEF h, m, s
  <2> QED
    BY <1>1, Lengths
<1> HIDE DEF h, m, s
<1>3. t = MomentOf(Da(t), h, m, s)
  BY <1>1 DEF MomentOf
<1>4. t = Da(t) * OneDay + TimeOfDay(h, m) + s
  BY <1>1, <1>2, <1>3, MomentInDay
<1>5. TimeOfDay(h, m) \in Nat /\ TimeOfDay(h, m) + s \in 0 .. OneDay - 1
  BY <1>1, TimeOfDayType
<1>6. Da(t) * OneDay \in Nat
  BY <1>1, OneDayType, TimesNext
<1> DEFINE x == TimeOfDay(h, m)
           y == Da(t) * OneDay
<1>7. t = y + (x + s)
  <2>1. t = y + x + s
    BY <1>4
  <2> HIDE DEF x, y
  <2> QED
    BY <1>2, <1>5, <1>6, <2>1 DEF x, y
<1> QED
  BY <1>5, <1>7 DEF h, m, s

\* The texts of a day: an instant matches if it is the time of a day.
LEMMA DailyMatches ==
    ASSUME ParsedText, NEW h \in 0 .. Hours - 1, NEW m \in 0 .. Min60 - 1, DailyText(text, h, m),
           NEW t \in Nat
    PROVE  Matches(t) <=> t % OneDay = TimeOfDay(h, m)
<1> DEFINE hh == Ho(t) % Hours
           mm == Mi(t) % Min60
           ss == t % Sec
<1>0. /\ h \in Nat /\ m \in Nat /\ OneDay \in Nat \ {0} /\ 0 \in 0 .. Sec - 1
      /\ Sec \in Nat \ {0} /\ Months \in Nat \ {0} /\ Week \in Nat \ {0}
  BY Lengths, OneDayType
<1>1. /\ hh \in 0 .. Hours - 1 /\ mm \in 0 .. Min60 - 1 /\ ss \in 0 .. Sec - 1
      /\ Da(t) \in Nat
  BY Parts
<1>2. DayOK(Da(t)) /\ Mo(t) % Months \in expr.mon
  <2>1. Da(t) - FirstDay(Mo(t)) + 1 \in 1 .. MaxDayOfMonth
    <3>1. /\ FirstDay(Mo(t)) \in Nat /\ FirstDay(Mo(t)) <= Da(t)
          /\ Da(t) < FirstDay(Mo(t)) + MonthLength(Mo(t))
          /\ MonthLength(Mo(t)) \in Nat /\ MonthLength(Mo(t)) <= MaxDayOfMonth
      BY CalendarFields
    <3>2. MaxDayOfMonth \in Nat
      BY Lengths
    <3> QED
      BY <1>1, <3>1, <3>2
  <2>2. Da(t) % Week \in 0 .. Week - 1
    BY <1>0, <1>1, Division
  <2>3. Mo(t) % Months \in 0 .. Months - 1
    BY CalendarFields
  <2> QED
    BY <2>1, <2>2, <2>3, DailyBits DEF DayOK, Mo
<1>3. Matches(t) <=> ss = 0 /\ mm = m /\ hh = h
  <2>1. Matches(t) <=> FitsAt(t)
    BY DailyBits, FitsMatches
  <2>2. expr.sec = {0} /\ expr.min = {m} /\ expr.hour = {h}
    BY DailyBits
  <2> QED
    BY <1>2, <2>1, <2>2, FitsParts
<1>4. ASSUME ss = 0, mm = m, hh = h  PROVE t % OneDay = TimeOfDay(h, m)
  <2>1. t = Da(t) * OneDay + (TimeOfDay(h, m) + 0) /\ TimeOfDay(h, m) + 0 \in 0 .. OneDay - 1
    BY <1>4, PartsOfDay
  <2>2. TimeOfDay(h, m) \in Nat
    BY <1>0, TimeOfDayType
  <2>3. TimeOfDay(h, m) + 0 = TimeOfDay(h, m)
    BY <2>2
  <2> QED
    BY <1>0, <1>1, <2>1, <2>3, DivisionUnique
<1>5. ASSUME t % OneDay = TimeOfDay(h, m)  PROVE ss = 0 /\ mm = m /\ hh = h
  <2> DEFINE d == t \div OneDay
  <2>1. d \in Nat /\ t = d * OneDay + TimeOfDay(h, m)
    BY <1>0, <1>5, Division
  <2> HIDE DEF d
  <2>2. MomentOf(d, h, m, 0) = d * OneDay + TimeOfDay(h, m) + 0
    BY <1>0, <2>1, MomentInDay
  <2>3. MomentOf(d, h, m, 0) = t
    BY <2>1, <2>2
  <2> QED
    BY <1>0, <2>1, <2>3, FromDay
<1> HIDE DEF hh, mm, ss
<1> QED
  BY <1>3, <1>4, <1>5

\* A day later it is the next year at most.
LEMMA DayLater ==
    ASSUME NEW t \in Nat, NEW r \in Nat, r <= t + OneDay
    PROVE  Calendar[r].year <= Calendar[t].year + 1
<1> DEFINE d == Da(t)
           k == Mo(t)
           u == t + OneDay
<1>0. d \in Nat /\ k \in Nat /\ OneDay \in Nat \ {0} /\ u \in Nat /\ Months \in Nat \ {0}
  BY Parts, OneDayType, Lengths
<1>1. Da(u) = d + 1
  <2> DEFINE h == Ho(t) % Hours
             m == Mi(t) % Min60
             s == t % Sec
  <2>1. h \in 0 .. Hours - 1 /\ m \in 0 .. Min60 - 1 /\ s \in 0 .. Sec - 1
    BY Parts
  <2>2. h \in Nat /\ m \in Nat /\ s \in Nat
    <3> HIDE DEF h, m, s
    <3> QED
      BY <2>1, Lengths
  <2>3. t = d * OneDay + (TimeOfDay(h, m) + s) /\ TimeOfDay(h, m) \in Nat
    BY <2>1, PartsOfDay, TimeOfDayType
  <2> HIDE DEF h, m, s, d
  <2>4. MomentOf(d + 1, h, m, s) = (d + 1) * OneDay + TimeOfDay(h, m) + s
    BY <1>0, <2>2, MomentInDay
  <2>5. (d + 1) * OneDay = d * OneDay + OneDay /\ d * OneDay \in Nat
    BY <1>0, TimesNext
  <2>6. u = MomentOf(d + 1, h, m, s)
    <3> DEFINE x == d * OneDay
               z == TimeOfDay(h, m)
    <3>1. t = x + (z + s) /\ MomentOf(d + 1, h, m, s) = (x + OneDay) + z + s
      BY <2>3, <2>4, <2>5
    <3>2. x \in Nat /\ z \in Nat
      BY <2>3, <2>5
    <3> HIDE DEF x, z
    <3> QED
      BY <1>0, <2>2, <3>1, <3>2
  <2> HIDE DEF u
  <2>7. Da(u) = d + 1
    BY <1>0, <2>1, <2>6, FromDay
  <2> QED
    BY <2>7 DEF d
<1>2. Mo(u) \in Nat /\ FirstDay(Mo(u)) <= d + 1 /\ FirstDay(Mo(u)) \in Nat /\ Mo(r) <= Mo(u)
  BY <1>0, <1>1, CalendarFields, Parts, PartsMono
<1>3. /\ FirstDay(k) \in Nat /\ d < FirstDay(k) + MonthLength(k)
      /\ FirstDay(k + 1) = FirstDay(k) + MonthLength(k) /\ FirstDay(k + 1) \in Nat
      /\ MonthLength(k + 1) \in Nat \ {0}
  <2>1. MonthLength(k + 1) \in Nat /\ Week <= MonthLength(k + 1) /\ Week \in Nat \ {0}
    BY <1>0, MonthLengthType, Lengths
  <2>2. FirstDay(k + 1) = FirstDay(k) + MonthLength(k) /\ FirstDay(k + 1) \in Nat
    BY <1>0, FirstDayStep
  <2>3. FirstDay(k) \in Nat /\ d < FirstDay(k) + MonthLength(k)
    BY CalendarFields
  <2>4. MonthLength(k + 1) \in Nat \ {0}
    BY <2>1
  <2> QED
    BY <2>2, <2>3, <2>4
<1> DEFINE n == Mo(u)
<1> HIDE DEF d, k, u, n
<1>4. n <= k + 1
  <2> SUFFICES ASSUME k + 1 < n  PROVE FALSE
    BY <1>0, <1>2 DEF n
  <2>1. FirstDay(k + 1) + MonthLength(k + 1) <= FirstDay(n)
    BY <1>0, <1>2, FirstDayMono DEF n
  <2> QED
    BY <1>0, <1>2, <1>3, <2>1 DEF n
<1>5. Mo(r) \in Nat /\ Mo(r) <= k + Months
  BY <1>0, <1>2, <1>4, Parts DEF n
<1>6. Mo(r) \div Months <= (k + Months) \div Months
  BY <1>0, <1>5, DivisionMono
<1>7. (k + Months) \div Months = (k \div Months) + 1
  <2> DEFINE q == k \div Months
             x == k % Months
  <2>1. q \in Nat /\ x \in 0 .. Months - 1 /\ k = q * Months + x
    BY <1>0, Division
  <2> HIDE DEF q, x
  <2>2. (q + 1) * Months = q * Months + Months /\ q * Months \in Nat
    BY <1>0, <2>1, TimesNext
  <2>3. k + Months = (q + 1) * Months + x
    <3> DEFINE y == q * Months
    <3> HIDE DEF y
    <3> QED
      BY <1>0, <2>1, <2>2 DEF y
  <2>4. ((q + 1) * Months + x) \div Months = q + 1
    BY <1>0, <2>1, DivisionUnique
  <2> QED
    BY <2>3, <2>4 DEF q
<1> QED
  BY <1>6, <1>7, CalendarFields DEF k

LEMMA LastInstantAfter ==
    ASSUME NEW t \in Nat, NEW y \in Nat, Calendar[t].year <= y
    PROVE  t <= LastInstant(y)
<1> DEFINE k == (y + 1) * Months
           F == FirstDay(k)
           d == Da(t)
<1>0. /\ Months \in Nat \ {0} /\ OneDay \in Nat \ {0} /\ d \in Nat /\ Mo(t) \in Nat
      /\ Hours \in Int /\ Min60 \in Int /\ Sec \in Int
  BY Lengths, OneDayType, Parts
<1>1. k \in Nat /\ Mo(t) < k
  <2> DEFINE q == Mo(t) \div Months
             x == Mo(t) % Months
  <2>1. q \in Nat /\ x \in 0 .. Months - 1 /\ Mo(t) = q * Months + x /\ q <= y
    BY CalendarFields
  <2> HIDE DEF q, x
  <2>2. /\ q * Months \in Nat /\ (q + 1) * Months = q * Months + Months
        /\ (q + 1) * Months <= (y + 1) * Months /\ (y + 1) * Months \in Nat
    BY <1>0, <2>1, TimesNext, TimesMono, q + 1 \in Nat, y + 1 \in Nat, q + 1 <= y + 1
  <2> DEFINE z == q * Months
  <2> HIDE DEF z, k
  <2> QED
    BY <1>0, <2>1, <2>2 DEF z, k
<1> HIDE DEF k
<1>2. F \in Nat /\ d + 1 <= F
  <2>1. F \in Nat
    BY <1>1, FirstDayStep
  <2>2. FirstDay(Mo(t)) + MonthLength(Mo(t)) <= F
    BY <1>0, <1>1, FirstDayMono
  <2>3. /\ FirstDay(Mo(t)) \in Nat /\ MonthLength(Mo(t)) \in Nat
        /\ d < FirstDay(Mo(t)) + MonthLength(Mo(t))
    BY CalendarFields
  <2> HIDE DEF F, d
  <2> QED
    BY <1>0, <2>1, <2>2, <2>3
<1>3. LastInstant(y) = F * OneDay - 1
  <2>1. F * Hours * Min60 = F * (Hours * Min60) /\ Hours * Min60 \in Int
    BY <1>0, <1>2, Distributes
  <2> DEFINE p == Hours * Min60
  <2>2. (F * p) * Sec = F * (p * Sec)
    <3> HIDE DEF p, F
    <3> QED
      BY <1>0, <1>2, <2>1, Distributes DEF p
  <2> QED
    BY <2>1, <2>2 DEF LastInstant, OneDay, k
<1>4. t < (d + 1) * OneDay
  <2> DEFINE x == TimeOfDay(Ho(t) % Hours, Mi(t) % Min60) + (t % Sec)
             y1 == d * OneDay
  <2>1. t = y1 + x /\ x \in 0 .. OneDay - 1
    BY PartsOfDay
  <2>2. (d + 1) * OneDay = y1 + OneDay /\ y1 \in Nat
    BY <1>0, TimesNext
  <2> HIDE DEF x, y1
  <2> QED
    BY <1>0, <2>1, <2>2
<1>5. (d + 1) * OneDay <= F * OneDay /\ (d + 1) * OneDay \in Nat /\ F * OneDay \in Nat
  BY <1>0, <1>2, TimesMono, TimesNext, d + 1 \in Nat
<1> DEFINE a == (d + 1) * OneDay
           b == F * OneDay
<1>6. a \in Nat /\ b \in Nat /\ a <= b /\ t < a /\ LastInstant(y) = b - 1
  BY <1>3, <1>4, <1>5
<1> HIDE DEF a, b
<1> QED
  BY <1>6

\* For the text of a schedule that cron_next is the one of CronSched: the next time of
\* day after the date.  The years after which a search gives up are one at least.
THEOREM CronNextOfSched ==
    ASSUME NEW e \in Entry, NEW h \in 0 .. Hours - 1, NEW m \in 0 .. Min60 - 1,
           Day = OneDay, At[e] = TimeOfDay(h, m), YearsDiff > 0
    PROVE  ExprSpec => [](pc = "done" /\ DailyText(text, h, m) => result = cron_next(e, from))
<1>1. ASSUME ExprInv, FindsNext, pc = "done", DailyText(text, h, m)
      PROVE  result = cron_next(e, from)
  <2> DEFINE v == TimeOfDay(h, m)
             r == cron_next(e, from)
  <2>1. /\ ParsedText /\ from \in Nat /\ OneDay \in Nat \ {0} /\ YearsDiff \in Nat
        /\ Calendar[from].year \in Nat
    BY <1>1, FromType, OneDayType, Lengths, CalendarFields DEF ExprInv, ParsedText
  <2>2. Regular
    BY <1>1, <2>1, DailyTextIsRegular DEF ParsedText
  <2>3. \A t \in Nat : Matches(t) <=> t % OneDay = v
    BY <1>1, <2>1, DailyMatches
  <2>4. v \in 0 .. OneDay - 1
    <3>1. v \in Nat /\ v + 0 \in 0 .. OneDay - 1
      <4>1. 0 \in 0 .. Sec - 1
        BY Lengths
      <4> QED
        BY <4>1, TimeOfDayType
    <3> HIDE DEF v
    <3> QED
      BY <2>1, <3>1
  <2> HIDE DEF v
  <2>5. r \in from + 1 .. from + OneDay /\ r % OneDay = v
    <3>1. r = from + 1 + ((v - from - 1) % OneDay)
      BY DEF cron_next, v
    <3>2. (v - from - 1) % OneDay \in 0 .. OneDay - 1
      BY <2>1, <2>4
    <3>3. r % OneDay = v
      BY <2>1, CronNextAtItsTime DEF v
    <3> QED
      BY <2>1, <3>1, <3>2, <3>3
  <2> HIDE DEF r
  <2>6. Matches(r) /\ r \in Nat /\ from < r /\ r <= from + OneDay
    BY <2>1, <2>3, <2>5
  \* The search does not give up before r,
  <2>7. result # -1
    <3> SUFFICES ASSUME result = -1  PROVE FALSE
      OBVIOUS
    <3> DEFINE y == Calendar[from].year + YearsDiff
    <3>1. Calendar[r].year <= Calendar[from].year + 1 /\ Calendar[r].year \in Nat
      BY <2>1, <2>6, DayLater, CalendarFields
    <3>2. y \in Nat /\ Calendar[r].year <= y
      BY <2>1, <3>1
    <3>3. r <= LastInstant(y)
      BY <2>6, <3>2, LastInstantAfter
    <3>4. \A t \in from + 1 .. LastInstant(y) : ~Matches(t)
      BY <1>1, <2>2 DEF FindsNext
    <3>5. LastInstant(y) \in Int
      BY <3>2, LastInstantType
    <3> HIDE DEF y
    <3>6. r \in from + 1 .. LastInstant(y)
      BY <2>1, <2>6, <3>3, <3>5
    <3> QED
      BY <2>6, <3>4, <3>6
  \* and ends at no instant before it, as it is the only one of its day.
  <2>8. result > from /\ Matches(result) /\ \A t \in from + 1 .. result - 1 : ~Matches(t)
    BY <1>1, <2>2, <2>7 DEF FindsNext
  <2>9. result \in Nat
    <3>1. result = Instant[cal]
      BY <1>1, <2>2, <2>7, InvParts DEF Found
    <3>2. Instant[cal] \in Nat
      BY <1>1, <2>2, InvParts, ReachedNow DEF ExprTypes
    <3> QED
      BY <3>1, <3>2
  <2>10. result <= r
    <3> SUFFICES ASSUME r < result  PROVE FALSE
      BY <2>6, <2>9
    <3>1. r \in from + 1 .. result - 1
      BY <2>1, <2>6, <2>9
    <3> QED
      BY <2>6, <2>8, <3>1
  <2>11. result % OneDay = r % OneDay /\ r - result \in 0 .. OneDay - 1
    BY <2>1, <2>3, <2>5, <2>6, <2>8, <2>9, <2>10
  <2>12. result = r
    BY <2>1, <2>6, <2>9, <2>11, SameRemainder
  <2> QED
    BY <2>12 DEF r
<1>2. ExprSpec => []ExprInv
  BY ExprInitInv, ExprNextInv, PTL DEF ExprSpec
<1>3. QED
  BY <1>1, <1>2, ExprInvFinds, PTL
=============================================================================
