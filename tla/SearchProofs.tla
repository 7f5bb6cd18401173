---------------------------- MODULE SearchProofs ----------------------------
(***************************************************************************)
(* The search for lamps and the receiver that hears their answers.         *)
(*                                                                         *)
(* Commission: no two lamps leave the search with the same short address,  *)
(* for every number of lamps and rows and every number of wrong answers to *)
(* COMPARE, unless all four answers to VERIFY of one lamp were lost.  With *)
(* true answers to COMPARE the file gets the rows of the lamps withdrawn   *)
(* and no others, whatever addresses the lamps had from before, and every  *)
(* search of an address ends exactly below the smallest lamp.              *)
(*                                                                         *)
(* DaliReceiver: a frame from a single sender is received as it was sent,  *)
(* and one that was cut is no command, for all bits and every clock within *)
(* the tolerance.                                                          *)
(***************************************************************************)
EXTENDS Commission, DaliReceiver, SequenceTheorems, FiniteSetTheorems, WellFoundedInduction, TLAPS

-----------------------------------------------------------------------------
(* Commission *)

\* A nonempty set of naturals has a least element: the search for a lamp or a row.
LEMMA LeastIndex ==
    ASSUME NEW T, T \subseteq Nat, T # {}
    PROVE  \E i \in T : \A k \in T : i <= k
<1> DEFINE less == {p \in Nat \X Nat : p[1] < p[2]}
<1>1. OpToRel(<, Nat) = less
  BY Zenon DEF OpToRel
<1>2. IsWellFoundedOn(less, Nat)
  BY <1>1, NatLessThanWellFounded, Zenon
<1>3. \E x \in T : \A y \in T : ~ (<<y, x>> \in less)
  <2> HIDE DEF less
  <2> QED BY <1>2, WFMin
<1>4. \A x, y \in T : <<y, x>> \notin less => x <= y
  OBVIOUS
<1> QED BY <1>3, <1>4

LEMMA FreeRowIsFree ==
    ASSUME used \subseteq Row, FreeRow # None
    PROVE  FreeRow \in Row \ used
<1>1. Row \ used # {} /\ Row \ used \subseteq Nat
  BY RowAssumption DEF FreeRow
<1>2. \E x \in Row \ used : \A y \in Row \ used : x <= y
  BY <1>1, LeastIndex
<1>3. Min(Row \ used) \in Row \ used
  BY <1>2 DEF Min
<1> QED BY <1>3 DEF FreeRow

LEMMA InitShort == Init => ShortInv
<1> SUFFICES ASSUME Init PROVE ShortInv
  OBVIOUS
<1>1. active = lamps /\ lamps \subseteq Draw /\ pc = "any"
  BY LineAssumption DEF Init, lamps
<1>2. used \subseteq Row
  BY FileAssumption DEF Init
<1>3. short \in [lamps -> Row \cup {None}]
  BY LineAssumption DEF Init, lamps
<1> QED BY <1>1, <1>2, <1>3 DEF ShortInv, WithdrawnDistinct

\* The questions of the search leave lamps and file alone.
LEMMA QuietStep ==
    ASSUME ShortInv, UNCHANGED <<line, used, deaf>>,
           pc \notin {"program", "verify"}, pc' \notin {"program", "verify"}
    PROVE  ShortInv'
BY DEF ShortInv, WithdrawnDistinct, line, lamps

LEMMA SearchStep ==
    ASSUME ShortInv, NEW a,
           AnyLamp(a) \/ FindFirst(a) \/ Up(a) \/ UpScan(a) \/ Down(a) \/ DownScan(a)
    PROVE  ShortInv'
<1>1. UNCHANGED <<line, used, deaf>>
  BY DEF AnyLamp, FindFirst, Up, UpScan, Down, DownScan, Heard
<1>2. pc \notin {"program", "verify"} /\ pc' \notin {"program", "verify"}
  BY DEF AnyLamp, FindFirst, Up, UpScan, Down, DownScan, UpLost, Fixed
<1> QED BY <1>1, <1>2, QuietStep

LEMMA FoundOrNextStep ==
    ASSUME ShortInv, NEW a, FoundOrNext(a)
    PROVE  ShortInv'
<1>1. /\ UNCHANGED <<line, used, deaf>> /\ pc' \in {"program", "any"}
      /\ pc \notin {"program", "verify"}
  BY DEF FoundOrNext, Heard
<1>2. pc' = "program" => row' \in Row \ used
  BY FreeRowIsFree DEF FoundOrNext, ShortInv
<1> QED BY <1>1, <1>2 DEF ShortInv, WithdrawnDistinct, line, lamps

LEMMA ProgramStep ==
    ASSUME ShortInv, Program
    PROVE  ShortInv'
<1>1. /\ pc = "program" /\ pc' = "verify" /\ row \in Row \ used
      /\ UNCHANGED <<lamps, active, used, search, row, deaf>>
  BY DEF Program, ShortInv, round, wrong, lamps
<1>2. short' \in [lamps -> Row \cup {None}]
  BY <1>1 DEF Program, ShortInv
<1>3. \A g \in lamps : short'[g] = IF g = search THEN row ELSE short[g]
  BY DEF Program
<1>4. WithdrawnDistinct'
  BY <1>1, <1>3 DEF ShortInv, WithdrawnDistinct
<1> QED BY <1>1, <1>2, <1>3, <1>4 DEF ShortInv

\* The row stays with the lamp at the search address until a VERIFY is heard; that
\* lamp answers, so that it is given up only if all four answers are lost.
LEMMA VerifyStep ==
    ASSUME ShortInv, NEW a, Verify(a)
    PROVE  ShortInv'
<1>1. /\ pc = "verify" /\ row \in Row \ used /\ row' = row /\ search' = search
      /\ lamps' = lamps /\ short' = short
      /\ \A g \in lamps : g = search => short[g] = row
  BY DEF Verify, ShortInv, lamps
<1>2. deaf' = (deaf \/ (Verified(row) = "yes" /\ a # "yes" /\ tries = 3))
  BY DEF Verify, HeardVerify
<1>3. CASE a = "yes"
  <2>1. /\ used' = used \cup {row} /\ active' = active \ {search}
        /\ pc' \in {"any", "next"}
    BY <1>3 DEF Verify
  <2>2. WithdrawnDistinct'
    <3>1. SUFFICES ASSUME ~deaf, NEW g \in lamps \ active', NEW k \in lamps \ active'
                   PROVE  short[g] \in used' /\ (short[k] = short[g] => k = g)
      BY <1>1, <1>2 DEF WithdrawnDistinct
    <3>2. ASSUME NEW i \in lamps \ active'
          PROVE  \/ i = search /\ short[i] = row
                 \/ i # search /\ i \notin active /\ short[i] \in used
      BY <1>1, <2>1, <3>1, <3>2 DEF ShortInv, WithdrawnDistinct
    <3>3. short[k] = short[g] => k = g
      BY <1>1, <3>1, <3>2 DEF ShortInv, WithdrawnDistinct
    <3> QED BY <2>1, <3>2, <3>3
  <2> QED BY <1>1, <2>1, <2>2 DEF ShortInv
<1>4. CASE a # "yes"
  <2>1. /\ UNCHANGED <<used, active>>
        /\ pc' = CASE tries = 1 -> "program" [] tries = 3 -> "any" [] OTHER -> "verify"
    BY <1>4 DEF Verify
  <2>2. CASE pc' \in {"program", "verify"}
    BY <1>1, <1>2, <2>1, <2>2 DEF ShortInv, WithdrawnDistinct
  <2>3. CASE pc' \notin {"program", "verify"}
    <3>1. tries = 3
      BY <2>1, <2>3
    <3>2. search \in lamps => deaf'
      BY <1>1, <1>2, <1>4, <3>1 DEF Verified
    <3>3. WithdrawnDistinct'
      BY <1>1, <1>2, <2>1, <3>2 DEF ShortInv, WithdrawnDistinct
    <3> QED BY <1>1, <2>1, <2>3, <3>3 DEF ShortInv
  <2> QED BY <2>2, <2>3
<1> QED BY <1>3, <1>4

LEMMA NextShort == ShortInv /\ [Next]_vars => ShortInv'
<1> SUFFICES ASSUME ShortInv, [Next]_vars PROVE ShortInv'
  OBVIOUS
<1>1. CASE Next
  BY <1>1, SearchStep, FoundOrNextStep, ProgramStep, VerifyStep DEF Next
<1>2. CASE UNCHANGED vars
  BY <1>2 DEF vars, line, round, wrong, ShortInv, WithdrawnDistinct, lamps
<1> QED BY <1>1, <1>2

\* A lamp that has left the search has a short address of its own which the file
\* knows (dali_tool.cpp:254-309): for any lamps with any addresses from before and
\* any number of wrong answers to COMPARE, until all four answers to VERIFY of one
\* lamp are lost.
THEOREM DistinctShortAddresses == Spec => []WithdrawnDistinct
<1>1. ShortInv => WithdrawnDistinct
  BY DEF ShortInv
<1> QED BY <1>1, InitShort, NextShort, PTL DEF Spec
-----------------------------------------------------------------------------
(* The search for the smallest lamp *)

\* While no answer has been wrong, what is heard is true.
LEMMA HeardTrue ==
    ASSUME NEW a, NEW truth, noise \in Nat, Heard(a, truth)
    PROVE  noise' \in Nat /\ (noise' = 0 => noise = 0 /\ a = truth)
BY DEF Heard

LEMMA AddressesAreNumbers == Address \subseteq Nat
<1>1. LastAddress \in Nat
  BY DEF LastAddress
<1> QED BY <1>1 DEF Address

LEMMA LeastLamp ==
    ASSUME active \subseteq Address, active # {}
    PROVE  \E m \in active : m = Min(active) /\ \A g \in active : m <= g
<1>1. \E x \in active : \A y \in active : x <= y
  BY LeastIndex, AddressesAreNumbers
<1> QED BY <1>1 DEF Min

\* One step of a nibble is 16 of the next.
LEMMA Steps ==
    ASSUME nibble \in 0 .. 5
    PROVE  /\ weight \in Nat
           /\ nibble = 5 => weight = 1
           /\ nibble < 5 => weight = 16 * Weight[nibble + 2]
BY DEF weight, Weight

\* Below 16 a question asks for the value itself.
LEMMA AsksIt ==
    ASSUME NEW n \in 0 .. 15
    PROVE  Compared(Asked(n)) = IF Reaches(n) THEN "yes" ELSE "no"
BY DEF Compared, Asked, Reaches, Reached

LEMMA ReachesMore ==
    ASSUME active \subseteq Address, nibble \in 0 .. 5, search \in Nat,
           NEW m \in 0 .. 16, NEW n \in 0 .. 16, Reaches(m), m <= n
    PROVE  Reaches(n)
<1>1. weight \in Nat
  BY Steps
<1>2. m * weight <= n * weight /\ m * weight \in Nat /\ n * weight \in Nat
  BY <1>1
<1>3. PICK g \in active : g <= search + m * weight
  BY DEF Reaches, Reached
<1>4. g <= search + n * weight
  BY <1>2, <1>3, AddressesAreNumbers
<1> QED BY <1>4 DEF Reaches, Reached

\* A nibble fixed exactly below the smallest lamp leaves it bracketed.
LEMMA FixedBelow ==
    ASSUME Bracketed, active \subseteq Address, active' = active,
           NEW n \in 0 .. 15, Fixed(n),
           Reaches(n + 1), n = 0 \/ ~Reaches(n)
    PROVE  NibbleInv' /\ FindsPredecessor'
<1>0. nibble \in 0 .. 5 /\ search \in Nat /\ active # {}
  BY DEF Bracketed
<1>1. search' = search + n * weight /\ nibble' = nibble + 1 /\ first' = 8
  BY DEF Fixed
<1>2. weight \in Nat /\ n * weight \in Nat /\ (n + 1) * weight = n * weight + weight
  BY <1>0, Steps
<1>3. search' \in Nat
  BY <1>0, <1>1, <1>2
<1>4. search' = 0 \/ ~Reached(search')
  <2>1. CASE n = 0
    BY <1>0, <1>1, <1>2, <2>1 DEF Bracketed
  <2>2. CASE n # 0
    BY <1>1, <2>2 DEF Reaches
  <2> QED BY <2>1, <2>2
<1>5. Reached(search' + weight)
  BY <1>0, <1>1, <1>2 DEF Reaches
<1>6. CASE nibble = 5
  <2>1. pc' = "found" /\ weight = 1
    BY <1>0, <1>6, Steps DEF Fixed
  <2>2. PICK g \in active : g <= search' + 1
    BY <1>5, <2>1 DEF Reached
  <2>3. PICK m \in active : m = Min(active) /\ m <= g
    BY <1>0, LeastLamp
  <2>4. m \in Nat /\ g \in Nat
    BY AddressesAreNumbers
  <2>5. search' = 0 \/ ~(m <= search')
    BY <1>4, <2>3 DEF Reached
  <2>6. \A s, x, y \in Nat : x <= y /\ y <= s + 1 /\ (s = 0 \/ ~(x <= s)) =>
            s = IF x = 0 THEN 0 ELSE x - 1
    OBVIOUS
  <2>7. search' = IF m = 0 THEN 0 ELSE m - 1
    BY <1>3, <2>2, <2>3, <2>4, <2>5, <2>6
  <2> QED BY <1>0, <2>1, <2>3, <2>7 DEF NibbleInv, FindsPredecessor
<1>7. CASE nibble # 5
  <2>1. pc' = "first" /\ nibble' \in 0 .. 5
    BY <1>0, <1>1, <1>7 DEF Fixed
  <2>2. weight' \in Nat /\ 16 * weight' = weight
    BY <1>0, <1>1, <1>7, Steps DEF weight, Weight
  <2>3. Reaches(16)'
    BY <1>5, <2>2 DEF Reaches, Reached
  <2>4. Bracketed'
    BY <1>0, <1>3, <1>4, <2>1, <2>3 DEF Bracketed, Reached
  <2> QED BY <1>1, <2>1, <2>4 DEF NibbleInv, FindsPredecessor
<1> QED BY <1>6, <1>7

LEMMA FindFirstNibble ==
    ASSUME NibbleInv, active \subseteq Address, NEW a, FindFirst(a),
           a = Compared(search + first * weight)
    PROVE  NibbleInv' /\ FindsPredecessor'
<1>1. /\ pc = "first" /\ first = 8 /\ Bracketed
      /\ active' = active /\ search' = search /\ nibble' = nibble
      /\ count' = 3 /\ ek' = 8 /\ pc' = IF a = "no" THEN "up" ELSE "down"
  BY DEF FindFirst, NibbleInv, line
<1>2. a = "no" <=> ~Reaches(8)
  BY <1>1 DEF Compared, Reaches, Reached
<1>3. Reaches(8)' <=> Reaches(8)
  BY <1>1 DEF Reaches, Reached, weight
<1>4. Bracketed'
  BY <1>1 DEF Bracketed, Reaches, Reached, weight
<1>5. pc' = "up" => UpInv'
  BY <1>1, <1>2, <1>3 DEF UpInv
<1>6. pc' = "down" => DownInv'
  BY <1>1, <1>2, <1>3 DEF DownInv
<1> QED BY <1>1, <1>4, <1>5, <1>6 DEF NibbleInv, FindsPredecessor

LEMMA UpNibble ==
    ASSUME NibbleInv, active \subseteq Address, NEW a, Up(a), a = Compared(Asked(ek))
    PROVE  NibbleInv' /\ FindsPredecessor'
<1>1. pc = "up" /\ Bracketed /\ UpInv /\ active' = active
  BY DEF Up, NibbleInv, line
<1>2. count \in 0 .. 3 /\ ek \in 8 .. 15
  BY <1>1 DEF UpInv
<1>3. a = IF Reaches(ek) THEN "yes" ELSE "no"
  BY <1>2, AsksIt
<1>4. CASE a = "yes"
  <2>1. Reaches(ek) /\ count # 3
    BY <1>1, <1>3, <1>4 DEF UpInv
  <2>2. /\ limit' = ek - 2 ^ (count + 1) /\ pc' = "upscan" /\ ek' = ek
        /\ search' = search /\ nibble' = nibble
    BY <1>4, <2>1 DEF Up
  <2>3. \E n \in 8 .. ek : limit' < n /\ ~Reaches(n)
    <3>1. 2 ^ 3 = 8 /\ 2 ^ 2 = 4 /\ 2 ^ 1 = 2
      OBVIOUS
    <3>2. CASE count = 2
      BY <1>1, <2>2, <3>1, <3>2 DEF UpInv
    <3>3. CASE count = 1
      BY <1>1, <2>2, <3>1, <3>3 DEF UpInv
    <3>4. CASE count = 0
      BY <1>1, <2>2, <3>1, <3>4 DEF UpInv
    <3> QED BY <1>2, <2>1, <3>2, <3>3, <3>4
  <2>4. Reaches(ek + 1)
    BY <1>1, <1>2, <2>1, ReachesMore DEF Bracketed
  <2>5. limit' \in Int
    <3>1. 2 ^ 3 = 8 /\ 2 ^ 2 = 4 /\ 2 ^ 1 = 2
      OBVIOUS
    <3> QED BY <1>1, <1>2, <2>1, <2>2, <3>1 DEF UpInv
  <2>6. UpScanInv'
    BY <1>1, <1>2, <2>2, <2>3, <2>4, <2>5 DEF UpScanInv, Reaches, Reached, weight
  <2>7. Bracketed'
    BY <1>1, <2>2 DEF Bracketed, Reaches, Reached, weight
  <2> QED BY <2>2, <2>6, <2>7 DEF NibbleInv, FindsPredecessor
<1>5. CASE a = "no" /\ count = 0
  <2>1. ek = 15 /\ Fixed(15)
    BY <1>1, <1>5 DEF UpInv, Up
  <2>2. ~Reaches(15) /\ Reaches(15 + 1)
    BY <1>1, <1>3, <1>5, <2>1 DEF Bracketed
  <2> QED BY <1>1, <2>1, <2>2, FixedBelow
<1>6. CASE a = "no" /\ count # 0
  <2>1. /\ count' = count - 1 /\ ek' = ek + 2 ^ (count - 1) /\ pc' = pc
        /\ search' = search /\ nibble' = nibble
    BY <1>6 DEF Up
  <2>2. ~Reaches(ek)
    BY <1>3, <1>6
  <2>3. 2 ^ 2 = 4 /\ 2 ^ 1 = 2 /\ 2 ^ 0 = 1
    OBVIOUS
  <2>4. \/ count' = 2 /\ ek' = 12 /\ ek = 8
        \/ count' = 1 /\ ek' = 14 /\ ek = 12
        \/ count' = 0 /\ ek' = 15 /\ ek = 14
    <3>1. CASE count = 3
      BY <1>1, <2>1, <2>3, <3>1 DEF UpInv
    <3>2. CASE count = 2
      BY <1>1, <2>1, <2>3, <3>2 DEF UpInv
    <3>3. CASE count = 1
      BY <1>1, <2>1, <2>3, <3>3 DEF UpInv
    <3> QED BY <1>2, <1>6, <3>1, <3>2, <3>3
  <2>5. UpInv'
    BY <1>1, <2>1, <2>2, <2>4 DEF UpInv, Reaches, Reached, weight
  <2>6. Bracketed'
    BY <1>1, <2>1 DEF Bracketed, Reaches, Reached, weight
  <2> QED BY <1>1, <2>1, <2>5, <2>6 DEF NibbleInv, FindsPredecessor
<1> QED BY <1>3, <1>4, <1>5, <1>6

LEMMA UpScanNibble ==
    ASSUME NibbleInv, active \subseteq Address, NEW a, UpScan(a), a = Compared(Asked(ek))
    PROVE  NibbleInv' /\ FindsPredecessor'
<1>1. pc = "upscan" /\ Bracketed /\ UpScanInv /\ active' = active
  BY DEF UpScan, NibbleInv, line
<1>2. ek \in 8 .. 15 /\ limit \in Int /\ Reaches(ek + 1)
  BY <1>1 DEF UpScanInv
<1>3. a = IF Reaches(ek) THEN "yes" ELSE "no"
  BY <1>2, AsksIt
<1>4. CASE a = "no"
  <2>1. Fixed(ek) /\ ~Reaches(ek)
    BY <1>3, <1>4 DEF UpScan
  <2> QED BY <1>1, <1>2, <2>1, FixedBelow
<1>5. CASE a = "yes"
  <2>1. PICK n \in 8 .. ek : limit < n /\ ~Reaches(n)
    BY <1>1 DEF UpScanInv
  <2>2. Reaches(ek) /\ n # ek
    BY <1>3, <1>5, <2>1
  <2>3. ek - 1 \in 8 .. 15 /\ n \in 8 .. (ek - 1) /\ ~(ek - 1 < limit)
    BY <1>2, <2>1, <2>2
  <2>4. /\ ek' = ek - 1 /\ limit' = limit /\ pc' = pc
        /\ search' = search /\ nibble' = nibble
    BY <1>5, <2>3 DEF UpScan
  <2>5. Reaches((ek - 1) + 1)
    BY <1>2, <2>2
  <2>6. UpScanInv'
    BY <1>1, <1>2, <2>1, <2>3, <2>4, <2>5 DEF UpScanInv, Reaches, Reached, weight
  <2>7. Bracketed'
    BY <1>1, <2>4 DEF Bracketed, Reaches, Reached, weight
  <2> QED BY <1>1, <2>4, <2>6, <2>7 DEF NibbleInv, FindsPredecessor
<1> QED BY <1>3, <1>4, <1>5

LEMMA DownNibble ==
    ASSUME NibbleInv, active \subseteq Address, NEW a, Down(a), a = Compared(Asked(ek))
    PROVE  NibbleInv' /\ FindsPredecessor'
<1>1. pc = "down" /\ Bracketed /\ DownInv /\ active' = active
  BY DEF Down, NibbleInv, line
<1>2. count \in 0 .. 3 /\ ek \in 1 .. 8
  BY <1>1 DEF DownInv
<1>3. a = IF Reaches(ek) THEN "yes" ELSE "no"
  BY <1>2, AsksIt
<1>4. CASE a = "no"
  <2>1. ~Reaches(ek)
    BY <1>3, <1>4
  <2>2. /\ limit' = 2 ^ (count + 1) /\ step' = 0 /\ pc' = "downscan" /\ ek' = ek
        /\ search' = search /\ nibble' = nibble
    BY <1>4 DEF Down
  <2>3. \/ limit' = 8 /\ ek = 4 /\ Reaches(8)
        \/ limit' = 4 /\ ek = 2 /\ Reaches(4)
        \/ limit' = 2 /\ ek = 1 /\ Reaches(2)
    <3>1. 2 ^ 3 = 8 /\ 2 ^ 2 = 4 /\ 2 ^ 1 = 2
      OBVIOUS
    <3>2. CASE count = 2
      BY <1>1, <2>2, <3>1, <3>2 DEF DownInv
    <3>3. CASE count = 1
      BY <1>1, <2>2, <3>1, <3>3 DEF DownInv
    <3>4. CASE count = 0
      BY <1>1, <2>2, <3>1, <3>4 DEF DownInv
    <3>5. count # 3
      BY <1>1, <2>1 DEF DownInv
    <3> QED BY <1>2, <3>2, <3>3, <3>4, <3>5
  <2>4. DownScanInv'
    BY <1>1, <2>1, <2>2, <2>3 DEF DownScanInv, Reaches, Reached, weight
  <2>5. Bracketed'
    BY <1>1, <2>2 DEF Bracketed, Reaches, Reached, weight
  <2> QED BY <2>2, <2>4, <2>5 DEF NibbleInv, FindsPredecessor
<1>5. CASE a = "yes" /\ count = 0
  <2>1. ek = 1 /\ Fixed(0)
    BY <1>1, <1>5 DEF DownInv, Down
  <2>2. Reaches(0 + 1)
    BY <1>3, <1>5, <2>1
  <2> QED BY <1>1, <2>1, <2>2, FixedBelow
<1>6. CASE a = "yes" /\ count # 0
  <2>1. /\ count' = count - 1 /\ ek' = 2 ^ (count - 1) /\ pc' = pc
        /\ search' = search /\ nibble' = nibble
    BY <1>6 DEF Down
  <2>2. Reaches(ek)
    BY <1>3, <1>6
  <2>3. 2 ^ 2 = 4 /\ 2 ^ 1 = 2 /\ 2 ^ 0 = 1
    OBVIOUS
  <2>4. \/ count' = 2 /\ ek' = 4 /\ ek = 8
        \/ count' = 1 /\ ek' = 2 /\ ek = 4
        \/ count' = 0 /\ ek' = 1 /\ ek = 2
    <3>1. CASE count = 3
      BY <1>1, <2>1, <2>3, <3>1 DEF DownInv
    <3>2. CASE count = 2
      BY <1>1, <2>1, <2>3, <3>2 DEF DownInv
    <3>3. CASE count = 1
      BY <1>1, <2>1, <2>3, <3>3 DEF DownInv
    <3> QED BY <1>2, <1>6, <3>1, <3>2, <3>3
  <2>5. DownInv'
    BY <1>1, <2>1, <2>2, <2>4 DEF DownInv, Reaches, Reached, weight
  <2>6. Bracketed'
    BY <1>1, <2>1 DEF Bracketed, Reaches, Reached, weight
  <2> QED BY <1>1, <2>1, <2>5, <2>6 DEF NibbleInv, FindsPredecessor
<1> QED BY <1>3, <1>4, <1>5, <1>6

LEMMA DownScanNibble ==
    ASSUME NibbleInv, active \subseteq Address, NEW a, DownScan(a), a = Compared(Asked(ek))
    PROVE  NibbleInv' /\ FindsPredecessor'
<1>1. pc = "downscan" /\ Bracketed /\ DownScanInv /\ active' = active
  BY DEF DownScan, NibbleInv, line
<1>2. ek \in 1 .. 8 /\ limit \in 2 .. 8 /\ ek <= limit /\ step \in Nat
  BY <1>1 DEF DownScanInv
<1>3. a = IF Reaches(ek) THEN "yes" ELSE "no"
  BY <1>2, AsksIt
<1>4. CASE a = "yes"
  <2>1. step # 0 /\ Reaches(ek) /\ ~Reaches(ek - 1)
    BY <1>1, <1>3, <1>4 DEF DownScanInv
  <2>2. Fixed(ek - 1) /\ ek - 1 \in 0 .. 15 /\ Reaches((ek - 1) + 1)
    BY <1>2, <1>4, <2>1 DEF DownScan
  <2> QED BY <1>1, <2>1, <2>2, FixedBelow
<1>5. CASE a = "no"
  <2>1. ~Reaches(ek) /\ ek # limit
    BY <1>1, <1>3, <1>5 DEF DownScanInv
  <2>2. ~(ek + 1 > limit)
    BY <1>2, <2>1
  <2>3. /\ ek' = ek + 1 /\ step' = step + 1 /\ limit' = limit /\ pc' = pc
        /\ search' = search /\ nibble' = nibble
    BY <1>5, <2>2 DEF DownScan
  <2>4. ek' - 1 = ek /\ step' # 0 /\ step' \in Nat /\ ek' \in 1 .. limit
    BY <1>2, <2>2, <2>3
  <2>5. Reaches(limit)
    BY <1>1 DEF DownScanInv
  <2>6. DownScanInv'
    BY <1>1, <1>2, <2>1, <2>3, <2>4, <2>5 DEF DownScanInv, Reaches, Reached, weight
  <2>7. Bracketed'
    BY <1>1, <2>3 DEF Bracketed, Reaches, Reached, weight
  <2> QED BY <1>1, <2>3, <2>6, <2>7 DEF NibbleInv, FindsPredecessor
<1> QED BY <1>3, <1>4, <1>5

\* A search begins with everything bracketed.
LEMMA AnyLampNibble ==
    ASSUME active \subseteq Address, NEW a, AnyLamp(a), a = Compared(LastAddress)
    PROVE  NibbleInv' /\ FindsPredecessor'
<1>1. active' = active /\ pc' = IF a = "yes" THEN "first" ELSE "done"
  BY DEF AnyLamp, line
<1>2. CASE a = "yes"
  <2>1. search' = 0 /\ nibble' = 0 /\ first' = 8
    BY <1>2 DEF AnyLamp
  <2>2. PICK g \in active : g <= LastAddress
    BY <1>2 DEF Compared
  <2>3. weight' = 1048576
    BY <2>1 DEF weight, Weight
  <2>4. g \in Nat /\ LastAddress <= 0 + 16 * 1048576
    BY AddressesAreNumbers DEF LastAddress
  <2>5. g <= 0 + 16 * 1048576
    BY <2>2, <2>4 DEF LastAddress
  <2>6. Reaches(16)'
    BY <1>1, <2>1, <2>3, <2>5 DEF Reaches, Reached
  <2>7. Bracketed'
    BY <1>1, <2>1, <2>2, <2>6 DEF Bracketed
  <2> QED BY <1>1, <1>2, <2>1, <2>7 DEF NibbleInv, FindsPredecessor
<1>3. CASE a # "yes"
  BY <1>1, <1>3 DEF NibbleInv, FindsPredecessor
<1> QED BY <1>2, <1>3

\* What happens between two searches is none of their business.
LEMMA BetweenSearches ==
    ASSUME NEW a, FoundOrNext(a) \/ Program \/ Verify(a)
    PROVE  NibbleInv' /\ FindsPredecessor'
<1>1. pc' \in {"program", "any", "verify", "next"}
  <2>1. ASSUME FoundOrNext(a) PROVE pc' \in {"program", "any"}
    BY <2>1 DEF FoundOrNext
  <2>2. ASSUME Program PROVE pc' = "verify"
    BY <2>2 DEF Program
  <2>3. ASSUME Verify(a) PROVE pc' \in {"any", "next", "program", "verify"}
    BY <2>3 DEF Verify
  <2> QED BY <2>1, <2>2, <2>3
<1> QED BY <1>1 DEF NibbleInv, FindsPredecessor

LEMMA InitSearch == Init => SearchInv
<1> SUFFICES ASSUME Init PROVE SearchInv
  OBVIOUS
<1>1. noise = 0 /\ pc = "any" /\ active \subseteq Address
  BY LineAssumption, DrawAssumption DEF Init, lamps
<1> QED BY <1>1 DEF SearchInv, NibbleInv, FindsPredecessor

LEMMA NextSearch == SearchInv /\ [Next]_vars => SearchInv'
<1> SUFFICES ASSUME SearchInv, [Next]_vars PROVE SearchInv'
  OBVIOUS
<1>1. noise \in Nat /\ active \subseteq Address
  BY DEF SearchInv
<1>2. ASSUME NEW a, FindFirst(a) PROVE SearchInv'
  <2>1. Heard(a, Compared(search + first * weight)) /\ active' = active
    BY <1>2 DEF FindFirst, line
  <2> QED BY <1>1, <1>2, <2>1, HeardTrue, FindFirstNibble DEF SearchInv
<1>3. ASSUME NEW a, Up(a) PROVE SearchInv'
  <2>1. Heard(a, Compared(Asked(ek))) /\ active' = active
    BY <1>3 DEF Up, line
  <2> QED BY <1>1, <1>3, <2>1, HeardTrue, UpNibble DEF SearchInv
<1>4. ASSUME NEW a, UpScan(a) PROVE SearchInv'
  <2>1. Heard(a, Compared(Asked(ek))) /\ active' = active
    BY <1>4 DEF UpScan, line
  <2> QED BY <1>1, <1>4, <2>1, HeardTrue, UpScanNibble DEF SearchInv
<1>5. ASSUME NEW a, Down(a) PROVE SearchInv'
  <2>1. Heard(a, Compared(Asked(ek))) /\ active' = active
    BY <1>5 DEF Down, line
  <2> QED BY <1>1, <1>5, <2>1, HeardTrue, DownNibble DEF SearchInv
<1>6. ASSUME NEW a, DownScan(a) PROVE SearchInv'
  <2>1. Heard(a, Compared(Asked(ek))) /\ active' = active
    BY <1>6 DEF DownScan, line
  <2> QED BY <1>1, <1>6, <2>1, HeardTrue, DownScanNibble DEF SearchInv
<1>7. ASSUME NEW a, AnyLamp(a) PROVE SearchInv'
  <2>1. Heard(a, Compared(LastAddress)) /\ active' = active
    BY <1>7 DEF AnyLamp, line
  <2> QED BY <1>1, <1>7, <2>1, HeardTrue, AnyLampNibble DEF SearchInv
<1>8. ASSUME NEW a, FoundOrNext(a) \/ Program \/ Verify(a) PROVE SearchInv'
  <2>1. active' \subseteq active
    BY <1>8 DEF FoundOrNext, Program, Verify, line
  <2>2. noise' \in Nat
    BY <1>1, <1>8, HeardTrue DEF FoundOrNext, Program, Verify, HeardVerify, wrong
  <2> QED BY <1>1, <1>8, <2>1, <2>2, BetweenSearches DEF SearchInv
<1>9. CASE UNCHANGED vars
  BY <1>9 DEF vars, line, local, round, wrong, SearchInv, NibbleInv, FindsPredecessor, Bracketed,
              UpInv, UpScanInv, DownInv, DownScanInv, Reaches, Reached, weight
<1> QED BY <1>2, <1>3, <1>4, <1>5, <1>6, <1>7, <1>8, <1>9 DEF Next

\* With true answers the search by nibbles meets exactly below the smallest lamp
\* (dali_tool.cpp:110-240, 373), whatever addresses the lamps have drawn.
THEOREM SearchFindsPredecessor == Spec => []FindsPredecessor
<1>1. SearchInv => FindsPredecessor
  BY DEF SearchInv, FindsPredecessor
<1> QED BY <1>1, InitSearch, NextSearch, PTL DEF Spec
-----------------------------------------------------------------------------
(* The rows of the lamps *)

LEMMA InitRows == Init => RowsInv
<1> SUFFICES ASSUME Init PROVE RowsInv
  OBVIOUS
<1>1. active = lamps /\ short = old /\ used = taken /\ pc = "any"
  BY DEF Init
<1>2. lamps \ active = {} /\ used \ taken = {}
  BY <1>1
<1>3. RowsOfLamps
  BY <1>1, <1>2, SMT DEF RowsOfLamps
<1> QED BY <1>1, <1>3 DEF RowsInv

\* The questions of the search leave everything as it is.
LEMMA SearchRows ==
    ASSUME SearchInv, RowsInv, NEW a,
           AnyLamp(a) \/ FindFirst(a) \/ Up(a) \/ UpScan(a) \/ Down(a) \/ DownScan(a)
    PROVE  RowsInv'
<1>1. UNCHANGED <<old, taken, active, short, used>>
  BY DEF AnyLamp, FindFirst, Up, UpScan, Down, DownScan, line
<1>2. pc' \notin {"program", "verify", "next"}
  BY DEF AnyLamp, FindFirst, Up, UpScan, Down, DownScan, UpLost, Fixed
<1>3. noise \in Nat /\ \E truth : Heard(a, truth)
  BY DEF SearchInv, AnyLamp, FindFirst, Up, UpScan, Down, DownScan
<1>4. noise' = 0 => noise = 0
  BY <1>3, HeardTrue
<1> QED BY <1>1, <1>2, <1>4 DEF RowsInv, RowsOfLamps, FreeRow, lamps

\* The question before AtamaYAP is answered by the smallest lamp only when it asks
\* for that one: its address is below all others, or one above one that is.
LEMMA AsksSmallest ==
    ASSUME SearchInv, RowsInv, NEW a, FoundOrNext(a), noise' = 0, 0 \notin lamps,
           active \subseteq lamps, a = "yes"
    PROVE  search' \in active /\ \A g \in active : search' <= g
<1>1. noise = 0 /\ Compared(search') = "yes" /\ noise \in Nat
  BY HeardTrue DEF FoundOrNext, SearchInv
<1>2. PICK g \in active : g <= search'
  BY <1>1 DEF Compared
<1>3. active \subseteq Nat /\ 0 \notin active
  BY AddressesAreNumbers DEF SearchInv
<1>4. search \in Nat /\ (\A k \in active : search < k)
      /\ (search' = search + 1 \/ search' = search - 255 \/ search' = search - 65535)
  <2>1. CASE pc = "found"
    <3>1. active # {} /\ search = IF Min(active) = 0 THEN 0 ELSE Min(active) - 1
      BY <1>1, <2>1 DEF SearchInv, FindsPredecessor
    <3>2. PICK m \in active : m = Min(active) /\ \A k \in active : m <= k
      BY <3>1, LeastLamp DEF SearchInv
    <3>3. m \in Nat /\ m # 0 /\ search = m - 1
      BY <1>3, <3>1, <3>2
    <3>4. search \in Nat /\ \A k \in active : search < k
      BY <1>3, <3>2, <3>3
    <3>5. search' = Successor(search)
      BY <2>1 DEF FoundOrNext
    <3> QED BY <3>4, <3>5 DEF Successor
  <2>2. CASE pc = "next"
    <3>1. search \in Nat /\ \A k \in active : search < k
      BY <1>1, <2>2 DEF RowsInv
    <3>2. search' = NextOne(search)
      BY <2>2 DEF FoundOrNext
    <3> QED BY <3>1, <3>2 DEF NextOne
  <2> QED BY <2>1, <2>2 DEF FoundOrNext
<1>5. search < g /\ g \in Nat
  BY <1>3, <1>4
<1>6. search' = search + 1 /\ g = search'
  BY <1>2, <1>4, <1>5
<1>7. \A k \in active : search' <= k
  BY <1>3, <1>4, <1>6
<1> QED BY <1>6, <1>7

LEMMA FoundOrNextRows ==
    ASSUME ShortInv, SearchInv, RowsInv, NEW a, FoundOrNext(a)
    PROVE  RowsInv'
<1>1. /\ UNCHANGED <<old, taken, active, short, used>>
      /\ pc' = IF a = "yes" /\ FreeRow # None THEN "program" ELSE "any"
      /\ row' = IF a = "yes" THEN FreeRow ELSE None
  BY DEF FoundOrNext, line
<1>2. noise' = 0 => noise = 0
  BY HeardTrue DEF FoundOrNext, SearchInv
<1>3. RowsOfLamps'
  BY <1>1, <1>2 DEF RowsInv, RowsOfLamps, FreeRow, lamps
<1>4. FreeRow' = FreeRow /\ lamps' = lamps
  BY <1>1 DEF FreeRow, lamps
<1>5. ASSUME noise' = 0, 0 \notin lamps, pc' = "program"
      PROVE  search' \in active' /\ row' = FreeRow' /\ \A g \in active' : search' <= g
  <2>1. a = "yes"
    BY <1>1, <1>5
  <2> QED BY <1>1, <1>4, <1>5, <2>1, AsksSmallest DEF ShortInv
<1> QED BY <1>1, <1>2, <1>3, <1>4, <1>5 DEF RowsInv

LEMMA ProgramRows ==
    ASSUME ShortInv, SearchInv, RowsInv, Program
    PROVE  RowsInv'
<1>1. /\ pc = "program" /\ pc' = "verify"
      /\ UNCHANGED <<old, taken, active, used, search, row, noise>>
  BY DEF Program, round, wrong
<1>2. \A g \in lamps : short'[g] = IF g = search THEN row ELSE short[g]
  BY DEF Program
<1>3. lamps' = lamps /\ FreeRow' = FreeRow /\ active \subseteq lamps
  BY <1>1 DEF lamps, FreeRow, ShortInv
<1> SUFFICES ASSUME noise' = 0, 0 \notin lamps' PROVE RowsInv'
  BY DEF RowsInv, RowsOfLamps
<1>4. /\ search \in active /\ row = FreeRow /\ \A g \in active : search <= g
      /\ taken \subseteq used
  BY <1>1, <1>3 DEF RowsInv
<1>5. \A g \in lamps \ active : short'[g] = short[g]
  BY <1>2, <1>4
<1>6. {short'[g] : g \in lamps \ active} = {short[g] : g \in lamps \ active}
  BY <1>5
<1>7. RowsOfLamps'
  <2>1. used' \ taken' = {short'[g] : g \in lamps' \ active'}
    BY <1>1, <1>3, <1>6 DEF RowsInv, RowsOfLamps
  <2>2. \A g, k \in lamps' \ active' : short'[g] = short'[k] => g = k
    BY <1>1, <1>3, <1>5 DEF RowsInv, RowsOfLamps
  <2>3. \A g \in active' : short'[g] # old'[g] =>
            short'[g] = FreeRow' /\ \A k \in active' : g <= k
    BY <1>1, <1>2, <1>3, <1>4 DEF RowsInv, RowsOfLamps
  <2> QED BY <2>1, <2>2, <2>3 DEF RowsOfLamps
<1> QED BY <1>1, <1>3, <1>4, <1>7 DEF RowsInv

\* The lamp that is withdrawn takes the row that is written.
LEMMA VerifyRows ==
    ASSUME ShortInv, SearchInv, RowsInv, NEW a, Verify(a)
    PROVE  RowsInv'
<1>1. /\ pc = "verify"
      /\ UNCHANGED <<old, taken, short, search, row, noise>>
  BY DEF Verify, HeardVerify
<1>2. lamps' = lamps /\ active \subseteq lamps /\ row \in Row \ used
      /\ \A g \in lamps : g = search => short[g] = row
  BY <1>1 DEF lamps, ShortInv
<1> SUFFICES ASSUME noise' = 0, 0 \notin lamps' PROVE RowsInv'
  BY DEF RowsInv, RowsOfLamps
<1>3. /\ search \in active /\ row = FreeRow /\ \A g \in active : search <= g
      /\ taken \subseteq used /\ RowsOfLamps
  BY <1>1, <1>2 DEF RowsInv
<1>4. active \subseteq Nat /\ search \in Nat
  BY <1>3, AddressesAreNumbers DEF SearchInv
<1>5. CASE a = "yes"
  <2>1. /\ used' = used \cup {row} /\ active' = active \ {search}
        /\ pc' \in {"any", "next"}
    BY <1>5 DEF Verify
  <2>2. lamps' \ active' = (lamps \ active) \cup {search} /\ short[search] = row
    BY <1>2, <1>3, <2>1
  <2>3. used' \ taken' = (used \ taken) \cup {row}
    BY <1>1, <1>2, <1>3, <2>1
  <2>4. used \ taken = {short[g] : g \in lamps \ active}
    BY <1>1, <1>2, <1>3 DEF RowsOfLamps
  <2>5. used' \ taken' = {short'[g] : g \in lamps' \ active'}
    BY <1>1, <2>2, <2>3, <2>4
  <2>6. \A g \in lamps \ active : short[g] # row
    BY <1>2, <2>4
  <2>7. \A g, k \in lamps' \ active' : short'[g] = short'[k] => g = k
    BY <1>1, <1>2, <1>3, <2>2, <2>6 DEF RowsOfLamps
  <2>8. \A g \in active' : short'[g] = old'[g]
    <3> SUFFICES ASSUME NEW g \in active', short[g] # old[g] PROVE FALSE
      BY <1>1
    <3>1. g \in active /\ g # search /\ \A k \in active : g <= k
      BY <1>1, <1>2, <1>3, <2>1 DEF RowsOfLamps
    <3> QED BY <1>3, <1>4, <3>1
  <2>9. RowsOfLamps'
    BY <2>5, <2>7, <2>8 DEF RowsOfLamps
  <2>10. \A g \in active' : search' < g
    BY <1>1, <1>3, <1>4, <2>1
  <2> QED BY <1>1, <1>3, <1>4, <2>1, <2>9, <2>10 DEF RowsInv
<1>6. CASE a # "yes"
  <2>1. UNCHANGED <<used, active>> /\ pc' \in {"program", "verify", "any"}
    BY <1>6 DEF Verify
  <2>2. RowsOfLamps' /\ FreeRow' = FreeRow
    BY <1>1, <1>2, <1>3, <2>1 DEF RowsOfLamps, FreeRow, lamps
  <2> QED BY <1>1, <1>3, <2>1, <2>2 DEF RowsInv
<1> QED BY <1>5, <1>6

LEMMA NextRows == ShortInv /\ SearchInv /\ RowsInv /\ [Next]_vars => RowsInv'
<1> SUFFICES ASSUME ShortInv, SearchInv, RowsInv, [Next]_vars PROVE RowsInv'
  OBVIOUS
<1>1. CASE Next
  BY <1>1, SearchRows, FoundOrNextRows, ProgramRows, VerifyRows DEF Next
<1>2. CASE UNCHANGED vars
  BY <1>2 DEF vars, line, round, wrong, RowsInv, RowsOfLamps, FreeRow, lamps
<1> QED BY <1>1, <1>2

\* With true answers to COMPARE the file holds the addresses of the lamps that were
\* withdrawn and no other new row, and an address whose VERIFY was not heard goes to
\* the same lamp again (dali_tool.cpp:10-19, 254-309): whatever addresses the lamps
\* bring, however many answers to VERIFY are lost.
THEOREM NoRowIsLost == Spec => []RowsOfLamps
<1>1. RowsInv => RowsOfLamps
  BY DEF RowsInv
<1>2. Init => ShortInv /\ SearchInv /\ RowsInv
  BY InitShort, InitSearch, InitRows
<1>3. ShortInv /\ SearchInv /\ RowsInv /\ [Next]_vars => (ShortInv /\ SearchInv /\ RowsInv)'
  BY NextShort, NextSearch, NextRows
<1> QED BY <1>1, <1>2, <1>3, PTL DEF Spec
-----------------------------------------------------------------------------
(* DaliReceiver: one frame on the line *)

\* A frame as SceneAssumption has it.
IsFrame(s) == /\ s.bits \in Seq({0, 1}) /\ Len(s.bits) \in {8, 16, 24}
              /\ s.start \in Nat \ {0} /\ s.half \in 3 .. 5

LEMMA FramesSent == ReceiverTypeOK => \A s \in sent : IsFrame(s)
BY SceneAssumption DEF ReceiverTypeOK, IsFrame

LEMMA Halves ==
    ASSUME NEW m \in Nat
    PROVE  /\ (2 * m) \div 2 = m /\ (2 * m) % 2 = 0
           /\ (2 * m + 1) \div 2 = m /\ (2 * m + 1) % 2 = 1
OBVIOUS

LEMMA EvenOrOdd ==
    ASSUME NEW i \in Nat
    PROVE  \E m \in Nat : i = 2 * m \/ i = 2 * m + 1
<1>1. i \div 2 \in Nat /\ (i = 2 * (i \div 2) \/ i = 2 * (i \div 2) + 1)
  OBVIOUS
<1> QED BY <1>1

LEMMA HalfLevels ==
    ASSUME NEW s, IsFrame(s)
    PROVE  /\ HalfLevel(s, 0) = 0 /\ HalfLevel(s, 1) = 1
           /\ \A i \in Nat : HalfLevel(s, i) \in {0, 1}
           /\ \A m \in 1 .. Len(s.bits) : /\ HalfLevel(s, 2 * m) = 1 - s.bits[m]
                                          /\ HalfLevel(s, 2 * m + 1) = s.bits[m]
           /\ \A i \in Nat : i >= 2 * Len(s.bits) + 2 => HalfLevel(s, i) = 1
<1> DEFINE n == Len(s.bits)
<1>n. n \in {8, 16, 24} /\ \A m \in 1 .. n : s.bits[m] \in {0, 1}
  BY DEF IsFrame
<1>1. HalfLevel(s, 0) = 0 /\ HalfLevel(s, 1) = 1
  <2>1. 0 \div 2 = 0 /\ 1 \div 2 = 0 /\ 0 % 2 = 0 /\ 1 % 2 = 1
    OBVIOUS
  <2> QED BY <2>1, <1>n DEF HalfLevel
<1>2. \A m \in 1 .. n : HalfLevel(s, 2 * m) = 1 - s.bits[m] /\ HalfLevel(s, 2 * m + 1) = s.bits[m]
  <2> SUFFICES ASSUME NEW m \in 1 .. n
      PROVE HalfLevel(s, 2 * m) = 1 - s.bits[m] /\ HalfLevel(s, 2 * m + 1) = s.bits[m]
    OBVIOUS
  <2>1. m \in Nat /\ ~(m = 0) /\ ~(2 * m >= 2 * (n + 1)) /\ ~(2 * m + 1 >= 2 * (n + 1))
    BY <1>n
  <2> QED BY <2>1, Halves DEF HalfLevel
<1>3. \A i \in Nat : i >= 2 * n + 2 => HalfLevel(s, i) = 1
  <2>1. \A i \in Nat : i >= 2 * n + 2 => i >= 2 * (n + 1)
    BY <1>n
  <2> QED BY <2>1 DEF HalfLevel
<1>4. ASSUME NEW i \in Nat PROVE HalfLevel(s, i) \in {0, 1}
  <2>1. PICK m \in Nat : i = 2 * m \/ i = 2 * m + 1
    BY EvenOrOdd
  <2>2. CASE m = 0
    BY <2>1, <2>2, <1>1
  <2>3. CASE m \in 1 .. n
    <3>1. s.bits[m] \in {0, 1}
      BY <2>3, <1>n
    <3>2. HalfLevel(s, 2 * m) = 1 - s.bits[m] /\ HalfLevel(s, 2 * m + 1) = s.bits[m]
      BY <2>3, <1>2
    <3>3. HalfLevel(s, i) = 1 - s.bits[m] \/ HalfLevel(s, i) = s.bits[m]
      BY <3>2, <2>1
    <3> QED BY <3>1, <3>3
  <2>4. CASE m > n
    <3>1. i >= 2 * n + 2
      BY <2>1, <2>4, <1>n
    <3> QED BY <3>1, <1>3
  <2> QED BY <2>2, <2>3, <2>4, <1>n
<1> QED BY <1>1, <1>2, <1>3, <1>4

LEMMA HalfBitOf ==
    ASSUME NEW h \in 3 .. 5, NEW e \in Nat, NEW x \in 0 .. h - 1
    PROVE  (e * h + x) \div h = e
<1>1. CASE h = 3
  <2>1. x \in 0 .. 2 /\ (e * 3 + x) \div 3 = e
    BY <1>1
  <2> QED BY <2>1, <1>1
<1>2. CASE h = 4
  <2>1. x \in 0 .. 3 /\ (e * 4 + x) \div 4 = e
    BY <1>2
  <2> QED BY <2>1, <1>2
<1>3. CASE h = 5
  <2>1. x \in 0 .. 4 /\ (e * 5 + x) \div 5 = e
    BY <1>3
  <2> QED BY <2>1, <1>3
<1> QED BY <1>1, <1>2, <1>3

LEMMA Placed ==
    ASSUME NEW h \in 3 .. 5, NEW d \in Nat
    PROVE  \E e \in Nat, x \in 0 .. h - 1 : d = e * h + x
<1>1. CASE h = 3
  <2>1. d \div 3 \in Nat /\ d % 3 \in 0 .. 2 /\ d = (d \div 3) * 3 + (d % 3)
    OBVIOUS
  <2> QED BY <2>1, <1>1
<1>2. CASE h = 4
  <2>1. d \div 4 \in Nat /\ d % 4 \in 0 .. 3 /\ d = (d \div 4) * 4 + (d % 4)
    OBVIOUS
  <2> QED BY <2>1, <1>2
<1>3. CASE h = 5
  <2>1. d \div 5 \in Nat /\ d % 5 \in 0 .. 4 /\ d = (d \div 5) * 5 + (d % 5)
    OBVIOUS
  <2> QED BY <2>1, <1>3
<1> QED BY <1>1, <1>2, <1>3

LEMMA LineBefore ==
    ASSUME NEW s, IsFrame(s), sent = {s}, NEW t \in Nat, t < s.start
    PROVE  Line(t) = 1
<1>1. ~Low(s, t)
  BY DEF Low, IsFrame
<1> QED BY <1>1 DEF Line

LEMMA LineAt ==
    ASSUME NEW s, IsFrame(s), sent = {s}, NEW e \in Nat, NEW x \in 0 .. s.half - 1
    PROVE  Line(s.start + e * s.half + x) = HalfLevel(s, e)
<1> DEFINE t == s.start + e * s.half + x
           n == Len(s.bits)
<1>1. s.half \in 3 .. 5 /\ s.start \in Nat /\ n \in {8, 16, 24} /\ x \in Nat
      /\ \A m \in 1 .. n : s.bits[m] \in {0, 1}
  BY DEF IsFrame
<1>2. e * s.half \in Nat
  BY <1>1
<1>3. t - s.start = e * s.half + x /\ t >= s.start
  BY <1>1, <1>2
<1>4. (t - s.start) \div s.half = e
  BY <1>1, <1>3, HalfBitOf
<1> DEFINE bit == IF e \div 2 = 0 THEN 1 ELSE s.bits[e \div 2]
<1>5. Low(s, t) <=> e < 2 * (n + 1) /\ bit = IF e % 2 = 0 THEN 1 ELSE 0
  BY <1>3, <1>4 DEF Low
<1>6. e % 2 \in {0, 1} /\ e \div 2 \in Nat /\ (e < 2 * (n + 1) => e \div 2 <= n)
  BY <1>1
<1>7. e < 2 * (n + 1) => bit \in {0, 1}
  BY <1>1, <1>6
<1>8. Low(s, t) <=> HalfLevel(s, e) = 0
  <2>1. CASE e >= 2 * (n + 1)
    <3>1. HalfLevel(s, e) = 1
      BY <2>1 DEF HalfLevel
    <3>2. ~Low(s, t)
      BY <2>1, <1>1, <1>5
    <3> QED BY <3>1, <3>2
  <2>2. CASE e < 2 * (n + 1)
    <3>1. HalfLevel(s, e) = IF e % 2 = 1 THEN bit ELSE 1 - bit
      BY <2>2, <1>1 DEF HalfLevel
    <3> HIDE DEF bit
    <3> QED BY <3>1, <2>2, <1>5, <1>6, <1>7
  <2> QED BY <2>1, <2>2, <1>1
<1>9. HalfLevel(s, e) \in {0, 1}
  BY HalfLevels
<1> QED BY <1>8, <1>9 DEF Line

LEMMA LineAfter ==
    ASSUME NEW s, IsFrame(s), sent = {s}, NEW t \in Nat,
           t >= s.start + 2 * s.half * (Len(s.bits) + 1)
    PROVE  Line(t) = 1
<1>1. s.half \in 3 .. 5 /\ s.start \in Nat /\ Len(s.bits) \in {8, 16, 24}
  BY DEF IsFrame
<1>2. t - s.start \in Nat
  BY <1>1
<1>3. PICK e \in Nat, x \in 0 .. s.half - 1 : t - s.start = e * s.half + x
  BY <1>1, <1>2, Placed
<1>4. e >= 2 * Len(s.bits) + 2
  <2>1. CASE s.half = 3
    BY <2>1, <1>1, <1>3
  <2>2. CASE s.half = 4
    BY <2>2, <1>1, <1>3
  <2>3. CASE s.half = 5
    BY <2>3, <1>1, <1>3
  <2> QED BY <2>1, <2>2, <2>3, <1>1
<1>5. PICK k \in Nat : k = e * s.half
  BY <1>1
<1>6. t = s.start + e * s.half + x
  <2>1. x \in Nat /\ t - s.start = k + x
    BY <1>1, <1>3, <1>5
  <2>2. PICK a \in Nat : a = s.start
    BY <1>1
  <2>3. t - a = k + x
    BY <2>1, <2>2
  <2>4. t = a + k + x
    BY <2>3, <2>1
  <2> QED BY <2>2, <2>4, <1>5
<1> QED BY <1>4, <1>6, LineAt, HalfLevels

\* What the line does next: nothing, an edge one or two half bits after the last, or
\* nothing for so long that the alarm rings.
LEMMA NextOnLine ==
    ASSUME NEW s, IsFrame(s), sent = {s}, NEW e \in 0 .. 2 * Len(s.bits) + 2, NEW x \in Gaps,
           Since(s, e, x)
    PROVE  \/ x + 1 \in Gaps /\ Steady(s, e, x + 1) /\ Line(now + 1) = level
           \/ \E i \in {e + 1, e + 2} :
                 /\ i <= 2 * Len(s.bits) + 2 /\ (i = e + 2 => i % 2 = 1)
                 /\ x + 1 = (i - e) * s.half /\ now + 1 = s.start + i * s.half
                 /\ Line(now + 1) = HalfLevel(s, i) /\ HalfLevel(s, i) # level
           \/ x = 20 /\ e > 2 * Len(s.bits) /\ level = 1 /\ Line(now + 1) = 1
<1> DEFINE n == Len(s.bits)
<1>1. n \in {8, 16, 24} /\ s.start \in Nat
  BY DEF IsFrame
<1>2. PICK h \in 3 .. 5 : h = s.half
  BY DEF IsFrame
<1>3. PICK a \in Nat : a = s.start
  BY <1>1
<1>4. now = a + e * h + x /\ level = HalfLevel(s, e) /\ Steady(s, e, x)
  BY <1>2, <1>3 DEF Since
<1>5. PICK k \in Nat : k = e * h
  BY <1>2
<1>6. (e + 1) * h = k + h /\ (e + 2) * h = k + h + h
  <2>1. CASE h = 3
    BY <2>1, <1>5
  <2>2. CASE h = 4
    BY <2>2, <1>5
  <2>3. CASE h = 5
    BY <2>3, <1>5
  <2> QED BY <2>1, <2>2, <2>3
<1>12. PICK k1 \in Nat : k1 = (e + 1) * s.half /\ k1 = k + h
  <2>1. (e + 1) * s.half = k + h
    BY <1>2, <1>6
  <2> QED BY <2>1, <1>2, <1>5
<1>13. PICK k2 \in Nat : k2 = (e + 2) * s.half /\ k2 = k + h + h
  <2>1. (e + 2) * s.half = k + h + h
    BY <1>2, <1>6
  <2> QED BY <2>1, <1>2, <1>5
<1>7. now + 1 = a + k + (x + 1) /\ now + 1 \in Nat /\ x \in 0 .. 20 /\ e \in Nat
  BY <1>4, <1>5 DEF Gaps
<1>8. CASE x + 1 < h
  <2>1. Line(s.start + e * s.half + (x + 1)) = HalfLevel(s, e)
    <3>1. x + 1 \in 0 .. s.half - 1
      BY <1>8, <1>2, <1>7
    <3> QED BY <3>1, <1>7, LineAt
  <2>2. Line(now + 1) = level
    BY <2>1, <1>2, <1>3, <1>4, <1>5, <1>7
  <2>3. x + 1 \in Gaps /\ Steady(s, e, x + 1)
    BY <1>8, <1>2, <1>7 DEF Gaps, Steady
  <2> QED BY <2>2, <2>3
<1>9. CASE x + 1 = h
  <2>1. now + 1 = s.start + (e + 1) * s.half + 0
    <3>1. now + 1 = a + k1 + 0
      BY <1>9, <1>7, <1>12
    <3> QED BY <3>1, <1>3, <1>12
  <2>2. Line(now + 1) = HalfLevel(s, e + 1)
    <3>1. 0 \in 0 .. s.half - 1 /\ e + 1 \in Nat
      BY <1>2, <1>7
    <3> QED BY <3>1, <2>1, LineAt
  <2>3. CASE HalfLevel(s, e + 1) # level
    <3>1. e + 1 <= 2 * n + 2
      <4>1. CASE e = 2 * n + 2
        <5>1. e > 2 * n /\ ~(e < 2 * n) /\ HalfLevel(s, e + 1) = 1 /\ HalfLevel(s, e) = 1
          BY <4>1, <1>1, <1>7, HalfLevels
        <5> QED BY <5>1, <2>3, <1>4
      <4> QED BY <4>1, <1>1
    <3>2. x + 1 = (e + 1 - e) * s.half /\ e + 1 # e + 2
      BY <1>9, <1>2, <1>7
    <3>3. now + 1 = s.start + (e + 1) * s.half
      <4>1. now + 1 = a + k1
        BY <1>9, <1>7, <1>12
      <4> QED BY <4>1, <1>3, <1>12
    <3> QED BY <3>1, <3>2, <3>3, <2>2, <2>3
  <2>4. CASE HalfLevel(s, e + 1) = level
    <3>1. x + 1 \in Gaps
      BY <1>9, <1>2 DEF Gaps
    <3>2. Steady(s, e, x + 1)
      <4>1. CASE e > 2 * n
        <5>1. e + 1 >= 2 * n + 2 /\ e + 1 \in Nat
          BY <4>1, <1>1, <1>7
        <5>2. HalfLevel(s, e) = 1
          BY <5>1, <2>4, <1>4, HalfLevels
        <5> QED BY <4>1, <5>2 DEF Steady
      <4>2. CASE e <= 2 * n
        <5>1. PICK m \in Nat : e = 2 * m \/ e = 2 * m + 1
          BY <1>7, EvenOrOdd
        <5>2. e # 2 * m
          <6> SUFFICES ASSUME e = 2 * m PROVE FALSE
            OBVIOUS
          <6>1. CASE m = 0
            <7>1. e = 0 /\ e + 1 = 1
              BY <6>1
            <7> QED BY <7>1, <2>4, <1>4, HalfLevels
          <6>2. CASE m # 0
            <7>1. m \in 1 .. n /\ e + 1 = 2 * m + 1
              BY <6>2, <4>2, <1>1
            <7>2. s.bits[m] \in {0, 1}
              BY <7>1 DEF IsFrame
            <7>3. HalfLevel(s, e) = 1 - s.bits[m] /\ HalfLevel(s, e + 1) = s.bits[m]
              BY <7>1, HalfLevels
            <7> QED BY <7>2, <7>3, <2>4, <1>4
          <6> QED BY <6>1, <6>2
        <5>3. e % 2 = 1 /\ e < 2 * n /\ x + 1 < 2 * s.half
          <6>1. e % 2 = 1
            BY <5>1, <5>2, Halves
          <6>2. e < 2 * n
            BY <5>1, <5>2, <4>2, <1>1
          <6>3. x + 1 < 2 * s.half
            BY <1>2, <1>9
          <6> QED BY <6>1, <6>2, <6>3
        <5> QED BY <5>3, <2>4, <1>4 DEF Steady
      <4> QED BY <4>1, <4>2, <1>1
    <3> QED BY <3>1, <3>2, <2>2, <2>4
  <2> QED BY <2>3, <2>4
<1>10. CASE x >= h /\ e <= 2 * n
  <2>1. /\ e % 2 = 1 /\ e < 2 * n /\ x < 2 * h
        /\ HalfLevel(s, e + 1) = HalfLevel(s, e)
    BY <1>10, <1>1, <1>2, <1>4, <1>7 DEF Steady
  <2>2. CASE x + 1 < 2 * h
    <3>1. Line(s.start + (e + 1) * s.half + (x + 1 - h)) = HalfLevel(s, e + 1)
      <4>1. x + 1 - h \in 0 .. s.half - 1 /\ e + 1 \in Nat
        BY <2>2, <1>10, <1>2, <1>7
      <4> QED BY <4>1, LineAt
    <3>2. s.start + (e + 1) * s.half + (x + 1 - h) = now + 1
      <4>1. a + k1 + (x + 1 - h) = now + 1
        BY <1>7, <1>12
      <4> QED BY <4>1, <1>3, <1>12
    <3>3. x + 1 \in Gaps /\ Steady(s, e, x + 1)
      BY <2>1, <2>2, <1>2, <1>7 DEF Gaps, Steady
    <3> QED BY <3>1, <3>2, <3>3, <2>1, <1>4
  <2>3. CASE x + 1 = 2 * h
    <3>1. now + 1 = s.start + (e + 2) * s.half + 0 /\ now + 1 = s.start + (e + 2) * s.half
      <4>1. now + 1 = a + k2 + 0 /\ now + 1 = a + k2
        BY <2>3, <1>7, <1>13
      <4> QED BY <4>1, <1>3, <1>13
    <3>2. Line(now + 1) = HalfLevel(s, e + 2)
      <4>1. 0 \in 0 .. s.half - 1 /\ e + 2 \in Nat
        BY <1>2, <1>7
      <4> QED BY <4>1, <3>1, LineAt
    <3>3. PICK m \in Nat : e = 2 * m + 1
      <4>1. PICK m \in Nat : e = 2 * m \/ e = 2 * m + 1
        BY <1>7, EvenOrOdd
      <4> QED BY <4>1, <2>1
    <3>4. m + 1 \in 1 .. n /\ e + 1 = 2 * (m + 1) /\ e + 2 = 2 * (m + 1) + 1
      BY <3>3, <2>1, <1>1
    <3>5. s.bits[m + 1] \in {0, 1}
      BY <3>4 DEF IsFrame
    <3>6. HalfLevel(s, e + 1) = 1 - s.bits[m + 1] /\ HalfLevel(s, e + 2) = s.bits[m + 1]
      BY <3>4, HalfLevels
    <3>7. HalfLevel(s, e + 2) # level
      BY <3>5, <3>6, <2>1, <1>4
    <3>8. e + 2 <= 2 * n + 2 /\ (e + 2) % 2 = 1 /\ x + 1 = (e + 2 - e) * s.half
      <4>1. e + 2 <= 2 * n + 2
        BY <3>4, <1>1
      <4>2. (e + 2) % 2 = 1
        BY <3>4, Halves
      <4>3. e + 2 - e = 2
        BY <1>7
      <4>4. x + 1 = 2 * s.half
        BY <2>3, <1>2
      <4> QED BY <4>1, <4>2, <4>3, <4>4
    <3> QED BY <3>1, <3>2, <3>7, <3>8
  <2> QED BY <2>1, <2>2, <2>3, <1>7
<1>11. CASE x >= h /\ e > 2 * n
  <2>1. HalfLevel(s, e) = 1
    BY <1>11, <1>1, <1>2, <1>4, <1>7 DEF Steady
  <2>2. now + 1 >= s.start + 2 * s.half * (Len(s.bits) + 1)
    <3>4. e >= 2 * n + 1 /\ k = e * h /\ now + 1 = a + k + (x + 1) /\ x >= h
          /\ n \in {8, 16, 24} /\ e \in Nat /\ k \in Nat /\ a \in Nat /\ x \in Nat
      BY <1>11, <1>1, <1>5, <1>7
    <3>6. (now + 1 >= a + 2 * h * (n + 1)) => now + 1 >= s.start + 2 * s.half * (Len(s.bits) + 1)
      BY <1>2, <1>3
    <3> HIDE DEF n
    <3>5. SUFFICES now + 1 >= a + 2 * h * (n + 1)
      BY <3>6
    <3>1. CASE h = 3
      BY <3>1, <3>4, <3>5
    <3>2. CASE h = 4
      BY <3>2, <3>4, <3>5
    <3>3. CASE h = 5
      BY <3>3, <3>4, <3>5
    <3> QED BY <3>1, <3>2, <3>3
  <2>3. Line(now + 1) = 1
    BY <2>2, <1>7, LineAfter
  <2>4. x + 1 \in Gaps => Steady(s, e, x + 1)
    BY <2>1, <1>11 DEF Steady
  <2> QED BY <2>1, <2>3, <2>4, <1>11, <1>4, <1>7 DEF Gaps
<1> QED BY <1>8, <1>9, <1>10, <1>11, <1>1, <1>7

LEMMA InitReceiver == ReceiverInit => ReceiverInv
<1> SUFFICES ASSUME ReceiverInit PROVE ReceiverInv
  OBVIOUS
<1>1. ReceiverTypeOK
  <2>1. kom \in Nat
    <3>1. PICK q \in Quiet : kom = (q * Tick) % RELOAD
      BY DEF ReceiverInit
    <3>2. q * Tick \in Nat
      BY TimeAssumption DEF Tick, HALF_PERIOD
    <3> QED BY <3>1, <3>2 DEF RELOAD
  <2>2. \E s \in Scene : sent = s.frames /\ enabled = s.enabled
    BY DEF ReceiverInit
  <2>3. Hgelen \in Seq({0, 1}) /\ paket_queue \in Seq([bits : Seq({0, 1}), count : Nat])
        /\ gelen \in Seq([block : {0, 8, 16, 24}, bits : Seq({0, 1})])
    BY DEF ReceiverInit
  <2>4. now \in Nat /\ level \in {0, 1} /\ per \in Nat /\ per_runs \in BOOLEAN
        /\ start_bit_begin \in BOOLEAN /\ bit_count \in Nat /\ back_sem \in BOOLEAN
    BY DEF ReceiverInit
  <2> QED BY <2>1, <2>2, <2>3, <2>4 DEF ReceiverTypeOK
<1>2. SingleInv
  <2> SUFFICES ASSUME NEW s \in sent PROVE Before(s)
    BY DEF SingleInv
  <2>1. now < s.start
    BY <1>1, FramesSent DEF ReceiverInit, IsFrame
  <2>2. \E q \in Quiet : kom = ((q + now) * Tick) % RELOAD
    <3>1. PICK q \in Quiet : kom = (q * Tick) % RELOAD
      BY DEF ReceiverInit
    <3>2. q + now = q
      BY TimeAssumption DEF ReceiverInit
    <3> QED BY <3>1, <3>2
  <2> QED BY <2>1, <2>2 DEF ReceiverInit, Before, Nothing
<1>3. CutInv
  <2> SUFFICES ASSUME NEW s \in sent, sent = {s} PROVE level = Line(now)
    BY DEF CutInv, ReceiverInit, Short
  <2>1. IsFrame(s) /\ now < s.start /\ now \in Nat
    BY <1>1, FramesSent DEF ReceiverInit, IsFrame
  <2> QED BY <2>1, LineBefore DEF ReceiverInit
<1> QED BY <1>1, <1>2, <1>3 DEF ReceiverInv

LEMMA AdvanceTyped ==
    ASSUME ReceiverTypeOK, Advance
    PROVE  ReceiverTypeOK'
<1> DEFINE p == IF per_runs THEN per + Tick ELSE per
           k == (kom + Tick) % RELOAD
           lv == Line(now + 1)
<1>1. p \in Nat /\ k \in Nat /\ lv \in {0, 1}
  BY DEF ReceiverTypeOK, Tick, HALF_PERIOD, RELOAD, Line
<1>2. now' = now + 1 /\ level' = lv /\ UNCHANGED <<world, gelen, back_sem>>
  BY DEF Advance
<1>3. now' \in Nat /\ level' \in {0, 1} /\ gelen' = gelen /\ back_sem' = back_sem
  BY <1>1, <1>2 DEF ReceiverTypeOK
<1>4. (\E s \in Scene : sent = s.frames /\ enabled = s.enabled)'
  BY <1>2 DEF ReceiverTypeOK, world
<1> DEFINE Rest == /\ per' \in Nat /\ per_runs' \in BOOLEAN /\ kom' \in Nat
                   /\ start_bit_begin' \in BOOLEAN /\ bit_count' \in Nat
                   /\ Hgelen' \in Seq({0, 1})
                   /\ paket_queue' \in Seq([bits : Seq({0, 1}), count : Nat])
<1>5. SUFFICES Rest
  BY <1>3, <1>4 DEF ReceiverTypeOK
<1>6. CASE timer_alarm_cb(p, k)
  <2> DEFINE g == [bits |-> Hgelen, count |-> bit_count]
  <2>1. g \in [bits : Seq({0, 1}), count : Nat]
    BY DEF ReceiverTypeOK
  <2>2. paket_queue' = Append(paket_queue, g)
    BY <1>6 DEF timer_alarm_cb
  <2> HIDE DEF g
  <2>3. paket_queue' \in Seq([bits : Seq({0, 1}), count : Nat])
    BY <2>1, <2>2 DEF ReceiverTypeOK
  <2>4. per' \in Nat /\ per_runs' \in BOOLEAN /\ kom' \in Nat /\ start_bit_begin' \in BOOLEAN
        /\ bit_count' \in Nat /\ Hgelen' \in Seq({0, 1})
    BY <1>1, <1>6 DEF timer_alarm_cb, ReceiverTypeOK
  <2> QED BY <2>3, <2>4
<1>7. CASE int_handler(lv, p, k) /\ UNCHANGED paket_queue
  <2>1. paket_queue' \in Seq([bits : Seq({0, 1}), count : Nat])
    BY <1>7 DEF ReceiverTypeOK
  <2>2. CASE StartEdge(p, k)
    <3>1. per' \in Nat /\ per_runs' \in BOOLEAN /\ bit_count' \in Nat
      <4>1. per' = 0 \/ per' = p
        BY <2>2 DEF StartEdge
      <4>2. (per_runs' = TRUE \/ per_runs' = per_runs) /\ (bit_count' = 0 \/ bit_count' = bit_count)
        BY <2>2 DEF StartEdge
      <4>3. per_runs' \in BOOLEAN
        BY <4>2, Zenon DEF ReceiverTypeOK
      <4>4. bit_count' \in Nat
        BY <4>2 DEF ReceiverTypeOK
      <4>5. per' \in Nat
        BY <1>1, <4>1
      <4> QED BY <4>3, <4>4, <4>5
    <3>2. kom' \in Nat /\ start_bit_begin' \in BOOLEAN /\ Hgelen' \in Seq({0, 1})
      BY <2>2 DEF StartEdge, ReceiverTypeOK
    <3> QED BY <2>1, <3>1, <3>2
  <2>3. CASE StartMiddle(p, k)
    <3>1. per' \in Nat /\ start_bit_begin' \in BOOLEAN /\ bit_count' \in Nat
      <4>1. per' = 0 \/ per' = p
        BY <2>3 DEF StartMiddle
      <4>2. /\ start_bit_begin' = TRUE \/ start_bit_begin' = start_bit_begin
            /\ bit_count' = 0 \/ bit_count' = bit_count
        BY <2>3 DEF StartMiddle
      <4>3. start_bit_begin' \in BOOLEAN
        BY <4>2, Zenon DEF ReceiverTypeOK
      <4>4. bit_count' \in Nat
        BY <4>2 DEF ReceiverTypeOK
      <4>5. per' \in Nat
        BY <1>1, <4>1
      <4> QED BY <4>3, <4>4, <4>5
    <3>2. kom' \in Nat /\ per_runs' \in BOOLEAN /\ Hgelen' \in Seq({0, 1})
      BY <1>1, <2>3 DEF StartMiddle, ReceiverTypeOK
    <3> QED BY <2>1, <3>1, <3>2
  <2>4. CASE BitEdge(lv, p, k)
    <3>1. bit_count' \in Nat /\ per' \in Nat
      BY <1>1, <2>4 DEF BitEdge, ReceiverTypeOK
    <3>2. Hgelen' = Append(Hgelen, lv) \/ Hgelen' = Hgelen
      BY <2>4 DEF BitEdge
    <3>3. Hgelen' \in Seq({0, 1})
      <4>1. lv \in {0, 1} /\ Hgelen \in Seq({0, 1})
        BY <1>1 DEF ReceiverTypeOK
      <4> HIDE DEF lv
      <4>2. Append(Hgelen, lv) \in Seq({0, 1})
        BY <4>1, AppendProperties
      <4> QED BY <4>1, <4>2, <3>2
    <3>4. kom' \in Nat /\ per_runs' \in BOOLEAN /\ start_bit_begin' \in BOOLEAN
      BY <1>1, <2>4 DEF BitEdge, ReceiverTypeOK
    <3> QED BY <2>1, <3>1, <3>3, <3>4
  <2> QED BY <1>7, <2>2, <2>3, <2>4 DEF int_handler
<1>8. CASE per' = p /\ kom' = k /\ UNCHANGED <<per_runs, decoder, paket_queue>>
  BY <1>1, <1>8 DEF ReceiverTypeOK, decoder
<1> QED BY <1>6, <1>7, <1>8 DEF Advance

LEMMA Blocks == \A c \in Nat : Block(c) \in {0, 8, 16, 24}
BY DEF Block

LEMMA PaketTyped ==
    ASSUME ReceiverTypeOK, paket_task
    PROVE  ReceiverTypeOK'
<1> DEFINE g == Head(paket_queue)
           block == Block(g.count)
           packet == IF block = 0 /\ g.count < 32
                     THEN [block |-> 8, bits |-> Yes]
                     ELSE [block |-> block, bits |-> g.bits]
<1>1. g \in [bits : Seq({0, 1}), count : Nat]
  <2>1. paket_queue \in Seq([bits : Seq({0, 1}), count : Nat]) /\ paket_queue # <<>>
    BY DEF paket_task, ReceiverTypeOK
  <2> QED BY <2>1, HeadTailProperties
<1>2. Yes \in Seq({0, 1})
  BY DEF Yes
<1>3. packet \in [block : {0, 8, 16, 24}, bits : Seq({0, 1})]
  BY <1>1, <1>2, Blocks
<1>4. gelen' = Append(gelen, packet) /\ back_sem' = (back_sem \/ packet.block = 8)
      /\ paket_queue' = Tail(paket_queue)
  BY DEF paket_task
<1> HIDE DEF packet
<1>5. paket_queue' \in Seq([bits : Seq({0, 1}), count : Nat])
  BY <1>4 DEF ReceiverTypeOK, paket_task
<1>6. gelen' \in Seq([block : {0, 8, 16, 24}, bits : Seq({0, 1})])
  BY <1>3, <1>4 DEF ReceiverTypeOK
<1>7. back_sem' \in BOOLEAN
  BY <1>4, Zenon DEF ReceiverTypeOK
<1>8. UNCHANGED <<world, now, level, timers, decoder>>
  BY DEF paket_task
<1> QED BY <1>5, <1>6, <1>7, <1>8 DEF ReceiverTypeOK, world, timers, decoder
-----------------------------------------------------------------------------
(* SingleFrameReceived *)

LEMMA TickIs == Tick = 104
BY DEF Tick, HALF_PERIOD

LEMMA Reloads ==
    ASSUME NEW a \in Nat
    PROVE  (((a * Tick) % RELOAD) + Tick) % RELOAD = ((a + 1) * Tick) % RELOAD
<1>1. PICK b \in Nat : b = a * 104
  OBVIOUS
<1>2. (a + 1) * 104 = b + 104
  BY <1>1
<1>3. ((b % 1000000) + 104) % 1000000 = (b + 104) % 1000000
  OBVIOUS
<1> QED BY <1>1, <1>2, <1>3, TickIs DEF RELOAD

\* Halves of a frame that have been heard.
LEMMA HeardMore ==
    ASSUME NEW bits \in Seq({0, 1}), NEW m \in 1 .. Len(bits)
    PROVE  Append(SubSeq(bits, 1, m - 1), bits[m]) = SubSeq(bits, 1, m)
<1> DEFINE a == SubSeq(bits, 1, m - 1)
           c == SubSeq(bits, 1, m)
<1>1. /\ a \in Seq({0, 1}) /\ Len(a) = m - 1 /\ \A i \in 1 .. m - 1 : a[i] = bits[i]
      /\ c \in Seq({0, 1}) /\ Len(c) = m /\ \A i \in 1 .. m : c[i] = bits[i]
  BY SubSeqProperties
<1>2. bits[m] \in {0, 1}
  OBVIOUS
<1> HIDE DEF a, c
<1>3. /\ Append(a, bits[m]) \in Seq({0, 1}) /\ Len(Append(a, bits[m])) = m
      /\ \A i \in 1 .. m - 1 : Append(a, bits[m])[i] = a[i]
      /\ Append(a, bits[m])[m] = bits[m]
  BY <1>1, <1>2, AppendProperties
<1>4. \A i \in 1 .. m : Append(a, bits[m])[i] = c[i]
  BY <1>1, <1>3
<1> QED BY <1>1, <1>3, <1>4, SeqEqual DEF a, c

LEMMA SinceLater ==
    ASSUME NEW s, IsFrame(s), NEW e \in 0 .. 2 * Len(s.bits) + 2, NEW x \in Gaps,
           Since(s, e, x), Steady(s, e, x + 1),
           now' = now + 1, level' = level, per' = (x + 1) * Tick, per_runs' = per_runs
    PROVE  Since(s, e, x + 1)'
<1>1. now' = s.start + e * s.half + (x + 1)
  <2>1. PICK d \in Nat : d = s.start + e * s.half
    BY DEF IsFrame
  <2>2. now = d + x
    BY <2>1 DEF Since
  <2> QED BY <2>1, <2>2 DEF Gaps
<1>2. level' = HalfLevel(s, e) /\ per_runs'
  BY DEF Since
<1> QED BY <1>1, <1>2 DEF Since

LEMMA SinceEdge ==
    ASSUME NEW s, IsFrame(s), NEW i \in Nat,
           now' = s.start + i * s.half, level' = HalfLevel(s, i), per' = 0, per_runs' = TRUE
    PROVE  Since(s, i, 0)'
<1>1. now' = s.start + i * s.half + 0
  <2>1. PICK d \in Nat : d = s.start + i * s.half
    BY DEF IsFrame
  <2> QED BY <2>1
<1>2. Steady(s, i, 0) /\ per' = 0 * Tick
  BY TickIs DEF Steady, IsFrame
<1> QED BY <1>1, <1>2 DEF Since

\* The timer tells one half bit from two, for every clock within the tolerance.
LEMMA HalfBitsCounted ==
    ASSUME NEW h \in 3 .. 5, NEW x \in Nat, NEW e \in Nat, NEW i \in {e + 1, e + 2},
           x + 1 = (i - e) * h
    PROVE  /\ (x + 1) * Tick \in Nat
           /\ (x + 1) * Tick < ALARM /\ (x + 1) * Tick > PARAZIT
           /\ ((x + 1) * Tick > FULL_PERIOD_DOWN) <=> (i = e + 2)
           /\ i = e + 1 => /\ (x + 1) * Tick > HALF_PERIOD_DOWN
                           /\ (x + 1) * Tick < HALF_PERIOD_UP
<1>1. CASE i = e + 1
  <2>1. x + 1 = h
    BY <1>1
  <2>2. (x + 1) * Tick \in {312, 416, 520} /\ i # e + 2
    BY <2>1, <1>1, TickIs
  <2> QED BY <2>2 DEF ALARM, PARAZIT, FULL_PERIOD_DOWN, HALF_PERIOD_DOWN, HALF_PERIOD_UP,
                      HALF_PERIOD
<1>2. CASE i = e + 2
  <2>1. x + 1 = 2 * h
    BY <1>2
  <2>2. (x + 1) * Tick \in {624, 832, 1040} /\ i # e + 1
    BY <2>1, <1>2, TickIs
  <2> QED BY <2>2, <1>2 DEF ALARM, PARAZIT, FULL_PERIOD_DOWN
<1> QED BY <1>1, <1>2

LEMMA BitCounted ==
    ASSUME NEW e \in Nat, NEW i \in {e + 1, e + 2}, NEW lv, NEW p \in Nat, NEW k,
           p > PARAZIT, (p > FULL_PERIOD_DOWN) <=> (i = e + 2), bit_count \in Nat,
           BitEdge(lv, p, k)
    PROVE  /\ bit_count' = bit_count + (i - e)
           /\ Hgelen' = IF bit_count' % 2 = 0 THEN Append(Hgelen, lv) ELSE Hgelen
           /\ per' = 0 /\ per_runs' = per_runs /\ start_bit_begin' = start_bit_begin
<1>1. /\ bit_count' = bit_count + (IF p > FULL_PERIOD_DOWN THEN 2 ELSE 1)
      /\ Hgelen' = IF bit_count' % 2 = 0 THEN Append(Hgelen, lv) ELSE Hgelen
      /\ per' = 0 /\ per_runs' = per_runs /\ start_bit_begin' = start_bit_begin
  BY DEF BitEdge
<1>2. (IF p > FULL_PERIOD_DOWN THEN 2 ELSE 1) = i - e
  OBVIOUS
<1> QED BY <1>1, <1>2

LEMMA SingleAdvance ==
    ASSUME ReceiverTypeOK, SingleInv, Advance
    PROVE  SingleInv'
<1> SUFFICES ASSUME NEW s \in sent', enabled' = 0, sent' = {s}
             PROVE  (Before(s) \/ Starting(s) \/ Receiving(s) \/ Received(s))'
  BY DEF SingleInv
<1> DEFINE p == IF per_runs THEN per + Tick ELSE per
           k == (kom + Tick) % RELOAD
           lv == Line(now + 1)
           n == Len(s.bits)
<1>1. sent = {s} /\ enabled = 0 /\ now' = now + 1 /\ level' = lv /\ gelen' = gelen
  BY DEF Advance, world
<1>2. IsFrame(s) /\ now \in Nat /\ now + 1 >= enabled /\ now + 1 \in Nat
  <2>1. now \in Nat /\ IsFrame(s)
    BY <1>1, FramesSent DEF ReceiverTypeOK
  <2>2. now + 1 >= 0 /\ now + 1 \in Nat
    BY <2>1
  <2> QED BY <2>1, <2>2, <1>1
<1>3. s.start \in Nat /\ s.half \in 3 .. 5 /\ n \in {8, 16, 24} /\ s.bits \in Seq({0, 1})
  BY <1>2 DEF IsFrame
<1>4. \/ per_runs /\ p >= ALARM /\ timer_alarm_cb(p, k)
      \/ /\ ~(per_runs /\ p >= ALARM) /\ lv # level
         /\ int_handler(lv, p, k) /\ paket_queue' = paket_queue
      \/ /\ ~(per_runs /\ p >= ALARM) /\ lv = level
         /\ per' = p /\ kom' = k /\ per_runs' = per_runs /\ start_bit_begin' = start_bit_begin
         /\ bit_count' = bit_count /\ Hgelen' = Hgelen /\ paket_queue' = paket_queue
  <2>1. \/ /\ per_runs /\ p >= ALARM
           /\ timer_alarm_cb(p, k)
        \/ /\ ~(per_runs /\ p >= ALARM)
           /\ lv # level /\ now + 1 >= enabled
           /\ int_handler(lv, p, k)
           /\ UNCHANGED paket_queue
        \/ /\ ~(per_runs /\ p >= ALARM)
           /\ lv = level \/ now + 1 < enabled
           /\ per' = p /\ kom' = k
           /\ UNCHANGED <<per_runs, decoder, paket_queue>>
    BY DEF Advance
  <2>2. ~(now + 1 < enabled)
    BY <1>1, <1>2
  <2> HIDE DEF p, k, lv
  <2> QED BY <2>1, <2>2 DEF decoder
<1>5. CASE Before(s)
  <2>1. ~per_runs /\ ~start_bit_begin /\ level = 1 /\ Nothing /\ now < s.start
    BY <1>5 DEF Before
  <2>2. PICK q \in Quiet : kom = ((q + now) * Tick) % RELOAD
    BY <1>5 DEF Before
  <2>3. q \in Nat /\ k = ((q + (now + 1)) * Tick) % RELOAD
    <3>1. q \in Nat
      BY TimeAssumption
    <3>2. q + now \in Nat /\ q + now + 1 = q + (now + 1)
      BY <3>1, <1>2
    <3> QED BY <3>1, <3>2, <2>2, Reloads
  <2>4. CASE now + 1 < s.start
    <3>1. lv = 1
      BY <2>4, <1>1, <1>2, LineBefore
    <3>2. level' = 1 /\ kom' = k /\ per_runs' = per_runs /\ start_bit_begin' = start_bit_begin
          /\ paket_queue' = paket_queue
      BY <3>1, <2>1, <1>1, <1>4
    <3>3. now' < s.start /\ kom' = ((q + now') * Tick) % RELOAD
      BY <3>2, <2>3, <2>4, <1>1
    <3> HIDE DEF k
    <3> QED BY <3>2, <3>3, <2>1, <1>1 DEF Before, Nothing
  <2>5. CASE now + 1 = s.start
    <3>1. lv = 0
      <4>1. 0 \in Nat /\ 0 \in 0 .. s.half - 1 /\ now + 1 = s.start + 0 * s.half + 0
        BY <2>5, <1>2, <1>3
      <4> QED BY <4>1, <1>1, <1>2, LineAt, HalfLevels
    <3>2. StartEdge(p, k) /\ paket_queue' = paket_queue
      BY <3>1, <2>1, <1>4 DEF int_handler
    <3>3. k > FULL_PERIOD_DOWN_3
      <4>1. PICK c \in Scene : sent = c.frames
        BY DEF ReceiverTypeOK
      <4>2. s \in c.frames
        BY <4>1, <1>1
      <4> QED BY <4>2, <2>3, <2>5, TimeAssumption
    <3>4. per' = 0 /\ per_runs' = TRUE /\ bit_count' = 0 /\ Hgelen' = <<>>
          /\ start_bit_begin' = start_bit_begin
      BY <3>2, <3>3 DEF StartEdge
    <3>5. Since(s, 0, 0)'
      <4>1. now' = s.start + 0 * s.half + 0 /\ per' = 0 * Tick
        BY <2>5, <3>4, <1>1, <1>2, <1>3, TickIs
      <4>2. level' = HalfLevel(s, 0) /\ Steady(s, 0, 0)
        BY <3>1, <1>1, <1>2, <1>3, HalfLevels DEF Steady
      <4> QED BY <4>1, <4>2, <3>4 DEF Since
    <3>6. 0 \in Gaps
      BY DEF Gaps
    <3> QED BY <3>2, <3>4, <3>5, <3>6, <2>1, <1>1 DEF Starting, Nothing
  <2> QED BY <2>1, <2>4, <2>5, <1>2, <1>3
<1>6. CASE Starting(s)
  <2>1. ~start_bit_begin /\ bit_count = 0 /\ Hgelen = <<>> /\ Nothing
    BY <1>6 DEF Starting
  <2>2. PICK x \in Gaps : Since(s, 0, x)
    BY <1>6 DEF Starting
  <2>3. per_runs /\ p = (x + 1) * Tick /\ x \in Nat /\ now = s.start + 0 * s.half + x
    BY <2>2, TickIs DEF Since, Gaps
  <2>6. 0 \in 0 .. 2 * Len(s.bits) + 2 /\ ~(0 > 2 * Len(s.bits))
    BY <1>3
  <2>4. CASE x + 1 \in Gaps /\ Steady(s, 0, x + 1) /\ lv = level
    <3>1. p < ALARM /\ p \in Nat
      BY <2>3, <2>4, TickIs DEF Gaps, ALARM
    <3>2. /\ per' = p /\ per_runs' = per_runs /\ start_bit_begin' = start_bit_begin
          /\ bit_count' = bit_count /\ Hgelen' = Hgelen /\ paket_queue' = paket_queue
      <4>1. ~(p >= ALARM)
        BY <3>1 DEF ALARM
      <4> HIDE DEF p, k, lv
      <4> QED BY <4>1, <2>4, <1>4
    <3>3. Since(s, 0, x + 1)'
      <4>1. level' = level /\ per' = (x + 1) * Tick
        BY <3>2, <2>3, <2>4, <1>1
      <4> QED BY <4>1, <3>2, <2>2, <2>4, <2>6, <1>1, <1>2, SinceLater
    <3> QED BY <3>2, <3>3, <2>1, <2>4, <1>1 DEF Starting, Nothing
  <2>5. CASE \E i \in {0 + 1, 0 + 2} :
                 /\ i <= 2 * Len(s.bits) + 2 /\ (i = 0 + 2 => i % 2 = 1)
                 /\ x + 1 = (i - 0) * s.half /\ now + 1 = s.start + i * s.half
                 /\ lv = HalfLevel(s, i) /\ HalfLevel(s, i) # level
    <3>1. x + 1 = s.half /\ now + 1 = s.start + 1 * s.half /\ lv = HalfLevel(s, 1) /\ lv # level
      BY <2>5, <1>3
    <3>3. p \in Nat /\ p < ALARM /\ p > HALF_PERIOD_DOWN /\ p < HALF_PERIOD_UP
      <4>1. 1 \in {0 + 1, 0 + 2} /\ x + 1 = (1 - 0) * s.half /\ 1 = 0 + 1
        BY <3>1, <1>3
      <4> QED BY <4>1, <2>3, <1>3, HalfBitsCounted
    <3>4. lv = 1
      BY <3>1, <1>2, HalfLevels
    <3>5. StartMiddle(p, k) /\ paket_queue' = paket_queue
      <4>1. ~(p >= ALARM)
        BY <3>3 DEF ALARM
      <4> HIDE DEF p, k, lv
      <4> QED BY <4>1, <3>1, <3>4, <2>1, <1>4 DEF int_handler
    <3>6. per' = 0 /\ start_bit_begin' = TRUE /\ bit_count' = 0 /\ per_runs' = per_runs
          /\ Hgelen' = Hgelen
      BY <3>3, <3>5 DEF StartMiddle
    <3>7. Since(s, 1, 0)'
      <4>1. per_runs' = TRUE
        BY <3>6, <2>3
      <4> QED BY <4>1, <3>1, <3>6, <1>1, <1>2, SinceEdge
    <3>8. 0 \in Gaps /\ 1 \in Edges(s) /\ (1 - 1) \div 2 = 0
      BY <1>3 DEF Gaps, Edges
    <3>9. Hgelen' = SubSeq(s.bits, 1, (1 - 1) \div 2) /\ bit_count' = 1 - 1
      BY <3>6, <3>8, <2>1, <1>3
    <3> QED BY <3>5, <3>6, <3>7, <3>8, <3>9, <2>1, <1>1 DEF Receiving, Nothing
  <2> QED BY <2>2, <2>4, <2>5, <2>6, <1>1, <1>2, NextOnLine
<1>7. CASE Receiving(s)
  <2>1. start_bit_begin /\ Nothing
    BY <1>7 DEF Receiving
  <2>2. PICK e \in Edges(s), x \in Gaps :
            Since(s, e, x) /\ bit_count = e - 1 /\ Hgelen = SubSeq(s.bits, 1, (e - 1) \div 2)
    BY <1>7 DEF Receiving
  <2>3. per_runs /\ p = (x + 1) * Tick /\ x \in Nat /\ x <= 20
        /\ e \in Nat /\ e >= 1 /\ e <= 2 * n + 2 /\ e \in 0 .. 2 * Len(s.bits) + 2
    BY <2>2, <1>3, TickIs DEF Since, Gaps, Edges
  <2>4. CASE x + 1 \in Gaps /\ Steady(s, e, x + 1) /\ lv = level
    <3>1. p < ALARM /\ p \in Nat
      BY <2>3, <2>4, TickIs DEF Gaps, ALARM
    <3>2. /\ per' = p /\ per_runs' = per_runs /\ start_bit_begin' = start_bit_begin
          /\ bit_count' = bit_count /\ Hgelen' = Hgelen /\ paket_queue' = paket_queue
      <4>1. ~(p >= ALARM)
        BY <3>1 DEF ALARM
      <4> HIDE DEF p, k, lv
      <4> QED BY <4>1, <2>4, <1>4
    <3>3. Since(s, e, x + 1)'
      <4>1. level' = level /\ per' = (x + 1) * Tick
        BY <3>2, <2>3, <2>4, <1>1
      <4> QED BY <4>1, <3>2, <2>2, <2>3, <2>4, <1>1, <1>2, SinceLater
    <3> QED BY <3>2, <3>3, <2>1, <2>2, <2>4, <1>1 DEF Receiving, Nothing
  <2>5. CASE \E i \in {e + 1, e + 2} :
                 /\ i <= 2 * Len(s.bits) + 2 /\ (i = e + 2 => i % 2 = 1)
                 /\ x + 1 = (i - e) * s.half /\ now + 1 = s.start + i * s.half
                 /\ lv = HalfLevel(s, i) /\ HalfLevel(s, i) # level
    <3>1. PICK i \in {e + 1, e + 2} :
                 /\ i <= 2 * n + 2 /\ (i = e + 2 => i % 2 = 1)
                 /\ x + 1 = (i - e) * s.half /\ now + 1 = s.start + i * s.half
                 /\ lv = HalfLevel(s, i) /\ HalfLevel(s, i) # level
      BY <2>5
    <3>2. i \in Nat /\ i \in Edges(s) /\ i >= 2
      BY <3>1, <2>3, <1>3 DEF Edges
    <3>3. p \in Nat /\ p < ALARM /\ p > PARAZIT /\ ((p > FULL_PERIOD_DOWN) <=> (i = e + 2))
      BY <3>1, <2>3, <1>3, HalfBitsCounted
    <3>4. BitEdge(lv, p, k) /\ paket_queue' = paket_queue
      <4>1. ~(p >= ALARM)
        BY <3>3 DEF ALARM
      <4> HIDE DEF p, k, lv
      <4> QED BY <4>1, <3>1, <2>1, <1>4 DEF int_handler
    <3>6. /\ bit_count' = i - 1 /\ per' = 0 /\ per_runs' = per_runs
          /\ start_bit_begin' = start_bit_begin
          /\ Hgelen' = IF (i - 1) % 2 = 0 THEN Append(Hgelen, lv) ELSE Hgelen
      <4> HIDE DEF p, k, lv
      <4>1. /\ bit_count' = bit_count + (i - e)
            /\ Hgelen' = IF bit_count' % 2 = 0 THEN Append(Hgelen, lv) ELSE Hgelen
            /\ per' = 0 /\ per_runs' = per_runs /\ start_bit_begin' = start_bit_begin
        BY <3>1, <3>3, <3>4, <2>3, BitCounted DEF ReceiverTypeOK
      <4>2. bit_count' = i - 1
        BY <4>1, <3>2, <2>2, <2>3
      <4> QED BY <4>1, <4>2
    <3>7. Hgelen' = SubSeq(s.bits, 1, (i - 1) \div 2)
      <4> HIDE DEF lv
      <4>1. PICK m \in Nat : i = 2 * m \/ i = 2 * m + 1
        BY <3>2, EvenOrOdd
      <4>2. m >= 1 /\ m - 1 \in Nat
        BY <4>1, <3>2
      <4>3. CASE i = 2 * m
        <5>1. e = 2 * (m - 1) + 1
          BY <4>3, <3>1, <2>3, Halves
        <5>2. e - 1 = 2 * (m - 1) /\ i - 1 = 2 * (m - 1) + 1
          BY <4>2, <4>3, <5>1
        <5>3. (e - 1) \div 2 = m - 1 /\ (i - 1) \div 2 = m - 1 /\ (i - 1) % 2 = 1
          BY <4>2, <5>2, Halves
        <5> QED BY <5>3, <3>6, <2>2
      <4>4. CASE i = 2 * m + 1
        <5>1. i - 1 = 2 * m /\ (e - 1 = 2 * (m - 1) \/ e - 1 = 2 * (m - 1) + 1)
          BY <4>2, <4>4, <3>1, <2>3
        <5>2. (e - 1) \div 2 = m - 1 /\ (i - 1) \div 2 = m /\ (i - 1) % 2 = 0
          BY <4>2, <5>1, Halves
        <5>3. m \in 1 .. n
          BY <4>2, <4>4, <3>1, <1>3
        <5>4. lv = s.bits[m]
          BY <5>3, <4>4, <3>1, <1>2, HalfLevels
        <5> QED BY <5>2, <5>3, <5>4, <3>6, <2>2, <1>3, HeardMore
      <4> QED BY <4>1, <4>3, <4>4
    <3>8. Since(s, i, 0)'
      <4>1. per_runs' = TRUE
        BY <3>6, <2>3
      <4> QED BY <4>1, <3>1, <3>2, <3>6, <1>1, <1>2, SinceEdge
    <3>9. 0 \in Gaps
      BY DEF Gaps
    <3> QED BY <3>2, <3>4, <3>6, <3>7, <3>8, <3>9, <2>1, <1>1 DEF Receiving, Nothing
  <2>6. CASE x = 20 /\ e > 2 * Len(s.bits) /\ level = 1 /\ lv = 1
    <3>1. p >= ALARM
      BY <2>3, <2>6, TickIs DEF ALARM
    <3>2. timer_alarm_cb(p, k)
      BY <3>1, <2>3, <1>4
    <3>3. (e - 1) \div 2 = n /\ e - 1 \in {2 * n + 0, 2 * n + 1} /\ e >= 2 * n + 1
      BY <2>3, <2>6, <1>3
    <3>4. Hgelen = s.bits
      <4>1. SubSeq(s.bits, 1, n) = s.bits
        BY <1>3, SubSeqFull
      <4> QED BY <4>1, <3>3, <2>2
    <3>5. \E c \in {0, 1} : paket_queue' = <<[bits |-> s.bits, count |-> 2 * Len(s.bits) + c]>>
      <4>1. PICK c \in {0, 1} : bit_count = 2 * n + c
        BY <3>3, <2>2
      <4>2. paket_queue' = Append(<<>>, [bits |-> s.bits, count |-> 2 * n + c])
        BY <4>1, <3>2, <3>4, <2>1 DEF timer_alarm_cb, Nothing
      <4> QED BY <4>2
    <3>6. now' >= s.start + 2 * s.half * (Len(s.bits) + 1)
      <4>1. PICK a \in Nat, h \in 3 .. 5 : a = s.start /\ h = s.half
        BY <1>3
      <4>2. now' = a + e * h + 21
        <5>1. PICK d \in Nat : d = a + e * h
          BY <4>1, <2>3
        <5>2. now = d + 20
          BY <5>1, <4>1, <2>2, <2>6 DEF Since
        <5> QED BY <5>1, <5>2, <1>1
      <4> HIDE DEF n
      <4>3. now' >= a + 2 * h * (n + 1)
        <5>1. CASE h = 3
          BY <5>1, <4>2, <3>3, <2>3, <1>3
        <5>2. CASE h = 4
          BY <5>2, <4>2, <3>3, <2>3, <1>3
        <5>3. CASE h = 5
          BY <5>3, <4>2, <3>3, <2>3, <1>3
        <5> QED BY <5>1, <5>2, <5>3
      <4> QED BY <4>1, <4>3 DEF n
    <3>7. level' = 1 /\ ~per_runs' /\ ~start_bit_begin' /\ gelen' = <<>>
      BY <3>2, <2>1, <2>6, <1>1 DEF timer_alarm_cb, Nothing
    <3> QED BY <3>5, <3>6, <3>7 DEF Received
  <2> QED BY <2>2, <2>3, <2>4, <2>5, <2>6, <1>1, <1>2, NextOnLine
<1>8. CASE Received(s)
  <2>1. ~per_runs /\ ~start_bit_begin /\ level = 1 /\ now >= s.start + 2 * s.half * (n + 1)
    BY <1>8 DEF Received
  <2>2. s.start + 2 * s.half * (n + 1) \in Nat
    <3>1. 2 * s.half \in Nat /\ n + 1 \in Nat
      BY <1>3
    <3>2. 2 * s.half * (n + 1) \in Nat
      <4> HIDE DEF n
      <4> QED BY <3>1
    <3> QED BY <3>2, <1>3
  <2>3. now + 1 >= s.start + 2 * s.half * (n + 1)
    BY <2>1, <2>2, <1>2
  <2>4. lv = 1
    BY <2>3, <1>1, <1>2, LineAfter
  <2>5. level' = 1 /\ per_runs' = per_runs /\ start_bit_begin' = start_bit_begin
        /\ paket_queue' = paket_queue
    BY <2>1, <2>4, <1>1, <1>4
  <2> QED BY <2>1, <2>3, <2>5, <1>1, <1>8 DEF Received
<1>9. SingleInv => Before(s) \/ Starting(s) \/ Receiving(s) \/ Received(s)
  BY <1>1 DEF SingleInv
<1> QED BY <1>5, <1>6, <1>7, <1>8, <1>9

\* A frame with all its half bits is taken for as many bits as it has.
LEMMA WholeBlock ==
    ASSUME NEW n \in {8, 16, 24}, NEW c \in {0, 1}
    PROVE  Block(2 * n + c) = n
BY DEF Block

LEMMA SinglePaket ==
    ASSUME ReceiverTypeOK, SingleInv, paket_task
    PROVE  SingleInv'
<1> SUFFICES ASSUME NEW s \in sent', enabled' = 0, sent' = {s}
             PROVE  Received(s)'
  BY DEF SingleInv
<1>1. /\ sent = {s} /\ enabled = 0 /\ now' = now /\ level' = level
      /\ per_runs' = per_runs /\ start_bit_begin' = start_bit_begin /\ paket_queue # <<>>
  BY DEF paket_task, world, timers, decoder
<1>2. IsFrame(s)
  BY <1>1, FramesSent
<1>3. Received(s)
  BY <1>1 DEF SingleInv, Before, Starting, Receiving, Nothing
<1>4. PICK c \in {0, 1} : paket_queue = <<[bits |-> s.bits, count |-> 2 * Len(s.bits) + c]>>
  BY <1>1, <1>3 DEF Received
<1>5. gelen = <<>>
  BY <1>1, <1>3 DEF Received
<1> DEFINE g == [bits |-> s.bits, count |-> 2 * Len(s.bits) + c]
<1>6. Head(paket_queue) = g /\ Tail(paket_queue) = <<>>
  <2> HIDE DEF g
  <2>1. paket_queue = <<g>>
    BY <1>4 DEF g
  <2> QED BY <2>1
<1>7. Block(g.count) = Len(s.bits) /\ Len(s.bits) # 0 /\ g.bits = s.bits
  <2>1. PICK n \in {8, 16, 24} : n = Len(s.bits)
    BY <1>2 DEF IsFrame
  <2>2. g.count = 2 * n + c /\ g.bits = s.bits
    BY <2>1
  <2>3. Block(g.count) = n
    <3> HIDE DEF g
    <3> QED BY <2>2, WholeBlock
  <2>4. n # 0
    OBVIOUS
  <2> HIDE DEF g
  <2>5. Block(g.count) = Len(s.bits)
    BY <2>1, <2>3
  <2>6. Len(s.bits) # 0
    BY <2>1, <2>4
  <2> QED BY <2>2, <2>5, <2>6
<1>8. gelen' = Append(gelen, [block |-> Len(s.bits), bits |-> s.bits]) /\ paket_queue' = <<>>
  <2> HIDE DEF g
  <2> QED BY <1>6, <1>7 DEF paket_task
<1>9. gelen' = <<[block |-> Len(s.bits), bits |-> s.bits]>>
  BY <1>5, <1>8
<1> QED BY <1>1, <1>3, <1>8, <1>9 DEF Received

LEMMA FinishOfOne ==
    ASSUME NEW s, IsFrame(s), sent = {s}
    PROVE  Finish = s.start + 2 * s.half * (Len(s.bits) + 1) + Silence
<1> DEFINE end == s.start + 2 * s.half * (Len(s.bits) + 1)
           ends == {f.start + 2 * f.half * (Len(f.bits) + 1) : f \in sent}
<1>1. ends = {end}
  OBVIOUS
<1>2. end \in Nat
  <2>1. 2 * s.half \in Nat /\ Len(s.bits) + 1 \in Nat /\ s.start \in Nat
    BY DEF IsFrame
  <2>2. 2 * s.half * (Len(s.bits) + 1) \in Nat
    <3> DEFINE m == Len(s.bits) + 1
    <3>1. m \in Nat
      BY <2>1
    <3> HIDE DEF m
    <3>2. 2 * s.half * m \in Nat
      BY <2>1, <3>1
    <3> QED BY <3>2 DEF m
  <2> QED BY <2>1, <2>2
<1>3. (CHOOSE e \in ends : \A f \in ends : f <= e) = end
  <2> HIDE DEF end, ends
  <2>1. \E e \in ends : \A f \in ends : f <= e
    BY <1>1, <1>2
  <2>2. (CHOOSE e \in ends : \A f \in ends : f <= e) \in ends
    BY <2>1
  <2> QED BY <2>2, <1>1
<1> QED BY <1>3 DEF Finish

LEMMA SingleFollows == ReceiverTypeOK /\ SingleInv => SingleFrameReceived
<1> SUFFICES ASSUME ReceiverTypeOK, SingleInv, Over, enabled = 0, Cardinality(sent) = 1,
                    NEW s \in sent
             PROVE  gelen = <<[block |-> Len(s.bits), bits |-> s.bits]>>
  BY DEF SingleFrameReceived
<1>1. sent = {s}
  <2>1. IsFiniteSet(sent)
    BY SceneAssumption DEF ReceiverTypeOK
  <2> QED BY <2>1, FS_Singleton
<1>2. IsFrame(s)
  BY FramesSent
<1> DEFINE n == Len(s.bits)
<1>3. PICK a \in Nat, h \in 3 .. 5 : a = s.start /\ h = s.half
  BY <1>2 DEF IsFrame
<1>4. n \in {8, 16, 24} /\ Silence \in Nat /\ Silence >= 21
  <2>1. Silence \in Nat /\ Silence * 104 >= 2164
    BY TimeAssumption, TickIs DEF ALARM
  <2>2. Silence >= 21
    BY <2>1
  <2> QED BY <2>1, <2>2, <1>2 DEF IsFrame
<1>5. now = a + 2 * h * (n + 1) + Silence /\ paket_queue = <<>>
  BY <1>1, <1>2, <1>3, FinishOfOne DEF Over
<1> HIDE DEF n
<1>6. \A e \in 0 .. 2 * n + 2, x \in 0 .. 20 : now # a + e * h + x
  <2> SUFFICES ASSUME NEW e \in 0 .. 2 * n + 2, NEW x \in 0 .. 20, now = a + e * h + x PROVE FALSE
    OBVIOUS
  <2>1. CASE h = 3
    BY <2>1, <1>4, <1>5
  <2>2. CASE h = 4
    BY <2>2, <1>4, <1>5
  <2>3. CASE h = 5
    BY <2>3, <1>4, <1>5
  <2> QED BY <2>1, <2>2, <2>3
<1>7. ~Before(s)
  <2>1. 2 * h * (n + 1) \in Nat
    BY <1>4
  <2>2. now >= a
    BY <2>1, <1>4, <1>5
  <2> QED BY <2>2, <1>3, <1>4, <1>5, <2>1 DEF Before
<1>8. ~Starting(s)
  <2>1. ASSUME NEW x \in Gaps, Since(s, 0, x) PROVE FALSE
    BY <2>1, <1>3, <1>4, <1>6 DEF Since, Gaps
  <2> QED BY <2>1 DEF Starting
<1>9. ~Receiving(s)
  <2>1. ASSUME NEW e \in Edges(s), NEW x \in Gaps, Since(s, e, x) PROVE FALSE
    <3>1. e \in 0 .. 2 * n + 2 /\ x \in 0 .. 20
      BY <1>4 DEF Edges, Gaps, n
    <3>2. now = a + e * h + x
      BY <2>1, <1>3 DEF Since
    <3> QED BY <3>1, <3>2, <1>6
  <2> QED BY <2>1 DEF Receiving
<1>10. Received(s)
  BY <1>1, <1>7, <1>8, <1>9 DEF SingleInv
<1> QED BY <1>5, <1>10 DEF Received
-----------------------------------------------------------------------------
(* CutFrameIsNoCommand *)

\* The level of one frame changes only where a half bit begins.
LEMMA EdgeAtHalfBit ==
    ASSUME NEW s, IsFrame(s), sent = {s}, now \in Nat, Line(now + 1) # Line(now)
    PROVE  \E i \in 0 .. 2 * Len(s.bits) + 2 :
               now + 1 = s.start + i * s.half /\ Line(now + 1) = HalfLevel(s, i)
<1> DEFINE n == Len(s.bits)
<1>1. PICK a \in Nat, h \in 3 .. 5 : a = s.start /\ h = s.half
  BY DEF IsFrame
<1>2. n \in Nat /\ now + 1 \in Nat
  BY DEF IsFrame
<1>3. now + 1 >= a
  <2>1. CASE now + 1 < a
    <3>1. now < s.start /\ now + 1 < s.start
      BY <2>1, <1>1
    <3> QED BY <3>1, <1>2, LineBefore
  <2> QED BY <2>1, <1>1, <1>2
<1>4. PICK i \in Nat, x \in 0 .. h - 1 : now + 1 - a = i * h + x
  <2>1. now + 1 - a \in Nat
    BY <1>1, <1>2, <1>3
  <2> QED BY <2>1, Placed
<1>5. PICK k \in Nat : k = i * h /\ k = i * s.half
  BY <1>1
<1>6. now + 1 = a + k + x
  <2>1. x \in Nat /\ now + 1 - a = k + x
    BY <1>1, <1>4, <1>5
  <2> QED BY <2>1, <1>1
<1>7. Line(now + 1) = HalfLevel(s, i)
  <2>1. now + 1 = s.start + i * s.half + x /\ x \in 0 .. s.half - 1
    BY <1>1, <1>5, <1>6
  <2> QED BY <2>1, LineAt
<1>8. x = 0
  <2>1. ASSUME x # 0 PROVE FALSE
    <3>1. x - 1 \in 0 .. s.half - 1
      BY <2>1, <1>1
    <3>2. now = s.start + i * s.half + (x - 1)
      <4>1. now = a + k + (x - 1)
        BY <2>1, <1>1, <1>6
      <4> QED BY <4>1, <1>1, <1>5
    <3>3. Line(now) = HalfLevel(s, i)
      BY <3>1, <3>2, LineAt
    <3> QED BY <3>3, <1>7
  <2> QED BY <2>1
<1>9. i <= 2 * n + 2
  <2>1. ASSUME i >= 2 * n + 3 PROVE FALSE
    <3>1. Line(now + 1) = 1
      BY <2>1, <1>2, <1>7, HalfLevels
    <3>2. now >= a + 2 * h * (n + 1)
      <4> HIDE DEF n
      <4>1. CASE h = 3
        BY <4>1, <2>1, <1>1, <1>2, <1>5, <1>6, <1>8
      <4>2. CASE h = 4
        BY <4>2, <2>1, <1>1, <1>2, <1>5, <1>6, <1>8
      <4>3. CASE h = 5
        BY <4>3, <2>1, <1>1, <1>2, <1>5, <1>6, <1>8
      <4> QED BY <4>1, <4>2, <4>3
    <3>3. Line(now) = 1
      BY <3>2, <1>1, LineAfter
    <3> QED BY <3>1, <3>3
  <2> QED BY <2>1, <1>2
<1>10. now + 1 = s.start + i * s.half
  BY <1>1, <1>5, <1>6, <1>8
<1>11. i \in 0 .. 2 * Len(s.bits) + 2
  BY <1>9, <1>2
<1> QED BY <1>7, <1>10, <1>11

LEMMA CutAdvance ==
    ASSUME ReceiverTypeOK, CutInv, Advance
    PROVE  CutInv'
<1> DEFINE p == IF per_runs THEN per + Tick ELSE per
           k == (kom + Tick) % RELOAD
           lv == Line(now + 1)
<1> SUFFICES ASSUME NEW s \in sent', sent' = {s}, enabled' > s.start + s.half, Len(s.bits) <= 16
             PROVE  /\ level' = Line(now)'
                    /\ per_runs' => now' >= enabled' /\ now' >= s.start + 2 * s.half
                    /\ ~per_runs' => ~start_bit_begin' /\ (per' = 0 \/ per' >= ALARM)
                    /\ start_bit_begin' => \E e \in Edges(s), x \in Gaps :
                                              Since(s, e, x)' /\ bit_count' <= e - 3
                    /\ bit_count' \in Short
                    /\ \A i \in DOMAIN paket_queue' : paket_queue'[i].count \in Short
                    /\ \A i \in DOMAIN gelen' : gelen'[i].block = 8
  BY DEF CutInv
<1>1. /\ sent = {s} /\ sent' = sent /\ enabled' = enabled
      /\ now' = now + 1 /\ level' = lv /\ gelen' = gelen
  BY DEF Advance, world
<1>2. /\ level = Line(now)
      /\ per_runs => now >= enabled /\ now >= s.start + 2 * s.half
      /\ ~per_runs => ~start_bit_begin /\ (per = 0 \/ per >= ALARM)
      /\ start_bit_begin => \E e \in Edges(s), x \in Gaps : Since(s, e, x) /\ bit_count <= e - 3
      /\ bit_count \in Short
      /\ \A i \in DOMAIN paket_queue : paket_queue[i].count \in Short
      /\ \A i \in DOMAIN gelen : gelen[i].block = 8
  BY <1>1 DEF CutInv
<1>3. /\ IsFrame(s) /\ now \in Nat /\ now + 1 \in Nat /\ enabled \in Nat /\ per \in Nat
      /\ bit_count \in Nat
  <2>1. IsFrame(s) /\ now \in Nat /\ per \in Nat /\ bit_count \in Nat
    BY <1>1, FramesSent DEF ReceiverTypeOK
  <2>2. enabled \in Nat
    BY SceneAssumption DEF ReceiverTypeOK
  <2> QED BY <2>1, <2>2
<1>4. s.start \in Nat /\ s.half \in 3 .. 5 /\ Len(s.bits) \in {8, 16}
  <2>1. Len(s.bits) \in {8, 16, 24}
    BY <1>3 DEF IsFrame
  <2>2. PICK n \in {8, 16, 24} : n = Len(s.bits)
    BY <2>1
  <2>3. n <= 16
    BY <2>2
  <2>4. n \in {8, 16}
    BY <2>3
  <2> QED BY <2>2, <2>4, <1>3 DEF IsFrame
<1>5. p \in Nat /\ (~per_runs => p = per) /\ (per_runs => p = per + 104)
  BY <1>3, TickIs
<1>6. level' = Line(now)'
  BY <1>1 DEF Line, Low
<1>7. now' >= now /\ s.start + 2 * s.half \in Nat
  BY <1>1, <1>3, <1>4
<1>8. \A i \in DOMAIN gelen' : gelen'[i].block = 8
  BY <1>1, <1>2
<1>9. CASE per_runs /\ p >= ALARM /\ timer_alarm_cb(p, k)
  <2> DEFINE g == [bits |-> Hgelen, count |-> bit_count]
  <2>1. paket_queue' = Append(paket_queue, g) /\ g.count \in Short
    BY <1>2, <1>9 DEF timer_alarm_cb
  <2>2. per' = p /\ per_runs' = FALSE /\ start_bit_begin' = FALSE /\ bit_count' = bit_count
    BY <1>9 DEF timer_alarm_cb
  <2>3. \A i \in DOMAIN paket_queue' : paket_queue'[i].count \in Short
    <3>1. /\ paket_queue \in Seq([bits : Seq({0, 1}), count : Nat])
          /\ g \in [bits : Seq({0, 1}), count : Nat]
      BY DEF ReceiverTypeOK
    <3> HIDE DEF g
    <3>2. /\ Len(Append(paket_queue, g)) = Len(paket_queue) + 1
          /\ \A i \in 1 .. Len(paket_queue) : Append(paket_queue, g)[i] = paket_queue[i]
          /\ Append(paket_queue, g)[Len(paket_queue) + 1] = g
      BY <3>1, AppendProperties
    <3>3. /\ DOMAIN paket_queue = 1 .. Len(paket_queue) /\ Len(paket_queue) \in Nat
          /\ DOMAIN Append(paket_queue, g) = 1 .. Len(Append(paket_queue, g))
      BY <3>1
    <3> QED BY <2>1, <3>2, <3>3, <1>2
  <2> HIDE DEF p
  <2> QED BY <2>2, <2>3, <1>2, <1>6, <1>8, <1>9
<1>10. CASE /\ ~(per_runs /\ p >= ALARM)
            /\ lv = level \/ now + 1 < enabled
            /\ per' = p /\ UNCHANGED <<per_runs, decoder, paket_queue>>
  <2>1. /\ per' = p /\ per_runs' = per_runs /\ start_bit_begin' = start_bit_begin
        /\ bit_count' = bit_count /\ paket_queue' = paket_queue
    BY <1>10 DEF decoder
  <2>2. per_runs' => now' >= enabled' /\ now' >= s.start + 2 * s.half
    BY <2>1, <1>1, <1>2, <1>3, <1>7
  <2>3. ~per_runs' => ~start_bit_begin' /\ (per' = 0 \/ per' >= ALARM)
    <3> HIDE DEF p
    <3> QED BY <2>1, <1>2, <1>5
  <2>4. ASSUME start_bit_begin'
        PROVE  \E e \in Edges(s), x \in Gaps : Since(s, e, x)' /\ bit_count' <= e - 3
    <3>1. per_runs /\ start_bit_begin
      BY <2>1, <2>4, <1>2
    <3>2. PICK e \in Edges(s), x \in Gaps : Since(s, e, x) /\ bit_count <= e - 3
      BY <3>1, <1>2
    <3>3. lv = level
      <4>1. ~(now + 1 < enabled)
        BY <3>1, <1>2, <1>3
      <4> QED BY <4>1, <1>10
    <3>4. e \in 0 .. 2 * Len(s.bits) + 2 /\ p = (x + 1) * Tick /\ x \in Nat
      BY <3>1, <3>2, <1>4, TickIs DEF Edges, Gaps, Since
    <3>5. x # 20
      BY <3>1, <3>4, <1>10, TickIs DEF ALARM
    <3>6. x + 1 \in Gaps /\ Steady(s, e, x + 1)
      BY <3>2, <3>3, <3>4, <3>5, <1>1, <1>3, NextOnLine
    <3>7. Since(s, e, x + 1)'
      <4>1. level' = level /\ per' = (x + 1) * Tick /\ per_runs' = per_runs /\ now' = now + 1
        BY <2>1, <3>3, <3>4, <1>1
      <4> QED BY <4>1, <3>2, <3>4, <3>6, <1>3, SinceLater
    <3> QED BY <3>2, <3>6, <3>7, <2>1
  <2> QED BY <2>1, <2>2, <2>3, <2>4, <1>2, <1>6, <1>8
<1>11. CASE /\ ~(per_runs /\ p >= ALARM) /\ lv # level /\ now + 1 >= enabled
            /\ int_handler(lv, p, k) /\ UNCHANGED paket_queue
  <2>1. PICK i \in 0 .. 2 * Len(s.bits) + 2 :
               now + 1 = s.start + i * s.half /\ lv = HalfLevel(s, i)
    BY <1>1, <1>2, <1>3, <1>11, EdgeAtHalfBit
  <2>2. i \in Nat /\ i >= 2 /\ (per_runs => i >= 3)
    <3>1. PICK a \in Nat, h \in 3 .. 5 : a = s.start /\ h = s.half
      BY <1>4
    <3>6. now + 1 >= enabled /\ enabled > a + h /\ (per_runs => now >= a + 2 * h)
      BY <3>1, <1>1, <1>2, <1>11
    <3>2. now + 1 = a + i * h /\ now + 1 > a + h /\ (per_runs => now + 1 > a + 2 * h)
      <4>1. now + 1 = a + i * h
        BY <3>1, <2>1
      <4>2. now + 1 > a + h
        BY <3>1, <3>6, <1>3
      <4>3. now >= a + 2 * h => now + 1 > a + 2 * h
        BY <3>1, <1>3
      <4> QED BY <4>1, <4>2, <4>3, <3>6
    <3>3. CASE h = 3
      BY <3>2, <3>3, <3>1, <1>4
    <3>4. CASE h = 4
      BY <3>2, <3>4, <3>1, <1>4
    <3>5. CASE h = 5
      BY <3>2, <3>5, <3>1, <1>4
    <3> QED BY <3>3, <3>4, <3>5
  <2>3. now' >= enabled' /\ now' >= s.start + 2 * s.half
    <3>1. PICK a \in Nat, h \in 3 .. 5 : a = s.start /\ h = s.half
      BY <1>4
    <3>2. now' = a + i * h
      BY <3>1, <2>1, <1>1
    <3>3. now' >= a + 2 * h
      <4>1. CASE h = 3
        BY <4>1, <3>2, <2>2
      <4>2. CASE h = 4
        BY <4>2, <3>2, <2>2
      <4>3. CASE h = 5
        BY <4>3, <3>2, <2>2
      <4> QED BY <4>1, <4>2, <4>3
    <3> QED BY <3>1, <3>3, <1>1, <1>11
  <2>4. paket_queue' = paket_queue
    BY <1>11
  <2>5. CASE StartEdge(p, k) /\ ~start_bit_begin
    <3>1. /\ start_bit_begin' = start_bit_begin
          /\ \/ per_runs' = TRUE /\ bit_count' = 0
             \/ per_runs' = per_runs /\ bit_count' = bit_count /\ per' = p
      BY <2>5 DEF StartEdge
    <3>2. bit_count' \in Short
      <4>1. bit_count' = 0 \/ bit_count' = bit_count
        BY <3>1
      <4>2. 0 \in Short
        BY DEF Short
      <4> QED BY <4>1, <4>2, <1>2
    <3>3. ~per_runs' => per' = 0 \/ per' >= ALARM
      <4> HIDE DEF p
      <4> QED BY <3>1, <1>2, <1>5
    <3> QED BY <2>3, <2>4, <2>5, <3>1, <3>2, <3>3, <1>2, <1>6, <1>8
  <2>6. CASE StartMiddle(p, k) /\ ~start_bit_begin
    <3>1. CASE p > HALF_PERIOD_DOWN /\ p < HALF_PERIOD_UP
      <4>1. per' = 0 /\ start_bit_begin' = TRUE /\ bit_count' = 0 /\ per_runs' = per_runs
        BY <2>6, <3>1 DEF StartMiddle
      <4>2. per_runs = TRUE
        <5>1. p # 0 /\ ~(p >= ALARM)
          BY <3>1, <1>5 DEF HALF_PERIOD_DOWN, HALF_PERIOD_UP, HALF_PERIOD, ALARM
        <5>2. per_runs
          <6> HIDE DEF p
          <6> QED BY <5>1, <1>2, <1>5
        <5> QED BY <5>2 DEF ReceiverTypeOK
      <4>3. Since(s, i, 0)'
        BY <4>1, <4>2, <2>1, <2>2, <1>1, <1>3, SinceEdge
      <4>4. i \in Edges(s) /\ 0 \in Gaps /\ 0 <= i - 3 /\ 0 \in Short
        BY <4>2, <2>2 DEF Edges, Gaps, Short
      <4> QED BY <4>1, <4>2, <4>3, <4>4, <2>3, <2>4, <1>2, <1>6, <1>8
    <3>2. CASE ~(p > HALF_PERIOD_DOWN /\ p < HALF_PERIOD_UP)
      <4>1. per' = p /\ start_bit_begin' = start_bit_begin /\ bit_count' = bit_count
            /\ per_runs' = per_runs
        BY <2>6, <3>2 DEF StartMiddle
      <4>2. ~per_runs' => per' = 0 \/ per' >= ALARM
        <5> HIDE DEF p
        <5> QED BY <4>1, <1>2, <1>5
      <4> QED BY <4>1, <4>2, <2>3, <2>4, <2>6, <1>2, <1>6, <1>8
    <3> QED BY <3>1, <3>2
  <2>7. CASE BitEdge(lv, p, k) /\ start_bit_begin
    <3>1. per_runs
      BY <2>7, <1>2
    <3>2. PICK e \in Edges(s), x \in Gaps : Since(s, e, x) /\ bit_count <= e - 3
      BY <2>7, <1>2
    <3>3. e \in Nat /\ e \in 0 .. 2 * Len(s.bits) + 2 /\ p = (x + 1) * Tick /\ x \in Nat
      BY <3>1, <3>2, <1>4, TickIs DEF Edges, Gaps, Since
    <3>4. x # 20
      BY <3>1, <3>3, <1>11, TickIs DEF ALARM
    <3>5. PICK j \in {e + 1, e + 2} :
              /\ j <= 2 * Len(s.bits) + 2 /\ (j = e + 2 => j % 2 = 1)
              /\ x + 1 = (j - e) * s.half /\ now + 1 = s.start + j * s.half
              /\ lv = HalfLevel(s, j) /\ HalfLevel(s, j) # level
      BY <3>2, <3>3, <3>4, <1>1, <1>3, <1>11, NextOnLine
    <3>6. p \in Nat /\ p > PARAZIT /\ ((p > FULL_PERIOD_DOWN) <=> (j = e + 2))
      BY <3>3, <3>5, <1>4, HalfBitsCounted
    <3>7. /\ bit_count' = bit_count + (j - e) /\ per' = 0 /\ per_runs' = per_runs
          /\ start_bit_begin' = start_bit_begin
      <4> HIDE DEF p, k, lv
      <4> QED BY <3>3, <3>5, <3>6, <2>7, <1>3, BitCounted
    <3>8. bit_count' <= j - 3 /\ bit_count' \in Short /\ j \in Nat /\ j \in Edges(s)
      <4>1. PICK b \in Nat : b = bit_count /\ b <= e - 3
        BY <3>2, <1>3
      <4>2. bit_count' = b + (j - e)
        BY <4>1, <3>7
      <4>3. b + (j - e) <= j - 3 /\ b + (j - e) \in Nat /\ j - 3 <= 31
        BY <4>1, <3>3, <3>5, <1>4
      <4> QED BY <4>2, <4>3, <3>3, <3>5, <1>4 DEF Short, Edges
    <3>9. per_runs' = TRUE
      BY <3>1, <3>7 DEF ReceiverTypeOK
    <3>10. Since(s, j, 0)' /\ 0 \in Gaps
      BY <3>5, <3>7, <3>8, <3>9, <1>1, <1>3, SinceEdge DEF Gaps
    <3> QED BY <2>3, <2>4, <3>8, <3>9, <3>10, <1>2, <1>6, <1>8
  <2> QED BY <2>5, <2>6, <2>7, <1>11 DEF int_handler
<1> QED BY <1>9, <1>10, <1>11 DEF Advance

LEMMA CutPaket ==
    ASSUME ReceiverTypeOK, CutInv, paket_task
    PROVE  CutInv'
<1> SUFFICES ASSUME NEW s \in sent', sent' = {s}, enabled' > s.start + s.half, Len(s.bits) <= 16
             PROVE  /\ level' = Line(now)'
                    /\ per_runs' => now' >= enabled' /\ now' >= s.start + 2 * s.half
                    /\ ~per_runs' => ~start_bit_begin' /\ (per' = 0 \/ per' >= ALARM)
                    /\ start_bit_begin' => \E e \in Edges(s), x \in Gaps :
                                              Since(s, e, x)' /\ bit_count' <= e - 3
                    /\ bit_count' \in Short
                    /\ \A i \in DOMAIN paket_queue' : paket_queue'[i].count \in Short
                    /\ \A i \in DOMAIN gelen' : gelen'[i].block = 8
  BY DEF CutInv
<1>1. /\ sent' = sent /\ enabled' = enabled /\ now' = now /\ level' = level
      /\ per' = per /\ per_runs' = per_runs /\ start_bit_begin' = start_bit_begin
      /\ bit_count' = bit_count
  BY DEF paket_task, world, timers, decoder
<1>2. /\ level = Line(now)
      /\ per_runs => now >= enabled /\ now >= s.start + 2 * s.half
      /\ ~per_runs => ~start_bit_begin /\ (per = 0 \/ per >= ALARM)
      /\ start_bit_begin => \E e \in Edges(s), x \in Gaps : Since(s, e, x) /\ bit_count <= e - 3
      /\ bit_count \in Short
      /\ \A i \in DOMAIN paket_queue : paket_queue[i].count \in Short
      /\ \A i \in DOMAIN gelen : gelen[i].block = 8
  BY <1>1 DEF CutInv
<1>3. level' = Line(now)'
  BY <1>1, <1>2 DEF Line, Low
<1>4. \A e, x : Since(s, e, x) => Since(s, e, x)'
  BY <1>1 DEF Since
<1> DEFINE g == Head(paket_queue)
           block == Block(g.count)
           packet == IF block = 0 /\ g.count < 32
                     THEN [block |-> 8, bits |-> Yes]
                     ELSE [block |-> block, bits |-> g.bits]
<1>5. paket_queue # <<>> /\ paket_queue' = Tail(paket_queue) /\ gelen' = Append(gelen, packet)
  BY DEF paket_task
<1>6. paket_queue \in Seq([bits : Seq({0, 1}), count : Nat])
      /\ gelen \in Seq([block : {0, 8, 16, 24}, bits : Seq({0, 1})])
  BY DEF ReceiverTypeOK
<1>7. g.count \in Short
  <2>1. 1 \in DOMAIN paket_queue /\ g = paket_queue[1]
    BY <1>5, <1>6
  <2> QED BY <2>1, <1>2
<1>8. packet.block = 8
  <2>1. \A c \in Short : Block(c) \in {0, 8} /\ c < 32
    <3> SUFFICES ASSUME NEW c \in Short PROVE Block(c) \in {0, 8} /\ c < 32
      OBVIOUS
    <3>1. c \in Nat /\ c < 32 /\ c \notin {32, 33} /\ ~(c > 40)
      BY DEF Short
    <3>2. CASE c \in {16, 17}
      BY <3>1, <3>2 DEF Block
    <3>3. CASE c \notin {16, 17}
      BY <3>1, <3>3 DEF Block
    <3> QED BY <3>1, <3>2, <3>3
  <2> QED BY <2>1, <1>7
<1>9. \A i \in DOMAIN paket_queue' : paket_queue'[i].count \in Short
  <2>1. /\ Tail(paket_queue) \in Seq([bits : Seq({0, 1}), count : Nat])
        /\ Len(Tail(paket_queue)) = Len(paket_queue) - 1
        /\ \A i \in 1 .. Len(Tail(paket_queue)) : Tail(paket_queue)[i] = paket_queue[i + 1]
    BY <1>5, <1>6, HeadTailProperties
  <2>2. /\ DOMAIN Tail(paket_queue) = 1 .. Len(Tail(paket_queue))
        /\ DOMAIN paket_queue = 1 .. Len(paket_queue) /\ Len(paket_queue) \in Nat
    BY <2>1, <1>6
  <2> SUFFICES ASSUME NEW i \in 1 .. Len(Tail(paket_queue))
               PROVE  Tail(paket_queue)[i].count \in Short
    BY <2>2, <1>5
  <2>3. i + 1 \in DOMAIN paket_queue
    BY <2>1, <2>2
  <2> QED BY <2>1, <2>3, <1>2
<1>10. \A i \in DOMAIN gelen' : gelen'[i].block = 8
  <2> HIDE DEF packet
  <2> QED BY <1>2, <1>5, <1>6, <1>8
<1> QED BY <1>1, <1>2, <1>3, <1>4, <1>9, <1>10

LEMMA CutFollows ==
    ASSUME ReceiverTypeOK, CutInv, \E s : sent = {s}
    PROVE  CutFrameIsNoCommand
BY DEF CutInv, CutFrameIsNoCommand
-----------------------------------------------------------------------------
(* The theorems *)

LEMMA ReceiverSteps ==
    ASSUME ReceiverInv, [ReceiverNext]_receiverVars
    PROVE  ReceiverInv'
<1>1. CASE Advance
  BY <1>1, AdvanceTyped, SingleAdvance, CutAdvance DEF ReceiverInv
<1>2. CASE paket_task
  BY <1>2, PaketTyped, SinglePaket, CutPaket DEF ReceiverInv
<1>3. CASE UNCHANGED receiverVars
  <2> USE <1>3 DEF receiverVars, world, timers, decoder
  <2>1. ReceiverTypeOK'
    BY DEF ReceiverInv, ReceiverTypeOK
  <2>2. SingleInv'
    BY DEF ReceiverInv, SingleInv, Before, Starting, Receiving, Received, Since, Nothing
  <2>3. CutInv'
    BY DEF ReceiverInv, CutInv, Since, Line, Low
  <2> QED BY <2>1, <2>2, <2>3 DEF ReceiverInv
<1> QED BY <1>1, <1>2, <1>3 DEF ReceiverNext

\* What the receiver has counted and decoded of a frame, whole or cut, at every tick
\* (dali.cpp:271-420).
THEOREM ReceiverInvHolds == ReceiverSpec => []ReceiverInv
<1>1. ReceiverInit => ReceiverInv
  BY InitReceiver
<1>2. ReceiverInv /\ [ReceiverNext]_receiverVars => ReceiverInv'
  BY ReceiverSteps
<1> QED BY <1>1, <1>2, PTL DEF ReceiverSpec

\* A frame of any 8, 16 or 24 bits from a single sender, with a clock within a quarter
\* of the standard's, is received once, with its length and all its bits
\* (dali.cpp:307-420, 460-500).
THEOREM FrameIsReceived == ReceiverSpec => []SingleFrameReceived
<1>1. ReceiverInv => SingleFrameReceived
  BY SingleFollows DEF ReceiverInv
<1> QED BY <1>1, ReceiverInvHolds, PTL

\* One frame of 8 or 16 bits at a time: whenever the interrupt is switched on in its
\* course, what is left of it is never taken for a command (dali.cpp:469-490).
THEOREM CutIsNoCommand ==
    ASSUME \A c \in Scene : \E s : c.frames = {s}
    PROVE  ReceiverSpec => []CutFrameIsNoCommand
<1>1. ReceiverInv => CutFrameIsNoCommand
  <2> SUFFICES ASSUME ReceiverInv PROVE CutFrameIsNoCommand
    OBVIOUS
  <2>1. \E s : sent = {s}
    BY DEF ReceiverInv, ReceiverTypeOK
  <2> QED BY <2>1, CutFollows DEF ReceiverInv
<1> QED BY <1>1, ReceiverInvHolds, PTL
=============================================================================
