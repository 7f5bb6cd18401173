----------------------------- MODULE Commission -----------------------------
(***************************************************************************)
(* Automatic addressing of the lamps on the DALI line: Search_Device of    *)
(* tools/dali_tool.cpp and what it calls.                                  *)
(*                                                                         *)
(* Every lamp has drawn a 24 bit random address (RANDOMIZE); here a lamp   *)
(* is its random address.  COMPARE asks whether an undiscovered lamp has a *)
(* random address up to the search address.  The controller looks for the  *)
(* smallest one nibble by nibble, gives that lamp the first free row of    *)
(* the lamp file as its short address, and withdraws it from the search.   *)
(*                                                                         *)
(* The lamps follow IEC 62386-102: a lamp that is withdrawn is silent only *)
(* to COMPARE; it still takes PROGRAM SHORT ADDRESS at its random address  *)
(* and answers VERIFY SHORT ADDRESS.  INITIALISE with 0 puts lamps into    *)
(* the search that have a short address from before.                       *)
(*                                                                         *)
(* One action is one question on the line.  A bounded number of answers    *)
(* may be wrong, lost or garbled.                                          *)
(***************************************************************************)
EXTENDS Integers, FiniteSets, FiniteSetsExt

CONSTANTS
    Draw,          \* random addresses a lamp may have drawn
    Lines,         \* what may be on the line: each lamp INITIALISE puts into the
                   \* search, with the short address it has from before
    Files,         \* the rows GEAR_FILE may have in use before
    Row,           \* rows of GEAR_FILE, 0 .. 63 in the program
    MaxNoise(_),   \* bound on the wrong answers to COMPARE, for each line
    MaxUnheard(_), \* bound on the wrong answers to VERIFY
    None           \* no short address

LastAddress == 16777215
Address == 0 .. LastAddress

ASSUME DrawAssumption == Draw \subseteq Address
ASSUME RowAssumption == \E n \in 1 .. 64 : Row = 0 .. n - 1
ASSUME NoneAssumption == None \notin Row
ASSUME LineAssumption ==
    \A l \in Lines : DOMAIN l \subseteq Draw /\ l \in [DOMAIN l -> Row \cup {None}]
ASSUME FileAssumption == Files \subseteq SUBSET Row
ASSUME BoundAssumption == \A l \in Lines : MaxNoise(l) \in Nat /\ MaxUnheard(l) \in Nat

VARIABLES
    old,       \* the line: the short addresses from before the search
    taken,     \* the rows of GEAR_FILE from before
    active,    \* the lamps not withdrawn
    short,     \* short address of a lamp
    used,      \* rows of GEAR_FILE with a short address up to 64
    pc,
    search,    \* h, m, l: the address the search has fixed so far
    nibble,    \* which of its six nibbles is sought, 6: none
    first,     \* the nibble the next find_block half starts from
    ek, count, \* local variables of q_upH0 and q_downH0
    limit,     \* ek1
    step,      \* ss
    next_one,  \* calls of SonrakiniATA in this round
    tries,     \* VERIFY questions asked for this lamp
    row,       \* abc: the row find_addr found
    noise,     \* wrong answers to COMPARE so far
    unheard,   \* wrong answers to VERIFY so far
    deaf       \* all four answers of one lamp to VERIFY were lost

line == <<old, taken, active, short>>
local == <<ek, count, limit, step>>
round == <<next_one, tries, row>>
wrong == <<noise, unheard, deaf>>
vars == <<line, used, pc, search, nibble, first, local, round, wrong>>

lamps == DOMAIN old

Weight == <<1048576, 65536, 4096, 256, 16, 1>>
weight == Weight[nibble + 1]

Init ==
    /\ old \in Lines /\ taken \in Files
    /\ active = lamps
    /\ short = old
    /\ used = taken
    /\ pc = "any"
    /\ search = 0
    /\ nibble = 6
    /\ first = 8
    /\ ek = 0 /\ count = 3 /\ limit = 0 /\ step = 0
    /\ next_one = 0 /\ tries = 0 /\ row = None
    /\ noise = 0 /\ unheard = 0 /\ deaf = FALSE
-----------------------------------------------------------------------------
(* The lamps *)

\* What the lamps answer to COMPARE; several answers at once collide and are
\* read as 0xFF, which is YES as well.
Compared(address) == IF \E g \in active : g <= address THEN "yes" ELSE "no"

\* What the lamps answer to VERIFY SHORT ADDRESS, the withdrawn ones too.
Verified(r) == IF \E g \in lamps : short[g] = r THEN "yes" ELSE "no"

\* What send_compare returns: the true answer, or any other as long as the noise
\* lasts.  "timeout" stands for BACK_TIMEOUT after six garbled answers; an
\* answer that never comes is "no".
Heard(answer, truth) ==
    /\ \/ answer = truth /\ UNCHANGED noise
       \/ /\ noise < MaxNoise(old)
          /\ answer \in {"yes", "no", "timeout"} \ {truth}
          /\ noise' = noise + 1
    /\ UNCHANGED <<unheard, deaf>>

\* The same for send_receive, which asks VERIFY.
HeardVerify(answer, truth) ==
    /\ \/ answer = truth /\ UNCHANGED unheard
       \/ /\ unheard < MaxUnheard(old)
          /\ answer \in {"yes", "no", "timeout"} \ {truth}
          /\ unheard' = unheard + 1
    /\ deaf' = (deaf \/ (truth = "yes" /\ answer # "yes" /\ tries = 3))
    /\ UNCHANGED noise

Answer == {"yes", "no", "timeout"}
-----------------------------------------------------------------------------
(* find_min_number: find_block for h, m, l, each half by q_upH0 or q_downH0 *)

\* The address with the sought nibble set to n.  When q_downH0 counts to 16 the
\* nibble wraps to 0; in a lower half the carry is or-ed into the upper half.
Asked(n) ==
    IF n < 16 THEN search + n * weight
    ELSE IF nibble % 2 = 0 \/ (search \div (16 * weight)) % 2 = 1 THEN search
    ELSE search + 16 * weight

\* q_upH0 or q_downH0 has returned n for the sought nibble.
Fixed(n) ==
    /\ search' = search + n * weight
    /\ nibble' = nibble + 1
    /\ first' = 8
    /\ pc' = IF nibble = 5 THEN "found" ELSE "first"
    /\ UNCHANGED local

\* q_upH0 gives up: for an upper half it returns 0xF instead of 0xF0.
UpLost ==
    IF nibble % 2 = 0
    THEN /\ nibble' = nibble + 1
         /\ first' = 15
         /\ pc' = "first"
         /\ UNCHANGED <<search, local>>
    ELSE Fixed(15)

\* The question of find_block that decides between the two searches.
FindFirst(a) ==
    /\ pc = "first"
    /\ Heard(a, Compared(search + first * weight))
    /\ pc' = IF a = "no" THEN "up" ELSE "down"
    /\ count' = 3
    /\ ek' = 8
    /\ UNCHANGED <<line, used, search, nibble, first, limit, step, round>>

\* q_upH0: set the bits of the nibble from the top until a lamp answers.
Up(a) ==
    /\ pc = "up"
    /\ Heard(a, Compared(Asked(ek)))
    /\ IF a = "yes"
       THEN IF count = 3
            THEN UpLost     \* ek1 has wrapped to 0xF8
            ELSE /\ limit' = ek - 2 ^ (count + 1)
                 /\ pc' = "upscan"
                 /\ UNCHANGED <<search, nibble, first, ek, count, step>>
       ELSE IF count = 0
            THEN Fixed(15)
            ELSE /\ count' = count - 1
                 /\ ek' = ek + 2 ^ (count - 1)
                 /\ UNCHANGED <<search, nibble, first, limit, step, pc>>
    /\ UNCHANGED <<line, used, round>>

\* Then count down to the first value without an answer.
UpScan(a) ==
    /\ pc = "upscan"
    /\ Heard(a, Compared(Asked(ek)))
    /\ IF a = "no"
       THEN Fixed(ek)
       ELSE IF ek - 1 < limit
            THEN UpLost
            ELSE ek' = ek - 1 /\ UNCHANGED <<search, nibble, first, count, limit, step, pc>>
    /\ UNCHANGED <<line, used, round>>

\* q_downH0: try single bits from the top until no lamp answers.
Down(a) ==
    /\ pc = "down"
    /\ Heard(a, Compared(Asked(ek)))
    /\ IF a = "no"
       THEN /\ limit' = 2 ^ (count + 1)
            /\ step' = 0
            /\ pc' = "downscan"
            /\ UNCHANGED <<search, nibble, first, ek, count>>
       ELSE IF count = 0
            THEN Fixed(0)
            ELSE /\ count' = count - 1
                 /\ ek' = 2 ^ (count - 1)
                 /\ UNCHANGED <<search, nibble, first, limit, step, pc>>
    /\ UNCHANGED <<line, used, round>>

\* Faulty: takes the value that was answered.
DownScanTakesAnswered(a) ==
    /\ pc = "downscan"
    /\ Heard(a, Compared(Asked(ek)))
    /\ IF a = "yes"
       THEN Fixed(ek)
       ELSE ek' = ek + 1 /\ UNCHANGED <<search, nibble, first, count, limit, step, pc>>
    /\ UNCHANGED <<line, used, round>>

\* Then count up to the first value with an answer and take the one before.
DownScan(a) ==
    /\ pc = "downscan"
    /\ Heard(a, Compared(Asked(ek)))
    /\ IF a = "yes"
       THEN Fixed(IF step = 0 THEN ek ELSE ek - 1)
       ELSE IF ek + 1 > limit
            THEN Fixed(0)
            ELSE /\ ek' = ek + 1
                 /\ step' = step + 1
                 /\ UNCHANGED <<search, nibble, first, count, limit, pc>>
    /\ UNCHANGED <<line, used, round>>
-----------------------------------------------------------------------------
(* Search_Device *)

\* Faulty: asks for the lower half of the addresses only.
AnyLampBelow(a) ==
    /\ pc = "any"
    /\ Heard(a, Compared(8388607))
    /\ IF a = "yes"
       THEN pc' = "first" /\ search' = 0 /\ nibble' = 0 /\ first' = 8
       ELSE pc' = "done" /\ UNCHANGED <<search, nibble, first>>
    /\ next_one' = 0
    /\ UNCHANGED <<line, used, local, tries, row>>

\* Is any lamp left?  Without an answer the search ends, whatever the repeated
\* question says.
AnyLamp(a) ==
    /\ pc = "any"
    /\ Heard(a, Compared(LastAddress))
    /\ IF a = "yes"
       THEN pc' = "first" /\ search' = 0 /\ nibble' = 0 /\ first' = 8
       ELSE pc' = "done" /\ UNCHANGED <<search, nibble, first>>
    /\ next_one' = 0
    /\ UNCHANGED <<line, used, local, tries, row>>

\* l++: the carry out of the low byte is lost.
Successor(a) == IF a % 256 = 255 THEN a - 255 ELSE a + 1

\* SonrakiniATA: the carry goes into m, and is lost there.
NextOne(a) ==
    IF a % 256 # 255 THEN a + 1
    ELSE IF (a \div 256) % 256 = 255 THEN a - 65535
    ELSE a + 1

\* find_addr: the first free row.
FreeRow == IF Row \subseteq used THEN None ELSE Min(Row \ used)

\* The question before AtamaYAP, for the lamp found or for the next address.
FoundOrNext(a) ==
    /\ \/ pc = "found" /\ search' = Successor(search)
       \/ pc = "next" /\ search' = NextOne(search)
    /\ Heard(a, Compared(search'))
    /\ row' = IF a = "yes" THEN FreeRow ELSE None
    /\ pc' = IF a = "yes" /\ FreeRow # None THEN "program" ELSE "any"
    /\ tries' = 0
    /\ nibble' = 6
    /\ UNCHANGED <<line, used, first, local, next_one>>

\* AtamaVeKontrol: PROGRAM SHORT ADDRESS reaches the lamp at the search address,
\* withdrawn or not.
Program ==
    /\ pc = "program"
    /\ short' = [g \in lamps |-> IF g = search THEN row ELSE short[g]]
    /\ pc' = "verify"
    /\ UNCHANGED <<old, taken, active, used, search, nibble, first, local, round, wrong>>

\* Faulty: the lamp is not withdrawn.
VerifyKeeps(a) ==
    /\ pc = "verify"
    /\ HeardVerify(a, Verified(row))
    /\ used' = IF a = "yes" THEN used \cup {row} ELSE used
    /\ pc' = "any"
    /\ UNCHANGED <<line, search, nibble, first, local, round>>

\* Faulty: the row is not written.
VerifyForgetsRow(a) ==
    /\ pc = "verify"
    /\ HeardVerify(a, Verified(row))
    /\ active' = IF a = "yes" THEN active \ {search} ELSE active
    /\ pc' = "any"
    /\ UNCHANGED <<old, taken, short, used, search, nibble, first, local, round>>

\* VERIFY, twice after each of two PROGRAMs; then the row is written and the
\* lamp at the search address withdrawn.
Verify(a) ==
    /\ pc = "verify"
    /\ HeardVerify(a, Verified(row))
    /\ tries' = tries + 1
    /\ IF a = "yes"
       THEN /\ used' = used \cup {row}
            /\ active' = active \ {search}
            /\ next_one' = next_one + 1
            /\ pc' = IF next_one = 3 THEN "any" ELSE "next"
       ELSE /\ pc' = CASE tries = 1 -> "program" [] tries = 3 -> "any" [] OTHER -> "verify"
            /\ UNCHANGED <<used, active, next_one>>
    /\ UNCHANGED <<old, taken, short, search, nibble, first, local, row>>

Next ==
    \/ \E a \in Answer :
          \/ AnyLamp(a)
          \/ FindFirst(a)
          \/ Up(a)
          \/ UpScan(a)
          \/ Down(a)
          \/ DownScan(a)
          \/ FoundOrNext(a)
          \/ Verify(a)
    \/ Program

Spec == Init /\ [][Next]_vars

\* The event-loop task runs Search_Device to its end.
FairSpec == Spec /\ WF_vars(Next)
-----------------------------------------------------------------------------
(* Properties *)

Places == {"any", "first", "up", "upscan", "down", "downscan", "found", "next",
           "program", "verify", "done"}

\* dali_tool.cpp:373, find_min_number "finds one less than the smallest number
\* on the line": six searches of a nibble, each up or down in powers of two and
\* back in ones, meet exactly below the smallest lamp.
FindsPredecessor ==
    (noise = 0 /\ pc = "found") =>
        /\ active # {}
        /\ search = IF Min(active) = 0 THEN 0 ELSE Min(active) - 1

\* A lamp that has left the search has a short address of its own and the file
\* knows it, but for the moment the lamp is given another: wrong answers to COMPARE
\* may bring the search back to it.  However many those were; only when all four
\* answers to VERIFY of one lamp were lost may the file not know the address
\* (dali_tool.cpp:254-309).
WithdrawnDistinct ==
    ~deaf =>
        \A g \in lamps \ active :
            /\ short[g] \in used \/ (pc \in {"program", "verify"} /\ g = search /\ short[g] = row)
            /\ \A k \in lamps \ active : short[k] = short[g] => k = g

\* With true answers to COMPARE the search writes the addresses of the lamps it
\* withdraws into the file and no other row, and a lamp it has given an address
\* without hearing the VERIFY is the one it comes back to, with the same row: no row
\* is lost and no address is given twice, although lamps bring addresses from before
\* and any number of answers to VERIFY are lost (dali_tool.cpp:10-19, 254-309).  The
\* random address 0 is left out: the search never asks for it (line 374), and what
\* it takes for the lamp there may be one that has its row already.
RowsOfLamps ==
    (noise = 0 /\ 0 \notin lamps) =>
        /\ used \ taken = {short[g] : g \in lamps \ active}
        /\ \A g, k \in lamps \ active : short[g] = short[k] => g = k
        /\ \A g \in active : short[g] # old[g] =>
              short[g] = FreeRow /\ \A k \in active : g <= k

\* dali_tool.cpp:33-36, the search "scans the DALI network and addresses it
\* automatically": it ends, whatever answers were wrong, and with true answers to
\* COMPARE no lamp is left then.  But the loop of line 358 goes on for ever once the
\* search has come to a lamp whose random address ends in 00, which l++ (line 374)
\* never gets to, or once a lamp is left and no row of the file (line 272).
AllAddressed ==
    <>[](\/ pc = "done" /\ (noise = 0 => active = {})
         \/ active # {} /\ (Min(active) % 256 = 0 \/ Row \subseteq used))

\* WithdrawnDistinct made inductive: the row a lamp is about to get is free, and
\* once PROGRAM has been sent the lamp at the search address has it.
ShortInv ==
    /\ active \subseteq lamps /\ lamps \subseteq Draw
    /\ used \subseteq Row
    /\ short \in [lamps -> Row \cup {None}]
    /\ pc \in {"program", "verify"} => row \in Row \ used
    /\ pc = "verify" => \A g \in lamps : g = search => short[g] = row
    /\ WithdrawnDistinct

\* FindsPredecessor made inductive.  With true answers the address fixed so far is
\* below every lamp, or is 0, and a lamp is at most one step of the previous
\* nibble above it; each search of a nibble knows one value without an answer
\* and one with.
Reached(address) == \E g \in active : g <= address
Reaches(n) == Reached(search + n * weight)

Bracketed ==
    /\ nibble \in 0 .. 5
    /\ search \in Nat
    /\ active # {}
    /\ search = 0 \/ ~Reached(search)
    /\ Reaches(16)

\* The value asked now and, going up, the last one that had no answer,
UpInv ==
    \/ count = 3 /\ ek = 8 /\ ~Reaches(8)
    \/ count = 2 /\ ek = 12 /\ ~Reaches(8)
    \/ count = 1 /\ ek = 14 /\ ~Reaches(12)
    \/ count = 0 /\ ek = 15 /\ ~Reaches(14)

UpScanInv ==
    /\ ek \in 8 .. 15
    /\ Reaches(ek + 1)
    /\ limit \in Int
    /\ \E n \in 8 .. ek : limit < n /\ ~Reaches(n)

\* going down, the last one that had one.
DownInv ==
    \/ count = 3 /\ ek = 8 /\ Reaches(8)
    \/ count = 2 /\ ek = 4 /\ Reaches(8)
    \/ count = 1 /\ ek = 2 /\ Reaches(4)
    \/ count = 0 /\ ek = 1 /\ Reaches(2)

DownScanInv ==
    /\ limit \in 2 .. 8
    /\ ek \in 1 .. limit
    /\ Reaches(limit)
    /\ step \in Nat
    /\ ~Reaches(IF step = 0 THEN ek ELSE ek - 1)

NibbleInv ==
    /\ pc \in {"first", "up", "upscan", "down", "downscan"} => Bracketed
    /\ pc = "first" => first = 8
    /\ pc = "up" => UpInv
    /\ pc = "upscan" => UpScanInv
    /\ pc = "down" => DownInv
    /\ pc = "downscan" => DownScanInv

SearchInv ==
    /\ noise \in Nat
    /\ active \subseteq Address
    /\ noise = 0 => NibbleInv /\ FindsPredecessor

\* RowsOfLamps made inductive: the lamp that is given an address is the smallest
\* one, and SonrakiniATA starts from below all those left.
RowsInv ==
    /\ RowsOfLamps
    /\ (noise = 0 /\ 0 \notin lamps) =>
          /\ taken \subseteq used
          /\ pc \in {"program", "verify"} =>
                /\ search \in active /\ row = FreeRow
                /\ \A g \in active : search <= g
          /\ pc = "next" => search \in Nat /\ \A g \in active : search < g
=============================================================================
