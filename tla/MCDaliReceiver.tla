--------------------------- MODULE MCDaliReceiver ---------------------------
(* Frames of 8, 16 and 24 bits, sender clocks 25% slow to 25% fast, the    *)
(* interrupt on from the start or from some tick of a frame; two and three *)
(* answers, within Spread of each other and further apart.                 *)
EXTENDS DaliReceiver

Bits(n, len) == [i \in 1 .. len |-> (n \div 2 ^ (len - i)) % 2]

\* Every answer of a high nibble and some others, and some commands.
MCFrame == {Bits(n, 8) : n \in 0 .. 15 \cup {16 * k : k \in 0 .. 15}
                             \cup {255, 85, 170, 240, 129, 126}}
      \cup {Bits(n, 16) : n \in {0, 65535, 43690, 21845, 65024, 511, 33153, 255}}
      \cup {Bits(n, 24) : n \in {0, 16777215, 5592405, 11206656}}
\* Answers for collisions.
MCAnswer == {Bits(n, 8) : n \in {0, 255, 85, 240}}
MCHalfBit == 3 .. 5
MCStart == {1, 2, 3, 4, 5, 7, 9, 16, 33, 36, 37, 41, 57}
MCEnabled == {0, 4, 5, 8, 9, 14, 17, 21, 26, 31, 40, 53}

MCSingle == {[frames |-> {[bits |-> b, start |-> 1, half |-> h]}, enabled |-> e] :
                b \in MCFrame, h \in MCHalfBit, e \in MCEnabled}
MCPair == {[frames |-> {[bits |-> b, start |-> 1, half |-> h],
                        [bits |-> c, start |-> t, half |-> k]}, enabled |-> 0] :
                b \in MCAnswer, c \in MCAnswer, h \in MCHalfBit, k \in MCHalfBit,
                t \in MCStart}
MCYesNo == {Bits(n, 8) : n \in {0, 255}}
MCTriple == {[frames |-> {[bits |-> b, start |-> 1, half |-> h],
                          [bits |-> c, start |-> t, half |-> k],
                          [bits |-> d, start |-> u, half |-> l]}, enabled |-> 0] :
                b \in MCYesNo, c \in MCYesNo, d \in MCYesNo, h \in MCHalfBit,
                k \in MCHalfBit, l \in MCHalfBit, t \in {2, 6, 9, 12}, u \in {4, 11, 13, 14}}
MCScene == MCSingle \cup MCPair \cup MCTriple
MCQuiet == {100}
=============================================================================
