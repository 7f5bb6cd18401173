---------------------------- MODULE MCCommission ----------------------------
(* Random addresses at the edges of the search: the ends of the range,     *)
(* nibble and byte borders, five in a row, one more than SonrakiniATA      *)
(* follows, and some that end in 00.  The lamps of a line have no short    *)
(* address yet, all the same, or one each in an order of their own.  Any   *)
(* four lamps with true answers; any two of some with two wrong answers to *)
(* COMPARE and four to VERIFY.                                             *)
EXTENDS Commission

MCRow == 0 .. 6

MCDraw == {0, 1, 2, 16, 18, 255, 256, 257, 511, 527, 8388609, 16777215,
           1193046, 1193047, 1193048, 1193049, 1193050}

Rank(s, g) == Cardinality({k \in s : k < g})

LinesOf(s) == {[g \in s |-> None], [g \in s |-> 1], [g \in s |-> (3 + 3 * Rank(s, g)) % 4]}

MCQuietLamps ==
    {s \in SUBSET (MCDraw \ {16, 18, 511, 527}) : Cardinality(s) \in {0, 1, 3}}
       \cup {s \in SUBSET {1, 255, 256, 8388609, 1193046, 1193047} : Cardinality(s) = 4}
       \cup {{1193046, 1193047, 1193048, 1193049, 1193050}}
MCNoisyLamps == {{16, 18}, {1, 511}, {511, 527}, {255, 256}}
MCLines == UNION {LinesOf(s) : s \in MCQuietLamps \cup MCNoisyLamps}
MCFiles == {{}, {0}}
MCMaxNoise(l) == IF DOMAIN l \in MCNoisyLamps THEN 2 ELSE 0
MCMaxUnheard(l) == IF DOMAIN l \in {{16, 18}, {1}, {1, 2, 255}} THEN 4 ELSE 0
=============================================================================
