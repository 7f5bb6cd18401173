----------------------------- MODULE MCDaliLink -----------------------------
(* One task on the line, up to three calls of all kinds, a supply that     *)
(* fails and comes back.                                                   *)
EXTENDS DaliLink

AllOps == {"send", "query", "ask"}
=============================================================================
