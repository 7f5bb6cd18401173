------------------------------ MODULE MCRs485 ------------------------------
(* Three calls with messages of one, two and one packets, and a queue
   of one place: the message of a call that gave up keeps it. *)
EXTENDS Rs485

MCPackets == <<1, 2, 1>>
=============================================================================
