-------------------------- MODULE MCMdnsResponder --------------------------
(* Two controllers with the same settings on one network. *)
EXTENDS MdnsResponder
MCDevices == {1, 2}
=============================================================================
