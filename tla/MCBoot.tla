------------------------------- MODULE MCBoot -------------------------------
(* The two tables that requests write, of two rows each; forms for either
   link, and without the servers. *)
EXTENDS Boot

MCTables == <<"GEAR_FILE", "ZAMAN_FILE">>
MCForms == {[wan_type |-> 1, http |-> 1, tcp |-> 0, value |-> "new"],
            [wan_type |-> 2, http |-> 0, tcp |-> 1, value |-> "default"]}
=============================================================================
