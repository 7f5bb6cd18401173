-------------------------- MODULE MCDeviceCommands --------------------------
(* Two values, one of them 0x71, next to 0 and 254; two commands and four faults. *)
EXTENDS DeviceCommands

MCVal == {113, 200}
=============================================================================
