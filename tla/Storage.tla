------------------------------ MODULE Storage ------------------------------
(***************************************************************************)
(* The files of the controller (comp/storage.cpp).  A disk maps a file to  *)
(* Missing or to the sequence of its records; a record of the code with    *)
(* number i is element i + 1.  One call is one step: a call that a power   *)
(* cut interrupts has happened or has not.                                 *)
(***************************************************************************)
EXTENDS Naturals, Sequences

CONSTANT Missing

FileSearch(disk, f) == disk[f] # Missing

\* Faulty: the file is opened with "w" whether it exists or not.
FileControlAlways(disk, f) == [disk EXCEPT ![f] = <<>>]

\* file_control creates an absent file, without records.
FileControl(disk, f) == IF FileSearch(disk, f) THEN disk ELSE [disk EXCEPT ![f] = <<>>]

\* file_empty truncates a file that exists.
FileEmpty(disk, f) == IF FileSearch(disk, f) THEN [disk EXCEPT ![f] = <<>>] ELSE disk

\* What write_file may leave.  "r+" does not create the file.  A record beyond
\* the end of a short file is lost, or lands at the end: the seek has failed.
WriteFile(disk, f, n, rec) ==
    IF ~FileSearch(disk, f) THEN {disk}
    ELSE IF n <= Len(disk[f]) THEN {[disk EXCEPT ![f][n] = rec]}
    ELSE {[disk EXCEPT ![f] = Append(@, rec)]} \cup (IF n = Len(disk[f]) + 1 THEN {} ELSE {disk})

\* read_file leaves what the caller had where there is nothing to read.
ReadFile(disk, f, n, old) ==
    IF FileSearch(disk, f) /\ n <= Len(disk[f]) THEN disk[f][n] ELSE old
=============================================================================
