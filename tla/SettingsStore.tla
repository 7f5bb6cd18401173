--------------------------- MODULE SettingsStore ---------------------------
(***************************************************************************)
(* What the settings page promises, without files, copies and boots: the   *)
(* settings change only while a form is being saved and only to what the   *)
(* form says, one part after the other; the answer "The configuration is   *)
(* saved" is given when all of them have changed.  A restart may cut a     *)
(* save short, and then the form is forgotten.                             *)
(***************************************************************************)
CONSTANTS
    Parts,    \* the parts that are saved one by one
    Forms,
    Part,     \* by part and form: what the form asks for
    Default,  \* the settings of a new device, by part
    NoForm

VARIABLES
    settings, \* the settings the device will start with
    form,     \* the form being saved, or NoForm
    answered  \* the last form that was answered, or NoForm

Init ==
    /\ settings = Default
    /\ form = NoForm
    /\ answered = NoForm

Submit(f) ==
    /\ form = NoForm
    /\ form' = f
    /\ UNCHANGED <<settings, answered>>

Save(p) ==
    /\ form # NoForm
    /\ settings' = [settings EXCEPT ![p] = Part[p][form]]
    /\ UNCHANGED <<form, answered>>

Answer ==
    /\ form # NoForm
    /\ \A p \in Parts : settings[p] = Part[p][form]
    /\ form' = NoForm
    /\ answered' = form
    /\ UNCHANGED settings

CutShort ==
    /\ form' = NoForm
    /\ UNCHANGED <<settings, answered>>

Next == (\E f \in Forms : Submit(f)) \/ (\E p \in Parts : Save(p)) \/ Answer \/ CutShort

Spec == Init /\ [][Next]_<<settings, form, answered>>
=============================================================================
