--------------------------- MODULE MCController ---------------------------
(***************************************************************************)
(* Instances of Controller for TLC.                                        *)
(***************************************************************************)
EXTENDS Controller

AutoRow   == [mode |-> "auto", manualOn |-> FALSE]
ManualOn  == [mode |-> "manual", manualOn |-> TRUE]
ManualOff == [mode |-> "manual", manualOn |-> FALSE]

AutoOnly == {AutoRow}
AnyRow   == {AutoRow, ManualOn, ManualOff, Paused}
AutoOrOn == {AutoRow, ManualOn}
AutoOrPaused == {AutoRow, Paused}

Settled == {"ui"}
Unruly == {"ui", "relay", "crash"}
Database == {"db"}
NoFault == {}

=============================================================================
