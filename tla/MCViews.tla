------------------------------ MODULE MCViews ------------------------------
(***************************************************************************)
(* Instances of Views for TLC.                                             *)
(***************************************************************************)
EXTENDS Views

AnySetting == {NULL, 0, 2, 181}
SomeShade == {-6, 36}

=============================================================================
