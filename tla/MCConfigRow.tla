---------------------------- MODULE MCConfigRow ----------------------------
(***************************************************************************)
(* Instances of ConfigRow for TLC.  The numbers keep the order of the real *)
(* ones: the floor of the run times is 2 minutes of 2, 3 is the largest    *)
(* threshold the form accepts.                                             *)
(***************************************************************************)
EXTENDS ConfigRow

Defaults == [mode |-> "paused", adapt |-> TRUE, base |-> 3, min |-> 2, off |-> 0,
             ref |-> 2, nominal |-> 2, run |-> 6]

PageDefaults == [base |-> 3, min |-> 2, off |-> 0, ref |-> 1, nominal |-> 2,
                 run |-> 6, adapt |-> TRUE]

Numbers == [base |-> {2, Bad, NaN}, min |-> {1}, run |-> {5}]

WholeMinutes == [base |-> {2}, min |-> {1}, adapt |-> BOOLEAN]

\* Rows that only SQL can leave behind: out of bounds, out of order, or NaN (no
\* NULL: init.sql forbids it).
Edited(base, min, off) ==
    [mode |-> "boost", adapt |-> FALSE, base |-> base, min |-> min, off |-> off,
     ref |-> 0, nominal |-> 9, run |-> 1]
BadRows == {Edited(-1, 1, 2), Edited(3, 5, 4), Edited(3, 1, 1), Edited(2, 0, 0),
            Edited(NaN, -1, 9)}

NoRows == {}

=============================================================================
