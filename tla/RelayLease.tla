---------------------------- MODULE RelayLease ----------------------------
(***************************************************************************)
(* What the controller promises about the heat pump's relay, with nothing  *)
(* of how it decides.  A closed relay is a lease: it runs out by itself    *)
(* after AutoOff ticks unless it is renewed, and the controller may close  *)
(* or renew it only                                                        *)
(*   - on evidence: every fresh measurement is worth at most Grace         *)
(*     commands, and a process that just started has Grace - 1 of them;    *)
(*   - or under the operator's manual override.                            *)
(* Hence a controller that is dead, cut off or blind lets go of the heat   *)
(* pump after at most Grace lease periods.  Others may flip the relay.     *)
(***************************************************************************)
EXTENDS Integers

CONSTANTS AutoOff, Grace

VARIABLES
    out,      \* the relay is closed
    timer,    \* what is left of the lease
    hand,     \* closed by somebody else, without a lease
    credit,   \* commands the controller's evidence still pays for
    override  \* the operator asks for ON

vars == <<out, timer, hand, credit, override>>

Init ==
    /\ out = FALSE /\ timer = 0 /\ hand = FALSE
    /\ credit = 0 /\ override = FALSE

\* A cycle looks at the settings, and perhaps at a fresh measurement.
Review ==
    /\ override' \in BOOLEAN
    /\ credit' \in {credit, Grace}
    /\ UNCHANGED <<out, timer, hand>>

\* A process starts: nothing it has not seen itself counts as evidence.
Start ==
    /\ credit' = Grace - 1 /\ override' = FALSE
    /\ UNCHANGED <<out, timer, hand>>

\* Close the relay, or renew the lease of a closed one.
Energise ==
    /\ \/ credit > 0 /\ credit' = credit - 1
       \/ override /\ UNCHANGED credit
    /\ out' = TRUE /\ timer' = AutoOff /\ hand' = FALSE
    /\ UNCHANGED override

Release ==
    /\ out' = FALSE /\ timer' = 0 /\ hand' = FALSE
    /\ UNCHANGED <<credit, override>>

Elapse ==
    /\ timer > 0
    /\ timer' = timer - 1
    /\ out' = (timer > 1)
    /\ UNCHANGED <<hand, credit, override>>

Flip ==
    /\ \E on \in BOOLEAN : out' = on /\ hand' = on
    /\ timer' = 0
    /\ UNCHANGED <<credit, override>>

Next == Review \/ Start \/ Energise \/ Release \/ Elapse \/ Flip

Spec == Init /\ [][Next]_vars

=============================================================================
