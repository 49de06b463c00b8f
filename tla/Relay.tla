------------------------------- MODULE Relay -------------------------------
(***************************************************************************)
(* The relay the heat pump's SG-Ready contact hangs on: a Shelly Gen2      *)
(* switch, modelled from how relays/shelly.py drives it.  Switch.Set with  *)
(* toggle_after arms a hardware timer that opens the relay by itself       *)
(* unless another Switch.Set comes first.  Others can switch it too (the   *)
(* Shelly app, SMA/ennexOS dual control), without a timer.                 *)
(***************************************************************************)
EXTENDS Integers

CONSTANTS
    AutoOff,    \* AUTOOFF_S, in ticks
    HeldCap     \* bound: how long a position of the relay is remembered

ASSUME RelayAssumption == AutoOff \in Nat \ {0} /\ HeldCap \in Nat

VARIABLES
    out,    \* is the contact closed?
    timer,  \* ticks until the hardware auto-off opens it, 0 when not armed
    hand,   \* history: closed by somebody else than the controller
    held    \* history: ticks since the contact last moved, up to HeldCap

relayVars == <<out, timer, hand, held>>

RelayTypeOK ==
    /\ out \in BOOLEAN /\ hand \in BOOLEAN
    /\ timer \in 0..AutoOff
    /\ held \in 0..HeldCap

\* Open, and so for long.
RelayInit == out = FALSE /\ timer = 0 /\ hand = FALSE /\ held = HeldCap

Moves(on) == held' = IF on = out THEN held ELSE 0

\* Switch.Set reaches the device; build_set_url adds toggle_after to an ON.
AppliedUnarmed(on) ==
    /\ out' = on /\ timer' = 0 /\ hand' = FALSE
    /\ Moves(on)

Applied(on) ==
    /\ out' = on /\ timer' = (IF on THEN AutoOff ELSE 0) /\ hand' = FALSE
    /\ Moves(on)

\* Somebody else switches it: no timer runs afterwards.
Flipped(on) ==
    /\ out' = on /\ timer' = 0 /\ hand' = on
    /\ Moves(on)

\* A tick passes for the device; an armed timer that runs out opens it.
Expires == timer = 1

DeviceTick ==
    /\ out' = (out /\ ~Expires)
    /\ timer' = (IF timer > 0 THEN timer - 1 ELSE 0)
    /\ hand' = hand
    /\ held' = IF out /\ Expires THEN 0
               ELSE IF held < HeldCap THEN held + 1 ELSE HeldCap

=============================================================================
