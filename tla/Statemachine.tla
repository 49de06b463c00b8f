--------------------------- MODULE Statemachine ---------------------------
(***************************************************************************)
(* The controller's pure decision core: decide (statemachine.py) and the   *)
(* streak counting that decide_action (main.py) does before it.            *)
(*                                                                         *)
(* A reading is what one control cycle learns from /state.  It is "blind"  *)
(* when the measurement is missing or older than STALE_S; a fresh reading  *)
(* is classified by how the available surplus compares with the effective  *)
(* ON-threshold and with threshold_off_w ("crossed" is both above and      *)
(* below, which settings whose thresholds overlap allow: see Threshold).   *)
(*                                                                         *)
(* An operator that stands right before the one it resembles (here         *)
(* AutoIgnoringRuntime before AutoWhileOn) is a mutant: the same code with *)
(* a plausible mistake, which the properties must tell from the code.      *)
(***************************************************************************)
EXTENDS Integers

CONSTANTS
    OnDelay,    \* on_delay_cycles
    OffDelay,   \* off_delay_cycles
    MinRun,     \* min_runtime_s, in ticks
    MinOff,     \* min_offtime_s, in ticks
    Grace       \* STALE_GRACE_CYCLES

ASSUME DelaysAssumption ==
    /\ OnDelay \in Nat \ {0} /\ OffDelay \in Nat \ {0}   \* clamp_config: >= 1
    /\ MinRun \in Nat \ {0} /\ MinOff \in Nat \ {0}      \* clamp_config floors
    /\ Grace \in Nat \ {0}                               \* _pos_int

Modes == {"auto", "manual", "paused"}
Settings == [mode : Modes, manualOn : BOOLEAN]
AllReadings == {"blind", "above", "between", "below", "crossed"}

\* One more, up to the cap past which the code cannot tell the values apart.
Sat(n, cap) == IF n < cap THEN n + 1 ELSE cap

-----------------------------------------------------------------------------
(* Streaks (decide_action).  A blind reading breaks both; the comparisons  *)
(* with on_delay_cycles and off_delay_cycles let the counts saturate.       *)

OnStreak(streak, reading) ==
    IF reading \in {"above", "crossed"} THEN Sat(streak, OnDelay) ELSE 0

OffStreak(streak, reading) ==
    IF reading \in {"below", "crossed"} THEN Sat(streak, OffDelay) ELSE 0

\* run_cycle's grace: how many consecutive blind readings the cycle has seen,
\* and whether decide is told the state is fresh.
StaleStreak(streak, reading) ==
    IF reading = "blind" THEN Sat(streak, Grace) ELSE 0

FreshOneTooLong(reading, staleStreak) ==
    reading # "blind" \/ staleStreak <= Grace

FreshForDecide(reading, staleStreak) ==
    reading # "blind" \/ staleStreak < Grace

-----------------------------------------------------------------------------
Actions == {"switched_on", "switched_off", "no_change"}
Reasons == {"paused", "manual_hold", "manual", "state_stale_failsafe",
            "waiting_surplus", "waiting_min_offtime", "surplus_threshold_met",
            "surplus_ok", "min_runtime", "surplus_below_off_threshold",
            "shelly_write_failed"}
Decisions == [target : BOOLEAN, action : Actions, reason : Reasons]

\* Drive the relay to target: no action when it is believed there already.
Steer(relayOn, target, reason) ==
    [target |-> target,
     action |-> IF target = relayOn THEN "no_change"
                ELSE IF target THEN "switched_on" ELSE "switched_off",
     reason |-> reason]

Manual(relayOn, wanted) ==
    Steer(relayOn, wanted, IF wanted = relayOn THEN "manual_hold" ELSE "manual")

AutoIgnoringOfftime(onStreak, sinceOff) ==
    IF onStreak < OnDelay THEN Steer(FALSE, FALSE, "waiting_surplus")
    ELSE Steer(FALSE, TRUE, "surplus_threshold_met")

\* AUTO with the relay off: the surplus must have lasted on_delay_cycles, and
\* the minimum off-time must be over.
AutoWhileOff(onStreak, sinceOff) ==
    IF onStreak < OnDelay THEN Steer(FALSE, FALSE, "waiting_surplus")
    ELSE IF sinceOff < MinOff THEN Steer(FALSE, FALSE, "waiting_min_offtime")
    ELSE Steer(FALSE, TRUE, "surplus_threshold_met")

AutoIgnoringRuntime(offStreak, sinceOn) ==
    IF offStreak < OffDelay THEN Steer(TRUE, TRUE, "surplus_ok")
    ELSE Steer(TRUE, FALSE, "surplus_below_off_threshold")

\* AUTO with the relay on: a lasting deficit releases it once the minimum
\* runtime is over.
AutoWhileOn(offStreak, sinceOn) ==
    IF offStreak < OffDelay THEN Steer(TRUE, TRUE, "surplus_ok")
    ELSE IF sinceOn < MinRun THEN Steer(TRUE, TRUE, "min_runtime")
    ELSE Steer(TRUE, FALSE, "surplus_below_off_threshold")

DecidePausedHolds(cfg, relayOn, onStreak, offStreak, sinceOn, sinceOff, fresh) ==
    IF cfg.mode = "paused" THEN Steer(relayOn, relayOn, "paused")
    ELSE IF relayOn THEN AutoWhileOn(offStreak, sinceOn)
    ELSE AutoWhileOff(onStreak, sinceOff)

Decide(cfg, relayOn, onStreak, offStreak, sinceOn, sinceOff, fresh) ==
    IF cfg.mode = "paused" THEN Steer(relayOn, FALSE, "paused")
    ELSE IF cfg.mode = "manual" THEN Manual(relayOn, cfg.manualOn)
    ELSE IF ~fresh THEN Steer(relayOn, FALSE, "state_stale_failsafe")
    ELSE IF relayOn THEN AutoWhileOn(offStreak, sinceOn)
    ELSE AutoWhileOff(onStreak, sinceOff)

=============================================================================
