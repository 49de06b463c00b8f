---------------------------- MODULE Controller ----------------------------
(***************************************************************************)
(* The surplus-controller process (main.py): run_cycle split at the points *)
(* where it waits for others, main()'s start-up and the loop around it,    *)
(* together with what it acts on: the relay (Relay), the exporter's poll   *)
(* of the relay, the control_config row and the decision_log.              *)
(*                                                                         *)
(* Time is counted in ticks, each longer than SHELLY_POLL_S.  A cycle      *)
(* takes up to Busy ticks after its reading (the timeouts of its network   *)
(* calls), and main() sleeps Loop ticks between cycles.                    *)
(***************************************************************************)
EXTENDS Statemachine, Relay

CONSTANTS
    Loop,      \* LOOP_S, in ticks
    Busy,      \* bound on a cycle's own duration, in ticks
    Rows,      \* the settings control_config may hold
    Readings,  \* the readings a cycle may get
    Faults     \* which faults may happen, a subset of AllFaults

AllFaults == {"db",      \* TimescaleDB: connect, SELECT or INSERT fails
              "relay",   \* relay.set: lost, or applied and its answer lost
              "poll",    \* the exporter's relay poll fails or lags
              "hand",    \* somebody else switches the relay
              "ui",      \* the settings change while the loop runs
              "crash"}   \* the process dies and is started again

ASSUME ControllerAssumption ==
    /\ Loop \in Nat \ {0} /\ Busy \in Nat
    /\ Rows \subseteq Settings /\ Rows # {}
    /\ Readings \subseteq AllReadings
    /\ Faults \subseteq AllFaults
    /\ HeldCap >= MinRun /\ HeldCap >= MinOff

VARIABLES
    pc,           \* "down"; "sleep" between cycles; within a cycle "act",
                  \* with a decision to carry out, then "log" it
    left,         \* ticks left of the sleep, or of what the cycle may take
    cfg,          \* cs.last_cfg
    relayOn,      \* cs.relay_on
    onStreak, offStreak, staleStreak,
    sinceOn,      \* now - cs.last_on, saturating at MinRun
    sinceOff,     \* now - cs.last_off, saturating at MinOff
    decision,     \* what decide returned, until it is carried out and logged
    row,          \* the control_config row
    logOn,        \* ticks since decision_log's last switched_on, as sinceOn
    logOff,       \* ticks since its last switched_off, as sinceOff
    view,         \* the relay as the exporter's /state shows it
    lastLogged,   \* history: target of the last switch row of decision_log
    unlogged,     \* history: decision_log missed a switch since that row
    credit        \* history: ON commands the last fresh reading still pays for

loopVars   == <<cfg, relayOn, onStreak, offStreak, staleStreak>>
ageVars    == <<sinceOn, sinceOff>>
logVars    == <<logOn, logOff, lastLogged, unlogged>>
vars == <<relayVars, pc, left, loopVars, ageVars, decision, row, logVars,
          view, credit>>

Nothing == Steer(FALSE, FALSE, "paused")   \* no decision is pending
Paused  == [mode |-> "paused", manualOn |-> FALSE]   \* clamp_config(DEFAULTS)

Shown(on) == IF on THEN "on" ELSE "off"
Views == {"on", "off", "unreachable"}

TypeOK ==
    /\ RelayTypeOK
    /\ pc \in {"down", "sleep", "act", "log"}
    /\ left \in 0..(IF pc = "sleep" THEN Loop ELSE Busy)
    /\ cfg \in Rows \union {Paused} /\ row \in Rows
    /\ relayOn \in BOOLEAN
    /\ onStreak \in 0..OnDelay /\ offStreak \in 0..OffDelay
    /\ staleStreak \in 0..Grace
    /\ sinceOn \in 0..MinRun /\ sinceOff \in 0..MinOff
    /\ logOn \in 0..MinRun /\ logOff \in 0..MinOff
    /\ decision \in Decisions
    /\ view \in Views
    /\ lastLogged \in BOOLEAN /\ unlogged \in BOOLEAN
    /\ credit \in 0..Grace

\* The system is installed: the process is not running yet, the relay is
\* open, decision_log is empty (STARTUP_LONG_AGO_S).
Init ==
    /\ RelayInit
    /\ pc = "down" /\ left = 0
    /\ cfg = Paused /\ relayOn = FALSE
    /\ onStreak = 0 /\ offStreak = 0 /\ staleStreak = 0
    /\ sinceOn = MinRun /\ sinceOff = MinOff
    /\ decision = Nothing
    /\ row \in Rows
    /\ logOn = MinRun /\ logOff = MinOff
    /\ view = "unreachable"
    /\ lastLogged = FALSE /\ unlogged = FALSE
    /\ credit = 0

-----------------------------------------------------------------------------
(* decision_log.  A row is written or, when the database fails, lost; the  *)
(* loop carries on either way.                                             *)

Logged(on) ==
    /\ logOn' = IF on THEN 0 ELSE logOn
    /\ logOff' = IF on THEN logOff ELSE 0
    /\ lastLogged' = on
    /\ unlogged' = FALSE

NotLogged ==
    /\ unlogged' = TRUE
    /\ UNCHANGED <<logOn, logOff, lastLogged>>

WriteSwitch(on) ==
    \/ Logged(on)
    \/ "db" \in Faults /\ NotLogged

-----------------------------------------------------------------------------
(* main(): the start of the process, and its sleep between two cycles.     *)

\* The relay's own state seeds relay_on (get_state is None, so False, when
\* the relay does not answer); decision_log seeds the ages of the last
\* switches.  A database that is down ends the start (_db_connect raises):
\* the process stays down and is started again.
SeededRelay == {out} \union (IF "relay" \in Faults THEN {FALSE} ELSE {})

Start ==
    /\ pc = "down"
    /\ pc' = "sleep" /\ left' = 0      \* the first cycle runs at once
    /\ relayOn' \in SeededRelay
    /\ onStreak' = 0 /\ offStreak' = 0 /\ staleStreak' = 0
    /\ \/ sinceOn' = logOn /\ sinceOff' = logOff
       \/ "db" \in Faults /\ sinceOn' = MinRun /\ sinceOff' = MinOff
    /\ cfg' = Paused
    /\ decision' = Nothing
    /\ unlogged' = (relayOn' # lastLogged)
    /\ credit' = Grace - 1
    /\ UNCHANGED <<relayVars, row, logOn, logOff, lastLogged, view>>

\* The process dies at any point, a switch it has not logged yet with it.
Crash ==
    /\ "crash" \in Faults /\ pc # "down"
    /\ pc' = "down" /\ left' = 0
    /\ decision' = Nothing
    /\ UNCHANGED <<relayVars, loopVars, ageVars, row, logVars, view, credit>>

\* The end of a cycle: beat, then sleep.
Sleep == pc' = "sleep" /\ left' = Loop

\* live_conn raises: the whole cycle is skipped, nothing is read, decided or
\* re-armed.
SkipCycle ==
    /\ pc = "sleep" /\ left = 0
    /\ "db" \in Faults
    /\ Sleep
    /\ UNCHANGED <<relayVars, loopVars, ageVars, decision, row, logVars, view,
                   credit>>

-----------------------------------------------------------------------------
(* run_cycle up to its decision: settings, reading, grace, reconcile,      *)
(* streaks, decide.                                                        *)

\* load_config, or the last good settings when it fails.
LoadedSettings == {row} \union (IF "db" \in Faults THEN {cfg} ELSE {})

ExternalAlways(reading) == reading # "blind" /\ view # "unreachable"

\* The relay is not where the controller believes it to be.
ExternalChange(reading) ==
    reading # "blind" /\ view # "unreachable" /\ view # Shown(relayOn)

ReconcileSilently(reading) ==
    /\ relayOn' = IF ExternalChange(reading) THEN view = "on" ELSE relayOn
    /\ sinceOn' = IF relayOn' /\ ~relayOn THEN 0 ELSE sinceOn
    /\ sinceOff' = IF relayOn /\ ~relayOn' THEN 0 ELSE sinceOff
    /\ UNCHANGED logVars

\* Log the external change and take the relay's position over.
Reconcile(reading) ==
    IF ExternalChange(reading)
    THEN /\ relayOn' = (view = "on")
         /\ sinceOn' = IF relayOn' THEN 0 ELSE sinceOn
         /\ sinceOff' = IF relayOn' THEN sinceOff ELSE 0
         /\ WriteSwitch(relayOn')
    ELSE UNCHANGED <<relayOn, ageVars, logVars>>

Evaluate(settings, reading) ==
    /\ cfg' = settings
    /\ staleStreak' = StaleStreak(staleStreak, reading)
    /\ Reconcile(reading)
    /\ onStreak' = OnStreak(onStreak, reading)
    /\ offStreak' = OffStreak(offStreak, reading)
    /\ decision' = Decide(settings, relayOn', onStreak', offStreak', sinceOn',
                          sinceOff', FreshForDecide(reading, staleStreak'))
    /\ credit' = IF reading = "blind" THEN credit ELSE Grace

Cycle ==
    /\ pc = "sleep" /\ left = 0
    /\ \E settings \in LoadedSettings, reading \in Readings :
          Evaluate(settings, reading)
    /\ pc' = "act" /\ left' = Busy
    /\ UNCHANGED <<relayVars, row, view>>

-----------------------------------------------------------------------------
(* run_cycle from its decision on: relay.set, then the decision_log row.   *)

Spend(on) == credit' = IF on /\ cfg.mode = "auto" THEN credit - 1 ELSE credit

\* relay.set returns ok.  It returns False both when the command did not get
\* through and when only its answer was lost.
SetRelay(on, ok) ==
    \/ (ok \/ "relay" \in Faults) /\ Applied(on) /\ Spend(on)
    \/ ~ok /\ "relay" \in Faults /\ UNCHANGED <<relayVars, credit>>

AtMost(n, cap) == IF n < cap THEN n ELSE cap

\* The switch counts from the cycle's reading, not from the command.
SwitchedTo(on) ==
    /\ relayOn' = on
    /\ sinceOn' = IF on THEN AtMost(Busy - left, MinRun) ELSE sinceOn
    /\ sinceOff' = IF on THEN sinceOff ELSE AtMost(Busy - left, MinOff)

Switch ==
    /\ pc = "act" /\ decision.action # "no_change"
    /\ \E ok \in BOOLEAN :
          /\ SetRelay(decision.target, ok)
          /\ IF ok THEN SwitchedTo(decision.target) /\ UNCHANGED decision
             ELSE /\ decision' = [decision EXCEPT !.action = "no_change",
                                                  !.reason = "shelly_write_failed"]
                  /\ UNCHANGED <<relayOn, ageVars>>
    /\ pc' = "log"
    /\ UNCHANGED <<left, cfg, onStreak, offStreak, staleStreak, row, logVars, view>>

RearmOnSurplusOnly ==
    /\ pc = "act" /\ decision.action = "no_change" /\ relayOn
    /\ IF decision.reason = "surplus_ok" THEN SetRelay(TRUE, TRUE)
       ELSE UNCHANGED <<relayVars, credit>>
    /\ Sleep /\ decision' = Nothing
    /\ UNCHANGED <<loopVars, ageVars, row, logVars, view>>

\* Every cycle while ON renews the hardware auto-off; the answer is ignored.
Rearm ==
    /\ pc = "act" /\ decision.action = "no_change" /\ relayOn
    /\ \E ok \in BOOLEAN : SetRelay(TRUE, ok)
    /\ Sleep /\ decision' = Nothing
    /\ UNCHANGED <<loopVars, ageVars, row, logVars, view>>

StayOff ==
    /\ pc = "act" /\ decision.action = "no_change" /\ ~relayOn
    /\ Sleep /\ decision' = Nothing
    /\ UNCHANGED <<relayVars, loopVars, ageVars, row, logVars, view, credit>>

\* A failed switch is logged as "no_change", which last_switch_ages ignores.
LogDecision ==
    /\ pc = "log"
    /\ IF decision.action = "no_change" THEN UNCHANGED logVars
       ELSE WriteSwitch(decision.target)
    /\ Sleep /\ decision' = Nothing
    /\ UNCHANGED <<relayVars, loopVars, ageVars, row, view, credit>>

-----------------------------------------------------------------------------
(* What happens around the loop.                                           *)

\* The exporter polls the relay and serves the result as shelly_on; a poll
\* that fails turns shelly_reachable false.
PollRelay ==
    /\ view # Shown(out) /\ view' = Shown(out)
    /\ UNCHANGED <<relayVars, pc, left, loopVars, ageVars, decision, row, logVars, credit>>

PollFails ==
    /\ "poll" \in Faults /\ view # "unreachable" /\ view' = "unreachable"
    /\ UNCHANGED <<relayVars, pc, left, loopVars, ageVars, decision, row, logVars, credit>>

FlipByHand ==
    /\ "hand" \in Faults
    /\ \E on \in BOOLEAN : Flipped(on)
    /\ UNCHANGED <<pc, left, loopVars, ageVars, decision, row, logVars, view, credit>>

SaveSettings ==
    /\ "ui" \in Faults
    /\ row' \in Rows \ {row}
    /\ UNCHANGED <<relayVars, pc, left, loopVars, ageVars, decision, logVars, view, credit>>

\* A tick passes: in the process's sleep or within a cycle, as long as either
\* lasts, and at any time while the process is down.  The relay poll is
\* quicker than a tick unless it fails.
Tick ==
    /\ pc = "down" \/ left > 0
    /\ "poll" \in Faults \/ view = Shown(out)
    /\ DeviceTick
    /\ left' = IF pc = "down" THEN 0 ELSE left - 1
    /\ sinceOn' = Sat(sinceOn, MinRun) /\ sinceOff' = Sat(sinceOff, MinOff)
    /\ logOn' = Sat(logOn, MinRun) /\ logOff' = Sat(logOff, MinOff)
    /\ UNCHANGED <<pc, loopVars, decision, row, lastLogged, unlogged, view, credit>>

Next ==
    \/ Start \/ Crash
    \/ SkipCycle \/ Cycle \/ Switch \/ Rearm \/ StayOff \/ LogDecision
    \/ PollRelay \/ PollFails \/ FlipByHand \/ SaveSettings \/ Tick

Spec == Init /\ [][Next]_vars

\* The loop thread runs, the process is started again when it dies, the poll
\* runs, and time passes however often the process dies in between.
LoopStep == SkipCycle \/ Cycle \/ Switch \/ Rearm \/ StayOff \/ LogDecision

Fairness ==
    /\ WF_vars(Start) /\ WF_vars(LoopStep) /\ WF_vars(PollRelay)
    /\ SF_vars(Tick)

FairSpec == Spec /\ Fairness

-----------------------------------------------------------------------------
(* Properties                                                              *)

Lease == INSTANCE RelayLease WITH
             override <- cfg.mode = "manual" /\ cfg.manualOn

\* The relay is only ever closed on a lease that fresh measurements or the
\* operator's override pay for: whatever fails, and wherever the process
\* dies, a blind or dead controller lets go of the heat pump.
KeepsLease == Lease!Spec

\* A closed relay that nobody else closed has a running auto-off timer, so no
\* path of the loop leaves it closed for good; and the timer runs for a closed
\* relay only.
Armed == (out /\ ~hand => timer > 0) /\ (timer > 0 => out)

\* decision_log tells the truth: between switches its last switch row is
\* where the controller believes the relay to be, unless a row was lost; so
\* no two switched_on (or two switched_off) rows follow each other.
AuditInStep == pc \in {"sleep", "act"} /\ ~unlogged => lastLogged = relayOn

\* While the loop runs and wants the relay on, the watchdog never opens it.
HeldUp == pc # "down" /\ relayOn => out

\* AUTO never closes the contact before the compressor has rested
\* min_offtime_s, less the time a cycle may take after its reading: neither by
\* a decision to switch nor by a re-arm that finds the relay open.
CompressorRests ==
    [][~out /\ out' /\ cfg.mode = "auto" => held + Busy >= MinOff]_vars

\* A lack of surplus never opens the contact before min_runtime_s, less the
\* same slack.
CompressorRuns ==
    [][out /\ ~out' /\ decision.reason = "surplus_below_off_threshold"
         => held + Busy >= MinRun]_vars

\* A controller that stays blind in AUTO lets go of the relay for good, even
\* if no command reaches the relay any more.
BlindLetsGo ==
    <>[](staleStreak > 0 /\ cfg.mode = "auto" /\ pc # "down") => <>[]~out

\* Pausing takes effect: the loop loads the settings, and the relay opens for
\* good even if the process keeps dying or the relay does not answer.
PauseLetsGo == <>[](row.mode = "paused") => <>[]~out

\* Lasting surplus in AUTO is used: while commands to switch get through, the
\* relay closes again and again, whatever opens it.
SurplusIsUsed ==
    <>[](/\ onStreak = OnDelay /\ cfg.mode = "auto" /\ pc # "down"
         /\ decision.reason # "shelly_write_failed")
      => []<>out

=============================================================================
