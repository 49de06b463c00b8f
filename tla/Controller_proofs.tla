------------------------ MODULE Controller_proofs ------------------------
(***************************************************************************)
(* Theorems about Controller, for all values of its constants: with every  *)
(* fault, when nothing fails but the readings, and, in Health, when the    *)
(* loop hangs at any of its calls and is restarted by its liveness probe.  *)
(***************************************************************************)
EXTENDS Health, TLAPS

USE DelaysAssumption, RelayAssumption, ControllerAssumption

-----------------------------------------------------------------------------
(* The decision core.                                                      *)

\* decide proposes an action exactly when the target differs from where the
\* relay is believed to be.
LEMMA SteerFacts ==
    ASSUME NEW on \in BOOLEAN, NEW target \in BOOLEAN, NEW reason \in Reasons
    PROVE  /\ Steer(on, target, reason) \in Decisions
           /\ Steer(on, target, reason).target = target
           /\ Steer(on, target, reason).action = "no_change" <=> target = on
  BY DEF Steer, Decisions, Actions

\* What decide may ask for: never ON while paused, in manual mode what the
\* operator asks, and in AUTO never ON without a state it is told is fresh.
Sound(c, on, fresh, d) ==
    /\ d \in Decisions
    /\ d.action = "no_change" <=> d.target = on
    /\ c.mode = "paused" => ~d.target
    /\ c.mode = "manual" => d.target = c.manualOn
    /\ c.mode = "auto" /\ ~fresh => ~d.target

LEMMA DecideFacts ==
    ASSUME NEW c \in Settings, NEW on \in BOOLEAN, NEW fresh \in BOOLEAN,
           NEW os \in Nat, NEW fs \in Nat, NEW so \in Nat, NEW sf \in Nat
    PROVE  Sound(c, on, fresh, Decide(c, on, os, fs, so, sf, fresh))
<1> DEFINE d == Decide(c, on, os, fs, so, sf, fresh)
<1>0. c.mode \in Modes /\ c.manualOn \in BOOLEAN
  BY DEF Settings
<1>1. CASE c.mode = "paused"
  <2>1. d = Steer(on, FALSE, "paused") /\ "paused" \in Reasons
    BY <1>1 DEF Decide, Reasons
  <2>2. d \in Decisions /\ d.target = FALSE /\ (d.action = "no_change" <=> FALSE = on)
    BY <2>1, SteerFacts
  <2> QED
    BY <1>1, <2>2 DEF Sound
<1>2. CASE c.mode = "manual"
  <2> DEFINE why == IF c.manualOn = on THEN "manual_hold" ELSE "manual"
  <2>1. d = Steer(on, c.manualOn, why) /\ why \in Reasons
    BY <1>2 DEF Decide, Manual, Reasons
  <2>2. d \in Decisions /\ d.target = c.manualOn
        /\ (d.action = "no_change" <=> c.manualOn = on)
    BY <1>0, <2>1, SteerFacts
  <2> QED
    BY <1>2, <2>2 DEF Sound
<1>3. CASE c.mode = "auto" /\ ~fresh
  <2>1. d = Steer(on, FALSE, "state_stale_failsafe") /\ "state_stale_failsafe" \in Reasons
    BY <1>3 DEF Decide, Reasons
  <2>2. d \in Decisions /\ d.target = FALSE /\ (d.action = "no_change" <=> FALSE = on)
    BY <2>1, SteerFacts
  <2> QED
    BY <1>3, <2>2 DEF Sound
<1>4. CASE c.mode = "auto" /\ fresh
  <2>1. \E target \in BOOLEAN, reason \in Reasons : d = Steer(on, target, reason)
    <3>1. CASE on
      <4>1. d = AutoWhileOn(fs, so)
        BY <1>4, <3>1 DEF Decide
      <4> QED
        BY <3>1, <4>1 DEF AutoWhileOn, Reasons
    <3>2. CASE ~on
      <4>1. d = AutoWhileOff(os, sf)
        BY <1>4, <3>2 DEF Decide
      <4> QED
        BY <3>2, <4>1 DEF AutoWhileOff, Reasons
    <3> QED
      BY <3>1, <3>2
  <2>2. PICK target \in BOOLEAN, reason \in Reasons : d = Steer(on, target, reason)
    BY <2>1
  <2>3. d \in Decisions /\ d.target = target /\ (d.action = "no_change" <=> target = on)
    BY <2>2, SteerFacts
  <2> QED
    BY <1>4, <2>3 DEF Sound
<1> QED
  BY <1>0, <1>1, <1>2, <1>3, <1>4 DEF Modes

\* The saturating counters stay within their caps.
LEMMA SatFacts ==
    ASSUME NEW cap \in Nat, NEW n \in 0..cap
    PROVE  Sat(n, cap) \in 0..cap /\ (n < cap => Sat(n, cap) = n + 1)
  BY DEF Sat

LEMMA StreakFacts ==
    ASSUME NEW reading \in AllReadings, NEW n \in 0..OnDelay, NEW m \in 0..OffDelay,
           NEW s \in 0..Grace
    PROVE  /\ OnStreak(n, reading) \in 0..OnDelay
           /\ OffStreak(m, reading) \in 0..OffDelay
           /\ StaleStreak(s, reading) \in 0..Grace
           /\ FreshForDecide(reading, StaleStreak(s, reading)) \in BOOLEAN
  BY SatFacts DEF OnStreak, OffStreak, StaleStreak, FreshForDecide

-----------------------------------------------------------------------------
(* The inductive invariant.                                                *)

\* While the process lives, what is left of the last fresh reading's credit
\* covers the blind cycles the grace still allows; and the pending decision
\* is one that decide may return for this cycle's settings and reading.
Evidence ==
    /\ pc = "act" => credit + staleStreak >= Grace
    /\ pc \in {"sleep", "log"} => credit + staleStreak + 1 >= Grace
    /\ pc = "act" => Sound(cfg, relayOn, staleStreak < Grace, decision)

\* AuditInStep, carried through the step in which a switch awaits its row.
Audit ==
    /\ pc \in {"sleep", "act"} \/ (pc = "log" /\ decision.action = "no_change")
         => (~unlogged => lastLogged = relayOn)
    /\ pc = "log" /\ decision.action # "no_change" => relayOn = decision.target

IInv == TypeOK /\ Armed /\ Evidence /\ Audit

LEMMA SettingsFacts == Rows \union {Paused} \subseteq Settings /\ Paused \in Settings
<1>1. Paused \in Settings
  BY DEF Settings, Modes, Paused
<1> QED
  BY <1>1

LEMMA NothingFacts == Nothing \in Decisions
  BY SteerFacts DEF Nothing, Reasons

LEMMA InitIInv == Init => IInv
<1> SUFFICES ASSUME Init PROVE IInv
  OBVIOUS
<1>1. TypeOK
  <2>1. RelayTypeOK
    <3>1. out \in BOOLEAN /\ hand \in BOOLEAN /\ timer = 0 /\ held = HeldCap
      BY Zenon DEF Init, RelayInit
    <3> QED
      BY <3>1 DEF RelayTypeOK
  <2>2. cfg \in Rows \union {Paused} /\ row \in Rows /\ decision \in Decisions
    BY NothingFacts, Zenon DEF Init
  <2>3. relayOn \in BOOLEAN /\ lastLogged \in BOOLEAN /\ unlogged \in BOOLEAN
    BY Zenon DEF Init
  <2> QED
    BY <2>1, <2>2, <2>3 DEF Init, TypeOK, Views
<1>2. Armed /\ Evidence
  BY DEF Init, RelayInit, Armed, Evidence
<1>3. Audit
  BY Zenon DEF Init, Audit
<1> QED
  BY <1>1, <1>2, <1>3 DEF IInv

LEMMA StartIInv == IInv /\ Start => IInv'
<1> SUFFICES ASSUME IInv, Start PROVE IInv'
  OBVIOUS
<1>1. TypeOK'
  <2>1. relayOn' \in BOOLEAN
    BY DEF IInv, Start, SeededRelay, TypeOK, RelayTypeOK
  <2>2. unlogged' \in BOOLEAN
    BY Zenon DEF Start
  <2>3. sinceOn' \in 0..MinRun /\ sinceOff' \in 0..MinOff
    BY DEF IInv, Start, TypeOK
  <2> QED
    BY <2>1, <2>2, <2>3, NothingFacts DEF IInv, Start, TypeOK, RelayTypeOK, relayVars
<1>2. Armed' /\ Audit'
  BY DEF IInv, Start, Armed, Audit, relayVars
<1>3. Evidence'
  BY DEF IInv, Start, Evidence
<1> QED
  BY <1>1, <1>2, <1>3 DEF IInv

LEMMA CrashIInv == IInv /\ Crash => IInv'
  BY NothingFacts DEF IInv, Crash, TypeOK, RelayTypeOK, Armed, Evidence, Audit,
     relayVars, loopVars, ageVars, logVars

LEMMA SkipCycleIInv == IInv /\ SkipCycle => IInv'
  BY DEF IInv, SkipCycle, Sleep, TypeOK, RelayTypeOK, Armed, Evidence, Audit,
     relayVars, loopVars, ageVars, logVars

LEMMA CycleIInv == IInv /\ Cycle => IInv'
<1> SUFFICES ASSUME IInv, Cycle PROVE IInv'
  OBVIOUS
<1>1. PICK settings \in LoadedSettings, reading \in Readings : Evaluate(settings, reading)
  BY DEF Cycle
<1>2. settings \in Rows \union {Paused} /\ settings \in Settings /\ reading \in AllReadings
  BY <1>1, SettingsFacts DEF IInv, TypeOK, LoadedSettings
<1>3. /\ relayOn' \in BOOLEAN
      /\ sinceOn' \in 0..MinRun /\ sinceOff' \in 0..MinOff
      /\ logOn' \in 0..MinRun /\ logOff' \in 0..MinOff
      /\ lastLogged' \in BOOLEAN /\ unlogged' \in BOOLEAN
      /\ (~unlogged => lastLogged = relayOn) => (~unlogged' => lastLogged' = relayOn')
  <2>1. CASE ExternalChange(reading)
    <3>1. /\ relayOn' = (view = "on")
          /\ sinceOn' = IF relayOn' THEN 0 ELSE sinceOn
          /\ sinceOff' = IF relayOn' THEN sinceOff ELSE 0
          /\ WriteSwitch(relayOn')
      BY <1>1, <2>1, Zenon DEF Evaluate, Reconcile
    <3>0. relayOn' \in BOOLEAN
      BY <3>1, Zenon
    <3>2. sinceOn' \in 0..MinRun /\ sinceOff' \in 0..MinOff
      BY <3>1, <3>0 DEF IInv, TypeOK
    <3>3. CASE Logged(relayOn')
      <4>1. lastLogged' = relayOn' /\ unlogged' = FALSE
        BY <3>3, Zenon DEF Logged
      <4>2. logOn' \in 0..MinRun /\ logOff' \in 0..MinOff
        BY <3>0, <3>3 DEF Logged, IInv, TypeOK
      <4> QED
        BY <3>0, <3>2, <4>1, <4>2, Zenon
    <3>4. CASE NotLogged
      <4>1. unlogged' = TRUE /\ lastLogged' = lastLogged
            /\ logOn' = logOn /\ logOff' = logOff
        BY <3>4, Zenon DEF NotLogged
      <4> QED
        BY <3>0, <3>2, <4>1, Zenon DEF IInv, TypeOK
    <3> QED
      BY <3>1, <3>3, <3>4 DEF WriteSwitch
  <2>2. CASE ~ExternalChange(reading)
    BY <1>1, <2>2 DEF Evaluate, Reconcile, IInv, TypeOK, ageVars, logVars
  <2> QED
    BY <2>1, <2>2
<1>4. /\ onStreak' \in 0..OnDelay /\ offStreak' \in 0..OffDelay
      /\ staleStreak' \in 0..Grace
      /\ FreshForDecide(reading, staleStreak') \in BOOLEAN
  BY <1>1, <1>2, StreakFacts DEF Evaluate, IInv, TypeOK
<1>5. Sound(settings, relayOn', FreshForDecide(reading, staleStreak'), decision')
  <2>1. decision' = Decide(settings, relayOn', onStreak', offStreak', sinceOn',
                           sinceOff', FreshForDecide(reading, staleStreak'))
    BY <1>1 DEF Evaluate
  <2>2. onStreak' \in Nat /\ offStreak' \in Nat /\ sinceOn' \in Nat /\ sinceOff' \in Nat
    BY <1>3, <1>4
  <2> QED
    BY <1>2, <1>3, <1>4, <2>1, <2>2, DecideFacts
<1>6. FreshForDecide(reading, staleStreak') <=> staleStreak' < Grace
  BY <1>1 DEF Evaluate, FreshForDecide, StaleStreak
<1>7. credit' \in 0..Grace /\ credit' + staleStreak' >= Grace
  <2>1. CASE reading = "blind"
    <3>1. staleStreak' = Sat(staleStreak, Grace) /\ credit' = credit
      BY <1>1, <2>1 DEF Evaluate, StaleStreak
    <3>2. credit \in 0..Grace /\ staleStreak \in 0..Grace
          /\ credit + staleStreak + 1 >= Grace
      BY DEF IInv, TypeOK, Evidence, Cycle
    <3> QED
      BY <3>1, <3>2 DEF Sat
  <2>2. CASE reading # "blind"
    BY <1>1, <1>4, <2>2 DEF Evaluate
  <2> QED
    BY <2>1, <2>2
<1>8. TypeOK'
  BY <1>1, <1>2, <1>3, <1>4, <1>5, <1>7
     DEF Sound, Evaluate, Cycle, IInv, TypeOK, RelayTypeOK, relayVars
<1>9. Armed'
  BY DEF Cycle, IInv, Armed, relayVars
<1>10. Evidence'
  <2>1. cfg' = settings /\ pc' = "act"
    BY <1>1 DEF Evaluate, Cycle
  <2>2. Sound(cfg', relayOn', staleStreak' < Grace, decision')
    BY <1>5, <1>6, <2>1 DEF Sound
  <2> QED
    BY <1>7, <2>1, <2>2 DEF Evidence
<1>11. Audit'
  BY <1>3 DEF Cycle, IInv, Audit
<1> QED
  BY <1>8, <1>9, <1>10, <1>11 DEF IInv

\* What a command to the relay does to it, and to the credit it is paid from.
LEMMA SetRelayFacts ==
    ASSUME IInv, NEW on \in BOOLEAN, NEW ok \in BOOLEAN, SetRelay(on, ok), pc = "act",
           on = decision.target
    PROVE  /\ RelayTypeOK' /\ Armed'
           /\ credit' \in 0..Grace /\ credit' + staleStreak + 1 >= Grace
<1>1. CASE UNCHANGED <<relayVars, credit>>
  BY <1>1 DEF IInv, TypeOK, RelayTypeOK, Armed, Evidence, relayVars
<1>2. CASE Applied(on) /\ Spend(on)
  <2>1. RelayTypeOK' /\ Armed'
    <3>1. /\ out' = on /\ hand' = FALSE
          /\ timer' = (IF on THEN AutoOff ELSE 0)
          /\ held' = IF on = out THEN held ELSE 0
      BY <1>2, Zenon DEF Applied, Moves
    <3>2. hand' \in BOOLEAN
      BY <3>1, Zenon
    <3>3. timer' \in 0..AutoOff /\ held' \in 0..HeldCap
      BY <3>1 DEF IInv, TypeOK, RelayTypeOK
    <3> QED
      BY <3>1, <3>2, <3>3 DEF RelayTypeOK, Armed
  <2>2. CASE on /\ cfg.mode = "auto"
    <3>1. staleStreak < Grace
      BY <2>2 DEF IInv, Evidence, Sound
    <3>2. credit' = credit - 1
      BY <1>2, <2>2 DEF Spend
    <3> QED
      BY <2>1, <3>1, <3>2 DEF IInv, TypeOK, Evidence
  <2>3. CASE ~(on /\ cfg.mode = "auto")
    <3>1. credit' = credit
      BY <1>2, <2>3, Zenon DEF Spend
    <3> QED
      BY <2>1, <3>1 DEF IInv, TypeOK, Evidence
  <2> QED
    BY <2>2, <2>3
<1> QED
  BY <1>1, <1>2 DEF SetRelay

LEMMA SwitchIInv == IInv /\ Switch => IInv'
<1> SUFFICES ASSUME IInv, Switch PROVE IInv'
  OBVIOUS
<1> USE DEF Switch
<1>0. decision \in Decisions /\ decision.target \in BOOLEAN
  BY DEF IInv, TypeOK, Decisions
<1>1. PICK ok \in BOOLEAN :
        /\ SetRelay(decision.target, ok)
        /\ IF ok THEN SwitchedTo(decision.target) /\ UNCHANGED decision
           ELSE /\ decision' = [decision EXCEPT !.action = "no_change",
                                                !.reason = "shelly_write_failed"]
                /\ UNCHANGED <<relayOn, ageVars>>
  OBVIOUS
<1>2. /\ RelayTypeOK' /\ Armed'
      /\ credit' \in 0..Grace /\ credit' + staleStreak + 1 >= Grace
  BY <1>0, <1>1, SetRelayFacts
<1>3. /\ decision' \in Decisions
      /\ relayOn' \in BOOLEAN /\ sinceOn' \in 0..MinRun /\ sinceOff' \in 0..MinOff
      /\ decision'.action = "no_change" => relayOn' = relayOn
      /\ decision'.action # "no_change" => relayOn' = decision'.target
  <2>1. CASE ok
    <3>1. decision' = decision /\ SwitchedTo(decision.target)
      BY <1>1, <2>1
    <3>2. Busy - left \in Nat
      BY DEF IInv, TypeOK
    <3> QED
      BY <1>0, <3>1, <3>2 DEF SwitchedTo, AtMost, IInv, TypeOK
  <2>2. CASE ~ok
    <3>1. /\ decision' = [decision EXCEPT !.action = "no_change",
                                          !.reason = "shelly_write_failed"]
          /\ UNCHANGED <<relayOn, ageVars>>
      BY <1>1, <2>2
    <3>2. decision' \in Decisions /\ decision'.action = "no_change"
      BY <1>0, <3>1 DEF Decisions, Actions, Reasons
    <3> QED
      BY <3>1, <3>2 DEF IInv, TypeOK, ageVars
  <2> QED
    BY <2>1, <2>2
<1>4. TypeOK'
  BY <1>2, <1>3 DEF IInv, TypeOK, logVars
<1>5. Evidence'
  BY <1>2 DEF Evidence
<1>6. Audit'
  BY <1>3 DEF IInv, Audit, logVars
<1> QED
  BY <1>2, <1>4, <1>5, <1>6 DEF IInv

LEMMA RearmIInv == IInv /\ Rearm => IInv'
<1> SUFFICES ASSUME IInv, Rearm PROVE IInv'
  OBVIOUS
<1>1. PICK ok \in BOOLEAN : SetRelay(TRUE, ok)
  BY DEF Rearm
<1>2. decision.target = TRUE
  BY DEF Rearm, IInv, Evidence, Sound, TypeOK
<1>3. /\ RelayTypeOK' /\ Armed'
      /\ credit' \in 0..Grace /\ credit' + staleStreak + 1 >= Grace
  BY <1>1, <1>2, SetRelayFacts DEF Rearm
<1>4. TypeOK'
  BY <1>3, NothingFacts DEF Rearm, Sleep, IInv, TypeOK, loopVars, ageVars, logVars
<1>5. Evidence' /\ Audit'
  BY <1>3 DEF Rearm, Sleep, IInv, Evidence, Audit, loopVars, logVars
<1> QED
  BY <1>3, <1>4, <1>5 DEF IInv

LEMMA StayOffIInv == IInv /\ StayOff => IInv'
<1> SUFFICES ASSUME IInv, StayOff PROVE IInv'
  OBVIOUS
<1>1. TypeOK' /\ Armed'
  BY NothingFacts
     DEF StayOff, Sleep, IInv, TypeOK, RelayTypeOK, Armed, relayVars, loopVars, ageVars, logVars
<1>2. Evidence' /\ Audit'
  BY DEF StayOff, Sleep, IInv, TypeOK, Evidence, Audit, loopVars, logVars
<1> QED
  BY <1>1, <1>2 DEF IInv

LEMMA LogDecisionIInv == IInv /\ LogDecision => IInv'
<1> SUFFICES ASSUME IInv, LogDecision PROVE IInv'
  OBVIOUS
<1> USE DEF LogDecision
<1>0. decision.target \in BOOLEAN
  BY DEF IInv, TypeOK, Decisions
<1>1. /\ logOn' \in 0..MinRun /\ logOff' \in 0..MinOff
      /\ lastLogged' \in BOOLEAN /\ unlogged' \in BOOLEAN
      /\ ~unlogged' => lastLogged' = relayOn
  <2>1. CASE decision.action = "no_change"
    BY <2>1 DEF IInv, TypeOK, Audit, logVars
  <2>2. CASE decision.action # "no_change" /\ Logged(decision.target)
    <3>1. lastLogged' = decision.target /\ unlogged' = FALSE
      BY <2>2, Zenon DEF Logged
    <3>2. logOn' \in 0..MinRun /\ logOff' \in 0..MinOff
      BY <1>0, <2>2 DEF Logged, IInv, TypeOK
    <3>3. relayOn = decision.target
      BY <2>2 DEF IInv, Audit
    <3> QED
      BY <1>0, <3>1, <3>2, <3>3, Zenon
  <2>3. CASE decision.action # "no_change" /\ NotLogged
    <3>1. unlogged' = TRUE /\ UNCHANGED <<logOn, logOff, lastLogged>>
      BY <2>3, Zenon DEF NotLogged
    <3> QED
      BY <3>1 DEF IInv, TypeOK
  <2> QED
    BY <2>1, <2>2, <2>3 DEF WriteSwitch
<1>2. TypeOK' /\ Armed'
  BY <1>1, NothingFacts
     DEF Sleep, IInv, TypeOK, RelayTypeOK, Armed, relayVars, loopVars, ageVars
<1>3. Evidence' /\ Audit'
  BY <1>1 DEF Sleep, IInv, Evidence, Audit, loopVars
<1> QED
  BY <1>2, <1>3 DEF IInv

LEMMA AroundIInv ==
    IInv /\ (PollRelay \/ PollFails \/ FlipByHand \/ SaveSettings) => IInv'
<1>1. ASSUME IInv, PollRelay \/ PollFails PROVE IInv'
  <2>1. view' \in Views
    BY <1>1 DEF PollRelay, PollFails, Shown, Views
  <2> QED
    BY <1>1, <2>1 DEF PollRelay, PollFails, IInv, TypeOK, RelayTypeOK, Armed, Evidence,
       Audit, relayVars, loopVars, ageVars, logVars
<1>2. ASSUME IInv, FlipByHand PROVE IInv'
  <2>1. PICK on \in BOOLEAN : Flipped(on)
    BY <1>2 DEF FlipByHand
  <2>2. RelayTypeOK' /\ Armed'
    BY <1>2, <2>1 DEF Flipped, Moves, IInv, TypeOK, RelayTypeOK, Armed
  <2> QED
    BY <1>2, <2>2 DEF FlipByHand, IInv, TypeOK, Evidence, Audit, loopVars, ageVars, logVars
<1>3. ASSUME IInv, SaveSettings PROVE IInv'
  BY <1>3 DEF SaveSettings, IInv, TypeOK, RelayTypeOK, Armed, Evidence, Audit,
     relayVars, loopVars, ageVars, logVars
<1> QED
  BY <1>1, <1>2, <1>3

LEMMA TickIInv == IInv /\ Tick => IInv'
<1> SUFFICES ASSUME IInv, Tick PROVE IInv'
  OBVIOUS
<1>1. RelayTypeOK' /\ Armed'
  BY DEF Tick, DeviceTick, Expires, IInv, TypeOK, RelayTypeOK, Armed
<1>2. /\ sinceOn' \in 0..MinRun /\ sinceOff' \in 0..MinOff
      /\ logOn' \in 0..MinRun /\ logOff' \in 0..MinOff
  BY SatFacts DEF Tick, IInv, TypeOK
<1>3. left' \in 0..(IF pc' = "sleep" THEN Loop ELSE Busy)
  BY DEF Tick, IInv, TypeOK
<1>4. TypeOK'
  BY <1>1, <1>2, <1>3 DEF Tick, IInv, TypeOK, loopVars
<1>5. Evidence' /\ Audit'
  BY DEF Tick, IInv, Evidence, Audit, loopVars
<1> QED
  BY <1>1, <1>4, <1>5 DEF IInv

\* IInv holds initially and every step preserves it: the grace never promises
\* more than the last fresh reading paid for, whatever fails.
THEOREM Invariance == Spec => []IInv
<1>1. Init => IInv
  BY InitIInv
<1>2. IInv /\ [Next]_vars => IInv'
  <2>1. IInv /\ UNCHANGED vars => IInv'
    BY DEF vars, relayVars, loopVars, ageVars, logVars, IInv, TypeOK, RelayTypeOK,
       Armed, Evidence, Audit
  <2> QED
    BY <2>1, StartIInv, CrashIInv, SkipCycleIInv, CycleIInv, SwitchIInv, RearmIInv,
       StayOffIInv, LogDecisionIInv, AroundIInv, TickIInv DEF Next
<1> QED
  BY <1>1, <1>2, PTL DEF Spec

\* Type correctness, and with it that no command to close the relay in AUTO is
\* ever unpaid for (credit stays above zero).
THEOREM TypeCorrect == Spec => []TypeOK
<1>1. IInv => TypeOK
  BY DEF IInv
<1> QED
  BY <1>1, Invariance, PTL

\* A relay the controller closed always has its hardware auto-off running.
THEOREM AlwaysArmed == Spec => []Armed
<1>1. IInv => Armed
  BY DEF IInv
<1> QED
  BY <1>1, Invariance, PTL

\* The audit log is in step with the controller unless a row was lost.
THEOREM AuditFaithful == Spec => []AuditInStep
<1>1. IInv => AuditInStep
  BY DEF IInv, Audit, AuditInStep
<1> QED
  BY <1>1, Invariance, PTL

-----------------------------------------------------------------------------
(* The controller implements RelayLease.                                   *)

override == cfg.mode = "manual" /\ cfg.manualOn

LEMMA OverrideFacts ==
    ASSUME IInv
    PROVE  /\ cfg.mode \in Modes /\ cfg.manualOn \in BOOLEAN /\ override \in BOOLEAN
           /\ decision \in Decisions /\ decision.target \in BOOLEAN
           /\ out \in BOOLEAN /\ hand \in BOOLEAN
           /\ timer \in 0..AutoOff /\ credit \in 0..Grace /\ staleStreak \in 0..Grace
<1>1. cfg \in Settings
  BY SettingsFacts DEF IInv, TypeOK
<1>2. override \in BOOLEAN
  BY <1>1, Zenon DEF override, Settings
<1> QED
  BY <1>1, <1>2 DEF Settings, IInv, TypeOK, RelayTypeOK, Decisions

\* A command of this cycle renews, releases or loses the lease.
LEMMA CommandLease ==
    ASSUME IInv, NEW on \in BOOLEAN, NEW ok \in BOOLEAN, SetRelay(on, ok),
           pc = "act", on = decision.target, cfg' = cfg
    PROVE  Lease!Energise \/ Lease!Release \/ UNCHANGED Lease!vars
<1>0. /\ cfg.mode \in Modes /\ credit \in 0..Grace /\ staleStreak \in 0..Grace
      /\ Sound(cfg, relayOn, staleStreak < Grace, decision)
      /\ credit + staleStreak >= Grace
  BY OverrideFacts DEF IInv, Evidence
<1>1. CASE UNCHANGED <<relayVars, credit>>
  BY <1>1 DEF Lease!vars, relayVars
<1>2. CASE Applied(on) /\ Spend(on)
  <2>1. /\ out' = on /\ hand' = FALSE
        /\ timer' = (IF on THEN AutoOff ELSE 0)
    BY <1>2, Zenon DEF Applied
  <2>2. CASE ~on
    <3>1. credit' = credit
      BY <1>2, <2>2, Zenon DEF Spend
    <3>2. out' = FALSE /\ timer' = 0 /\ hand' = FALSE
      BY <2>1, <2>2, Zenon
    <3> QED
      BY <3>1, <3>2, Zenon DEF Lease!Release
  <2>3. CASE on /\ cfg.mode = "auto"
    <3>1. staleStreak < Grace
      BY <1>0, <2>3 DEF Sound
    <3>2. credit > 0 /\ credit' = credit - 1
      BY <1>0, <1>2, <2>3, <3>1 DEF Spend
    <3>3. out' = TRUE /\ timer' = AutoOff /\ hand' = FALSE
      BY <2>1, <2>3, Zenon
    <3> QED
      BY <3>2, <3>3, Zenon DEF Lease!Energise
  <2>4. CASE on /\ cfg.mode # "auto"
    <3>1. cfg.mode = "manual" /\ cfg.manualOn
      BY <1>0, <2>4 DEF Sound, Modes
    <3>2. credit' = credit
      BY <1>2, <2>4, Zenon DEF Spend
    <3>3. out' = TRUE /\ timer' = AutoOff /\ hand' = FALSE
      BY <2>1, <2>4, Zenon
    <3> QED
      BY <3>1, <3>2, <3>3, Zenon DEF Lease!Energise
  <2> QED
    BY <2>2, <2>3, <2>4
<1> QED
  BY <1>1, <1>2 DEF SetRelay

LEMMA LeaseStep == IInv /\ IInv' /\ [Next]_vars => [Lease!Next]_(Lease!vars)
<1> SUFFICES ASSUME IInv, IInv', [Next]_vars PROVE Lease!Next \/ UNCHANGED Lease!vars
  OBVIOUS
<1>1. CASE Start
  <2>1. cfg'.mode = "paused"
    BY <1>1 DEF Start, Paused
  <2>2. Lease!Start
    BY <1>1, <2>1 DEF Start, Lease!Start, relayVars
  <2> QED
    BY <2>2 DEF Lease!Next
<1>2. CASE Crash \/ SkipCycle \/ StayOff \/ LogDecision \/ PollRelay \/ PollFails \/ SaveSettings
  BY <1>2 DEF Crash, SkipCycle, StayOff, LogDecision, PollRelay, PollFails, SaveSettings,
     Lease!vars, relayVars, loopVars
<1>3. CASE Cycle
  <2>1. credit' \in {credit, Grace}
    BY <1>3 DEF Cycle, Evaluate
  <2>2. (cfg'.mode = "manual" /\ cfg'.manualOn) \in BOOLEAN
    BY Zenon
  <2>3. Lease!Review
    BY <1>3, <2>1, <2>2 DEF Cycle, Lease!Review, relayVars
  <2> QED
    BY <2>3 DEF Lease!Next
<1>4. CASE Switch
  <2>1. PICK ok \in BOOLEAN : SetRelay(decision.target, ok)
    BY <1>4 DEF Switch
  <2> QED
    BY <1>4, <2>1, OverrideFacts, CommandLease DEF Switch, Lease!Next
<1>5. CASE Rearm
  <2>1. PICK ok \in BOOLEAN : SetRelay(TRUE, ok)
    BY <1>5 DEF Rearm
  <2>2. decision.target = TRUE /\ pc = "act" /\ cfg' = cfg
    BY <1>5, OverrideFacts DEF Rearm, IInv, TypeOK, Evidence, Sound, loopVars
  <2> QED
    BY <2>1, <2>2, CommandLease DEF Lease!Next
<1>6. CASE FlipByHand
  <2>1. PICK on \in BOOLEAN : Flipped(on)
    BY <1>6 DEF FlipByHand
  <2>2. Lease!Flip
    BY <1>6, <2>1 DEF FlipByHand, Flipped, Lease!Flip, loopVars
  <2> QED
    BY <2>2 DEF Lease!Next
<1>7. CASE Tick
  <2>0. /\ hand' = hand /\ credit' = credit /\ cfg' = cfg
        /\ out' = (out /\ timer # 1)
        /\ timer' = (IF timer > 0 THEN timer - 1 ELSE 0)
    BY <1>7, Zenon DEF Tick, DeviceTick, Expires, loopVars
  <2>1. CASE timer = 0
    <3>1. out' = out /\ timer' = timer
      BY <2>0, <2>1, OverrideFacts
    <3> QED
      BY <2>0, <3>1 DEF Lease!vars
  <2>2. CASE timer > 0
    <3>1. out' = (timer > 1) /\ timer' = timer - 1
      BY <2>0, <2>2, OverrideFacts DEF IInv, Armed
    <3>2. Lease!Elapse
      BY <2>0, <2>2, <3>1 DEF Lease!Elapse
    <3> QED
      BY <3>2 DEF Lease!Next
  <2> QED
    BY <2>1, <2>2, OverrideFacts
<1>8. CASE UNCHANGED vars
  BY <1>8 DEF vars, Lease!vars, relayVars, loopVars
<1> QED
  BY <1>1, <1>2, <1>3, <1>4, <1>5, <1>6, <1>7, <1>8 DEF Next

\* The controller keeps the lease: every step of the whole system, with every
\* fault, is a step RelayLease allows or none of its business.
THEOREM LeaseKept == Spec => KeepsLease
<1>1. Init => Lease!Init
  BY DEF Init, RelayInit, Lease!Init, Paused
<1> QED
  BY <1>1, LeaseStep, Invariance, PTL DEF Spec, KeepsLease, Lease!Spec

-----------------------------------------------------------------------------
(* When nothing fails but the readings, the settings may change, and the   *)
(* hardware auto-off outlasts the loop's re-arm period, its own duration   *)
(* included.                                                               *)

Nominal == Faults \subseteq {"ui"} /\ AutoOff > Loop + 2 * Busy

\* How much of the lease is left at least, from the last command on: the rest
\* of its cycle, the sleep, and the next cycle up to its command.
LeaseLeft ==
    /\ pc = "log"   => timer + Busy >= AutoOff + left
    /\ pc = "sleep" => timer + Busy + Loop >= AutoOff + left
    /\ pc = "act"   => timer + 2 * Busy + Loop >= AutoOff + left

\* The controller knows where the relay is, and the exporter's view agrees
\* with it when a cycle starts.
InStep ==
    /\ pc # "down" => relayOn = out
    /\ pc = "down" => ~out /\ held = HeldCap
    /\ pc = "down" \/ (pc = "sleep" /\ left < Loop) => view \in {"unreachable", Shown(out)}
    /\ pc = "log" => decision.target = out

\* The ages the guards are checked on exceed the relay's own by at most the
\* duration of a cycle, and so does what a pending decision was checked on.
AgesBound ==
    /\ ~out => sinceOff <= held + Busy
    /\ out => sinceOn <= held + Busy
    /\ pc = "act" /\ decision.target /\ ~relayOn /\ cfg.mode = "auto" => MinOff <= held + Busy
    /\ pc = "act" /\ decision.reason = "surplus_below_off_threshold" => MinRun <= held + Busy

NInv == IInv /\ (out => LeaseLeft) /\ InStep /\ AgesBound

\* What AUTO's guards were satisfied for.
Timed(c, on, so, sf, d) ==
    /\ c.mode = "auto" /\ ~on /\ d.target => sf >= MinOff
    /\ d.reason = "surplus_below_off_threshold" => on /\ so >= MinRun

LEMMA SteerReason ==
    ASSUME NEW on \in BOOLEAN, NEW target \in BOOLEAN, NEW reason \in Reasons
    PROVE  /\ Steer(on, target, reason).reason = reason
           /\ Steer(on, target, reason).target = target
  BY DEF Steer

LEMMA DecideTimed ==
    ASSUME NEW c \in Settings, NEW on \in BOOLEAN, NEW fresh \in BOOLEAN,
           NEW os \in Nat, NEW fs \in Nat, NEW so \in Nat, NEW sf \in Nat
    PROVE  Timed(c, on, so, sf, Decide(c, on, os, fs, so, sf, fresh))
<1> DEFINE d == Decide(c, on, os, fs, so, sf, fresh)
<1>0. \A reason \in Reasons, target \in BOOLEAN : d = Steer(on, target, reason)
        => d.reason = reason /\ d.target = target
  BY SteerReason
<1>1. CASE c.mode = "paused"
  <2>1. d = Steer(on, FALSE, "paused") /\ "paused" \in Reasons
    BY <1>1 DEF Decide, Reasons
  <2>2. d.reason = "paused"
    BY <1>0, <2>1
  <2> QED
    BY <1>1, <2>2 DEF Timed
<1>2. CASE c.mode = "manual"
  <2> DEFINE why == IF c.manualOn = on THEN "manual_hold" ELSE "manual"
  <2>1. d = Steer(on, c.manualOn, why) /\ why \in Reasons /\ c.manualOn \in BOOLEAN
    BY <1>2 DEF Decide, Manual, Reasons, Settings
  <2>2. d.reason = why
    BY <1>0, <2>1
  <2> QED
    BY <1>2, <2>2 DEF Timed
<1>3. CASE c.mode = "auto" /\ ~fresh
  <2>1. d = Steer(on, FALSE, "state_stale_failsafe") /\ "state_stale_failsafe" \in Reasons
    BY <1>3 DEF Decide, Reasons
  <2>2. d.reason = "state_stale_failsafe" /\ d.target = FALSE
    BY <1>0, <2>1
  <2> QED
    BY <2>2 DEF Timed
<1>4. CASE c.mode = "auto" /\ fresh /\ on
  <2>0. on = TRUE
    BY <1>4
  <2>1. d = AutoWhileOn(fs, so)
    BY <1>4 DEF Decide
  <2>2. \/ d = Steer(on, TRUE, "surplus_ok") \/ d = Steer(on, TRUE, "min_runtime")
        \/ ~(so < MinRun) /\ d = Steer(on, FALSE, "surplus_below_off_threshold")
    BY <2>0, <2>1, Zenon DEF AutoWhileOn
  <2>4. d.reason = "surplus_ok" \/ d.reason = "min_runtime" \/ ~(so < MinRun)
    <3>1. "surplus_ok" \in Reasons /\ "min_runtime" \in Reasons
      BY DEF Reasons
    <3> HIDE DEF d
    <3> QED
      BY <1>0, <2>2, <3>1, Zenon
  <2>5. ~(so < MinRun) => so >= MinRun
    OBVIOUS
  <2> HIDE DEF d
  <2>6. d.reason = "surplus_below_off_threshold" => on /\ so >= MinRun
    BY <1>4, <2>4, <2>5
  <2>7. Timed(c, on, so, sf, d)
    BY <1>4, <2>6, Zenon DEF Timed
  <2> QED
    BY <2>7 DEF d
<1>5. CASE c.mode = "auto" /\ fresh /\ ~on
  <2>0. on = FALSE
    BY <1>5
  <2>1. d = AutoWhileOff(os, sf)
    BY <1>5 DEF Decide
  <2>2. \/ d = Steer(on, FALSE, "waiting_surplus") \/ d = Steer(on, FALSE, "waiting_min_offtime")
        \/ ~(sf < MinOff) /\ d = Steer(on, TRUE, "surplus_threshold_met")
    BY <2>0, <2>1, Zenon DEF AutoWhileOff
  <2>4. /\ \/ d.reason = "waiting_surplus" \/ d.reason = "waiting_min_offtime"
           \/ d.reason = "surplus_threshold_met"
        /\ d.target => ~(sf < MinOff)
    <3>1. /\ "waiting_surplus" \in Reasons /\ "waiting_min_offtime" \in Reasons
          /\ "surplus_threshold_met" \in Reasons /\ TRUE \in BOOLEAN /\ FALSE \in BOOLEAN
      BY DEF Reasons
    <3> HIDE DEF d
    <3>2. CASE d = Steer(on, FALSE, "waiting_surplus")
      BY <1>0, <3>1, <3>2, Zenon
    <3>3. CASE d = Steer(on, FALSE, "waiting_min_offtime")
      BY <1>0, <3>1, <3>3, Zenon
    <3>4. CASE ~(sf < MinOff) /\ d = Steer(on, TRUE, "surplus_threshold_met")
      BY <1>0, <3>1, <3>4, Zenon
    <3> QED
      BY <2>2, <3>2, <3>3, <3>4, Zenon
  <2>5. ~(sf < MinOff) => sf >= MinOff
    OBVIOUS
  <2> HIDE DEF d
  <2>6. d.reason # "surplus_below_off_threshold"
    BY <2>4
  <2>7. Timed(c, on, so, sf, d)
    BY <2>4, <2>5, <2>6, Zenon DEF Timed
  <2> QED
    BY <2>7 DEF d
<1> QED
  BY <1>1, <1>2, <1>3, <1>4, <1>5 DEF Settings, Modes

-----------------------------------------------------------------------------
(* NInv is inductive.                                                      *)

LEMMA NInit == ASSUME Nominal PROVE Init => NInv
<1> SUFFICES ASSUME Init PROVE NInv
  OBVIOUS
<1>1. pc = "down" /\ out = FALSE /\ held = HeldCap /\ view = "unreachable"
      /\ sinceOff = MinOff
  BY Zenon DEF Init, RelayInit
<1> QED
  BY <1>1, InitIInv DEF NInv, InStep, AgesBound

\* The first start: the relay's own state seeds what the controller believes.
LEMMA NStart == ASSUME Nominal PROVE NInv /\ Start => NInv'
<1> SUFFICES ASSUME NInv, Start PROVE NInv'
  OBVIOUS
<1>1. relayOn' = out /\ out' = out /\ held' = held /\ view' = view /\ ~out
      /\ held = HeldCap /\ pc' = "sleep" /\ left' = 0 /\ sinceOff' \in 0..MinOff
  BY StartIInv DEF Nominal, NInv, InStep, Start, SeededRelay, relayVars, IInv, TypeOK
<1>2. view' \in {"unreachable", Shown(out')}
  BY <1>1 DEF NInv, InStep, Start, Shown
<1>3. sinceOff' <= held' + Busy
  BY <1>1
<1> QED
  BY <1>1, <1>2, <1>3, StartIInv DEF NInv, InStep, AgesBound, Start

\* Steps that move neither the relay nor the process.
LEMMA NAround == ASSUME Nominal PROVE NInv /\ (PollRelay \/ SaveSettings) => NInv'
<1>1. ASSUME NInv, PollRelay PROVE NInv'
  <2>1. IInv'
    BY <1>1, AroundIInv DEF NInv
  <2>2. InStep' /\ (out => LeaseLeft)' /\ AgesBound'
    BY <1>1 DEF NInv, PollRelay, InStep, LeaseLeft, AgesBound, Shown, relayVars, loopVars, ageVars
  <2> QED
    BY <2>1, <2>2 DEF NInv
<1>2. ASSUME NInv, SaveSettings PROVE NInv'
  <2>1. IInv'
    BY <1>2, AroundIInv DEF NInv
  <2>2. InStep' /\ (out => LeaseLeft)' /\ AgesBound'
    BY <1>2 DEF NInv, SaveSettings, InStep, LeaseLeft, AgesBound, Shown, relayVars, loopVars, ageVars
  <2> QED
    BY <2>1, <2>2 DEF NInv
<1> QED
  BY <1>1, <1>2

LEMMA NStayOff == ASSUME Nominal PROVE NInv /\ StayOff => NInv'
<1> SUFFICES ASSUME NInv, StayOff PROVE NInv'
  OBVIOUS
<1>1. IInv' /\ ~out /\ ~out' /\ pc' = "sleep" /\ left' = Loop /\ decision' = Nothing
  <2>1. IInv' /\ pc' = "sleep" /\ left' = Loop /\ decision' = Nothing /\ out' = out
    BY StayOffIInv DEF NInv, StayOff, Sleep, relayVars
  <2>2. ~out
    BY DEF NInv, InStep, StayOff
  <2> QED
    BY <2>1, <2>2
<1>2. InStep'
  BY <1>1 DEF NInv, InStep, StayOff, loopVars, relayVars
<1>3. AgesBound'
  BY <1>1 DEF NInv, AgesBound, StayOff, relayVars, ageVars
<1> QED
  BY <1>1, <1>2, <1>3 DEF NInv

LEMMA NLogDecision == ASSUME Nominal PROVE NInv /\ LogDecision => NInv'
<1> SUFFICES ASSUME NInv, LogDecision PROVE NInv'
  OBVIOUS
<1>1. IInv' /\ pc = "log" /\ pc' = "sleep" /\ left' = Loop /\ UNCHANGED <<relayVars, loopVars, ageVars>>
  BY LogDecisionIInv DEF NInv, LogDecision, Sleep, relayVars, loopVars, ageVars
<1>2. InStep'
  BY <1>1 DEF NInv, InStep, loopVars, relayVars
<1>3. AgesBound'
  BY <1>1 DEF NInv, AgesBound, loopVars, relayVars, ageVars
<1>4. (out => LeaseLeft)'
  BY <1>1 DEF NInv, LeaseLeft, relayVars, IInv, TypeOK, RelayTypeOK
<1> QED
  BY <1>1, <1>2, <1>3, <1>4 DEF NInv

\* Without faults relay.set does what it says.
LEMMA NSetRelay ==
    ASSUME Nominal, NEW on \in BOOLEAN, NEW ok \in BOOLEAN, SetRelay(on, ok)
    PROVE  ok /\ Applied(on)
  BY Zenon DEF Nominal, SetRelay

LEMMA NRearm == ASSUME Nominal PROVE NInv /\ Rearm => NInv'
<1> SUFFICES ASSUME NInv, Rearm PROVE NInv'
  OBVIOUS
<1>1. PICK ok \in BOOLEAN : SetRelay(TRUE, ok)
  BY Zenon DEF Rearm
<1>2. /\ IInv' /\ pc = "act" /\ pc' = "sleep" /\ left' = Loop /\ decision' = Nothing
      /\ UNCHANGED <<loopVars, ageVars>> /\ relayOn
  BY RearmIInv DEF NInv, Rearm, Sleep, loopVars, ageVars
<1>3. Applied(TRUE)
  BY <1>1, NSetRelay
<1>4. out = TRUE /\ out' = TRUE /\ timer' = AutoOff /\ held' = held
  <2>1. out = TRUE
    BY <1>2 DEF NInv, InStep, IInv, TypeOK, RelayTypeOK
  <2> QED
    BY <1>3, <2>1, Zenon DEF Applied, Moves
<1>5. InStep'
  <2>1. relayOn' = relayOn /\ relayOn = out
    BY <1>2 DEF NInv, InStep, loopVars
  <2>2. relayOn' = out'
    BY <1>4, <2>1
  <2> QED
    BY <1>2, <2>2 DEF InStep
<1>6. AgesBound'
  <2>1. sinceOn' <= held' + Busy
    BY <1>2, <1>4 DEF NInv, AgesBound, ageVars
  <2> QED
    BY <1>2, <1>4, <2>1 DEF AgesBound
<1>7. (out => LeaseLeft)'
  BY <1>2, <1>4 DEF LeaseLeft
<1> QED
  BY <1>2, <1>5, <1>6, <1>7 DEF NInv

LEMMA NSwitch == ASSUME Nominal PROVE NInv /\ Switch => NInv'
<1> SUFFICES ASSUME NInv, Switch PROVE NInv'
  OBVIOUS
<1> USE DEF Switch
<1>0. /\ pc = "act" /\ pc' = "log" /\ left' = left /\ left \in 0..Busy /\ cfg' = cfg
      /\ decision \in Decisions /\ decision.target \in BOOLEAN /\ IInv'
      /\ relayOn \in BOOLEAN /\ out \in BOOLEAN /\ relayOn = out
      /\ held \in 0..HeldCap
  BY SwitchIInv DEF NInv, InStep, IInv, TypeOK, RelayTypeOK, Decisions
<1>1. decision.target # relayOn
  BY <1>0 DEF NInv, IInv, Evidence, Sound
<1>2. PICK ok \in BOOLEAN :
        /\ SetRelay(decision.target, ok)
        /\ IF ok THEN SwitchedTo(decision.target) /\ UNCHANGED decision
           ELSE /\ decision' = [decision EXCEPT !.action = "no_change",
                                                !.reason = "shelly_write_failed"]
                /\ UNCHANGED <<relayOn, ageVars>>
  OBVIOUS
<1>3. Applied(decision.target) /\ SwitchedTo(decision.target) /\ decision' = decision
  <2>1. ok /\ Applied(decision.target)
    BY <1>0, <1>2, NSetRelay
  <2> QED
    BY <1>2, <2>1
<1>4. out' = decision.target /\ relayOn' = decision.target /\ held' = 0
      /\ timer' = (IF decision.target THEN AutoOff ELSE 0)
  <2>1. out' = decision.target /\ relayOn' = decision.target
        /\ timer' = (IF decision.target THEN AutoOff ELSE 0)
    BY <1>3, Zenon DEF Applied, SwitchedTo
  <2>2. held' = 0
    BY <1>0, <1>1, <1>3, Zenon DEF Applied, Moves
  <2> QED
    BY <2>1, <2>2
<1>5. InStep'
  BY <1>0, <1>3, <1>4 DEF InStep
<1>6. AgesBound'
  <2>1. decision.target => sinceOn' = AtMost(Busy - left, MinRun)
    BY <1>3, Zenon DEF SwitchedTo
  <2>2. ~decision.target => sinceOff' = AtMost(Busy - left, MinOff)
    BY <1>3, Zenon DEF SwitchedTo
  <2>3. AtMost(Busy - left, MinRun) <= Busy /\ AtMost(Busy - left, MinOff) <= Busy
    BY <1>0 DEF AtMost
  <2>4. out' => sinceOn' <= held' + Busy
    BY <1>4, <2>1, <2>3
  <2>5. ~out' => sinceOff' <= held' + Busy
    BY <1>4, <2>2, <2>3
  <2> QED
    BY <1>0, <2>4, <2>5 DEF AgesBound
<1>7. (out => LeaseLeft)'
  BY <1>0, <1>4 DEF LeaseLeft
<1> QED
  BY <1>0, <1>5, <1>6, <1>7 DEF NInv

LEMMA NTick == ASSUME Nominal PROVE NInv /\ Tick => NInv'
<1> SUFFICES ASSUME NInv, Tick PROVE NInv'
  OBVIOUS
<1>0. /\ IInv' /\ pc' = pc /\ decision' = decision /\ relayOn' = relayOn /\ cfg' = cfg
      /\ view' = view /\ view = Shown(out)
      /\ out' = (out /\ timer # 1)
      /\ timer' = IF timer > 0 THEN timer - 1 ELSE 0
      /\ held' = IF out /\ timer = 1 THEN 0 ELSE IF held < HeldCap THEN held + 1 ELSE HeldCap
      /\ left' = IF pc = "down" THEN 0 ELSE left - 1
      /\ sinceOn' = Sat(sinceOn, MinRun) /\ sinceOff' = Sat(sinceOff, MinOff)
  BY TickIInv, Zenon DEF NInv, Nominal, Tick, DeviceTick, Expires, loopVars
<1>1. /\ held \in 0..HeldCap /\ timer \in 0..AutoOff
      /\ sinceOn \in 0..MinRun /\ sinceOff \in 0..MinOff
      /\ pc \in {"down", "sleep", "act", "log"}
      /\ left \in 0..(IF pc = "sleep" THEN Loop ELSE Busy)
      /\ out \in BOOLEAN /\ relayOn \in BOOLEAN
  BY DEF NInv, IInv, TypeOK, RelayTypeOK
<1>2. pc # "down" => left > 0
  BY DEF Tick
<1>3. out' = out
  <2>1. CASE out
    <3>1. pc # "down" /\ timer > 1
      BY <1>1, <1>2, <2>1 DEF NInv, InStep, LeaseLeft, Nominal
    <3> QED
      <4>1. timer # 1
        BY <1>1, <3>1
      <4>2. out' = TRUE /\ out = TRUE
        BY <1>0, <1>1, <2>1, <4>1, Zenon
      <4> QED
        BY <4>2
  <2>2. CASE ~out
    BY <1>0, <1>1, <2>2
  <2> QED
    BY <2>1, <2>2
<1>4. ~(out /\ timer = 1) /\ (out => timer' = timer - 1)
  BY <1>0, <1>1, <1>2, <1>3 DEF NInv, InStep, LeaseLeft, Nominal
<1>5. held' = IF held < HeldCap THEN held + 1 ELSE HeldCap
  BY <1>0, <1>4
<1>6. InStep'
  <2>1. pc # "down" => relayOn' = out'
    BY <1>0, <1>3 DEF NInv, InStep
  <2>2. pc = "down" => ~out' /\ held' = HeldCap
    BY <1>1, <1>3, <1>5 DEF NInv, InStep
  <2>3. view' \in {"unreachable", Shown(out')}
    BY <1>0, <1>3
  <2>4. pc = "log" => decision'.target = out'
    BY <1>0, <1>3 DEF NInv, InStep
  <2> QED
    BY <1>0, <2>1, <2>2, <2>3, <2>4 DEF InStep
<1>7. AgesBound'
  <2>1. /\ sinceOff <= held + Busy => sinceOff' <= held' + Busy
        /\ sinceOn <= held + Busy => sinceOn' <= held' + Busy
        /\ MinOff <= held + Busy => MinOff <= held' + Busy
        /\ MinRun <= held + Busy => MinRun <= held' + Busy
    BY <1>0, <1>1, <1>5 DEF Sat
  <2> QED
    BY <1>0, <1>3, <2>1 DEF NInv, AgesBound
<1>8. (out => LeaseLeft)'
  BY <1>0, <1>1, <1>2, <1>3, <1>4 DEF NInv, LeaseLeft, InStep
<1> QED
  BY <1>0, <1>6, <1>7, <1>8 DEF NInv

LEMMA NCycle == ASSUME Nominal PROVE NInv /\ Cycle => NInv'
<1> SUFFICES ASSUME NInv, Cycle PROVE NInv'
  OBVIOUS
<1>1. PICK settings \in LoadedSettings, reading \in Readings : Evaluate(settings, reading)
  BY Zenon DEF Cycle
<1>2. /\ pc = "sleep" /\ left = 0 /\ pc' = "act" /\ left' = Busy
      /\ UNCHANGED <<relayVars, row, view>> /\ IInv'
  BY CycleIInv DEF NInv, Cycle
<1>3. settings \in Settings /\ reading \in AllReadings /\ cfg' = settings
  BY <1>1, SettingsFacts DEF NInv, IInv, TypeOK, LoadedSettings, Evaluate
<1>4. view \in {"unreachable", Shown(relayOn)} /\ relayOn = out /\ relayOn \in BOOLEAN
  BY <1>2 DEF NInv, InStep, IInv, TypeOK
<1>5. ~ExternalChange(reading)
  BY <1>4, Zenon DEF ExternalChange
<1>6. relayOn' = relayOn /\ sinceOn' = sinceOn /\ sinceOff' = sinceOff
  BY <1>1, <1>5, Zenon DEF Evaluate, Reconcile, ageVars
<1>7. Timed(cfg', relayOn, sinceOn, sinceOff, decision')
  <2> DEFINE fresh == FreshForDecide(reading, staleStreak')
  <2>1. /\ onStreak' \in Nat /\ offStreak' \in Nat /\ sinceOn \in Nat /\ sinceOff \in Nat
    BY <1>2 DEF NInv, IInv, TypeOK
  <2>2. fresh \in BOOLEAN
    BY DEF FreshForDecide
  <2>3. decision' = Decide(settings, relayOn, onStreak', offStreak', sinceOn, sinceOff, fresh)
    BY <1>1, <1>6 DEF Evaluate
  <2> HIDE DEF fresh
  <2> QED
    BY <1>3, <1>4, <2>1, <2>2, <2>3, DecideTimed
<1>8. InStep'
  BY <1>2, <1>4, <1>6 DEF InStep, relayVars
<1>9. AgesBound'
  <2>1. held' = held /\ out' = out
    BY <1>2 DEF relayVars
  <2>2. held \in Nat /\ sinceOn \in Nat /\ sinceOff \in Nat
    BY DEF NInv, IInv, TypeOK, RelayTypeOK
  <2>3. (~out => sinceOff <= held + Busy) /\ (out => sinceOn <= held + Busy)
    BY DEF NInv, AgesBound
  <2>4. decision'.target /\ ~relayOn' /\ cfg'.mode = "auto" => MinOff <= held' + Busy
    <3>1. decision'.target /\ ~relayOn /\ cfg'.mode = "auto" => sinceOff >= MinOff
      BY <1>7 DEF Timed
    <3> QED
      BY <1>4, <1>6, <2>1, <2>2, <2>3, <3>1
  <2>5. decision'.reason = "surplus_below_off_threshold" => MinRun <= held' + Busy
    <3>1. decision'.reason = "surplus_below_off_threshold" => relayOn /\ sinceOn >= MinRun
      BY <1>7 DEF Timed
    <3> QED
      BY <1>4, <2>1, <2>2, <2>3, <3>1
  <2> QED
    BY <1>6, <2>1, <2>3, <2>4, <2>5 DEF AgesBound
<1>10. (out => LeaseLeft)'
  BY <1>2 DEF NInv, LeaseLeft, relayVars, IInv, TypeOK, RelayTypeOK
<1> QED
  BY <1>2, <1>8, <1>9, <1>10 DEF NInv

\* The other faults do not happen.
LEMMA NominalNext ==
    ASSUME Nominal, Next
    PROVE  Start \/ Cycle \/ Switch \/ Rearm \/ StayOff \/ LogDecision \/ PollRelay
           \/ SaveSettings \/ Tick
  BY Zenon DEF Nominal, Next, Crash, SkipCycle, PollFails, FlipByHand

LEMMA NominalStep == ASSUME Nominal PROVE NInv /\ [Next]_vars => NInv'
<1>1. NInv /\ UNCHANGED vars => NInv'
  BY DEF vars, relayVars, loopVars, ageVars, logVars, NInv, LeaseLeft, InStep, AgesBound,
     IInv, TypeOK, RelayTypeOK, Armed, Evidence, Audit
<1> QED
  BY <1>1, NominalNext, NStart, NCycle, NSwitch, NRearm, NStayOff, NLogDecision, NAround, NTick

THEOREM NominalInvariance == ASSUME Nominal PROVE Spec => []NInv
<1>1. Init => NInv
  BY NInit
<1>2. NInv /\ [Next]_vars => NInv'
  BY NominalStep
<1> QED
  BY <1>1, <1>2, PTL DEF Spec

\* A loop that meets no fault never loses the relay to its own watchdog, if the
\* auto-off is longer than the sleep and twice a cycle's duration.
THEOREM NeverCutOff == ASSUME Nominal PROVE Spec => []HeldUp
<1>1. NInv => HeldUp
  BY DEF NInv, InStep, HeldUp
<1> QED
  BY <1>1, NominalInvariance, PTL

\* The relay moves by the controller's command to switch only.
LEMMA OnlySwitchMoves ==
    ASSUME Nominal, NInv, NInv', [Next]_vars, out' # out
    PROVE  Switch /\ pc = "act" /\ relayOn = out /\ decision.target = out'
<1>1. CASE Start \/ Cycle \/ StayOff \/ LogDecision \/ PollRelay \/ SaveSettings \/ UNCHANGED vars
  BY <1>1 DEF Start, Cycle, StayOff, LogDecision, PollRelay, SaveSettings, vars, relayVars
<1>2. CASE Rearm
  <2>1. PICK ok \in BOOLEAN : SetRelay(TRUE, ok)
    BY <1>2, Zenon DEF Rearm
  <2>2. out' = TRUE
    BY <2>1, NSetRelay, Zenon DEF Applied
  <2>3. out = TRUE
    BY <1>2 DEF Rearm, NInv, InStep, IInv, TypeOK, RelayTypeOK
  <2> QED
    BY <2>2, <2>3
<1>3. CASE Tick
  <2>1. pc' = pc /\ relayOn' = relayOn
    BY <1>3 DEF Tick, loopVars
  <2>2. CASE pc = "down"
    <3>1. ~out /\ ~out' /\ out \in BOOLEAN /\ out' \in BOOLEAN
      BY <2>1, <2>2 DEF NInv, InStep, IInv, TypeOK, RelayTypeOK
    <3> QED
      BY <3>1
  <2>3. CASE pc # "down"
    BY <2>1, <2>3 DEF NInv, InStep
  <2> QED
    BY <2>2, <2>3
<1>4. CASE Switch
  <2>1. PICK ok \in BOOLEAN : SetRelay(decision.target, ok)
    BY <1>4, Zenon DEF Switch
  <2>2. decision.target \in BOOLEAN /\ pc = "act" /\ relayOn = out
    BY <1>4 DEF Switch, NInv, InStep, IInv, TypeOK, Decisions
  <2>3. out' = decision.target
    BY <2>1, <2>2, NSetRelay, Zenon DEF Applied
  <2> QED
    BY <1>4, <2>2, <2>3
<1> QED
  BY <1>1, <1>2, <1>3, <1>4, NominalNext

LEMMA NBoolean == NInv => out \in BOOLEAN /\ held \in Nat
  BY DEF NInv, IInv, TypeOK, RelayTypeOK

\* AUTO gives the compressor its minimum off-time, as the relay counts it, less
\* what a cycle takes after its reading.
THEOREM RestsEnough == ASSUME Nominal PROVE Spec => CompressorRests
<1> DEFINE Rests == ~out /\ out' /\ cfg.mode = "auto" => held + Busy >= MinOff
<1>1. NInv /\ NInv' /\ [Next]_vars => Rests
  <2> SUFFICES ASSUME NInv, NInv', [Next]_vars, ~out, out', cfg.mode = "auto"
               PROVE  held + Busy >= MinOff
    OBVIOUS
  <2>0. out' # out
    OBVIOUS
  <2>1. pc = "act" /\ decision.target /\ ~relayOn
    <3>1. pc = "act" /\ relayOn = out /\ decision.target = out'
      BY <2>0, OnlySwitchMoves
    <3> QED
      BY <3>1
  <2>2. MinOff <= held + Busy
    BY <2>1 DEF NInv, AgesBound
  <2> QED
    BY <2>2, NBoolean
<1> QED
  BY <1>1, NominalInvariance, PTL DEF Spec, CompressorRests

\* A lack of surplus leaves the compressor its minimum runtime, likewise.
THEOREM RunsEnough == ASSUME Nominal PROVE Spec => CompressorRuns
<1> DEFINE Runs == out /\ ~out' /\ decision.reason = "surplus_below_off_threshold"
                     => held + Busy >= MinRun
<1>1. NInv /\ NInv' /\ [Next]_vars => Runs
  <2> SUFFICES ASSUME NInv, NInv', [Next]_vars, out, ~out',
                      decision.reason = "surplus_below_off_threshold"
               PROVE  held + Busy >= MinRun
    OBVIOUS
  <2>1. pc = "act"
    BY OnlySwitchMoves, NBoolean
  <2>2. MinRun <= held + Busy
    BY <2>1 DEF NInv, AgesBound
  <2> QED
    BY <2>2, NBoolean
<1> QED
  BY <1>1, NominalInvariance, PTL DEF Spec, CompressorRuns

-----------------------------------------------------------------------------
(* The controller's invariant under its liveness probe.                    *)

LEMMA HungTickIInv == IInv /\ HungTick => IInv'
<1> SUFFICES ASSUME IInv, HungTick PROVE IInv'
  OBVIOUS
<1>1. RelayTypeOK' /\ Armed'
  BY DEF HungTick, DeviceTick, Expires, IInv, TypeOK, RelayTypeOK, Armed
<1>2. /\ sinceOn' \in 0..MinRun /\ sinceOff' \in 0..MinOff
      /\ logOn' \in 0..MinRun /\ logOff' \in 0..MinOff
  BY SatFacts DEF HungTick, IInv, TypeOK
<1>3. TypeOK'
  BY <1>1, <1>2 DEF HungTick, IInv, TypeOK, loopVars
<1>4. Evidence' /\ Audit'
  BY DEF HungTick, IInv, Evidence, Audit, loopVars
<1> QED
  BY <1>1, <1>3, <1>4 DEF IInv

LEMMA KillIInv == IInv /\ Kill => IInv'
  BY NothingFacts DEF IInv, Kill, TypeOK, RelayTypeOK, Armed, Evidence, Audit,
     relayVars, loopVars, ageVars, logVars

LEMMA StutterIInv == IInv /\ UNCHANGED vars => IInv'
  BY DEF vars, relayVars, loopVars, ageVars, logVars, IInv, TypeOK, RelayTypeOK,
     Armed, Evidence, Audit

LEMMA HealthStepIInv == IInv /\ [HealthNext]_hvars => IInv'
<1> SUFFICES ASSUME IInv, [HealthNext]_hvars PROVE IInv'
  OBVIOUS
<1>1. CASE Begin
  BY <1>1, StartIInv DEF Begin
<1>2. CASE Work
  BY <1>2, SkipCycleIInv, CycleIInv, SwitchIInv, RearmIInv, StayOffIInv, LogDecisionIInv
  DEF Work, LoopStep
<1>3. CASE Around
  BY <1>3, AroundIInv DEF Around
<1>4. CASE Time
  BY <1>4, HungTickIInv, TickIInv DEF Time
<1>5. CASE Die
  BY <1>5, CrashIInv DEF Die
<1>6. CASE Kill
  BY <1>6, KillIInv
<1>7. CASE Hang \/ StepClock \/ UNCHANGED hvars
  BY <1>7, StutterIInv DEF Hang, StepClock, hvars
<1> QED
  BY <1>1, <1>2, <1>3, <1>4, <1>5, <1>6, <1>7 DEF HealthNext

\* A loop that hangs, wherever it does, and the restarts that end it add no
\* fault the controller is not built for.
THEOREM HangingIsHarmless == HealthSpec => []IInv
<1>1. HealthInit => IInv
  BY InitIInv DEF HealthInit
<1> QED
  BY <1>1, HealthStepIInv, PTL DEF HealthSpec

\* In particular a hung process leaves no relay closed without its timer, and none
\* of its switches out of decision_log but one that it died in.
THEOREM HungButArmed == HealthSpec => [](Armed /\ AuditInStep)
<1>1. IInv => Armed /\ AuditInStep
  BY DEF IInv, Audit, AuditInStep
<1> QED
  BY <1>1, HangingIsHarmless, PTL

-----------------------------------------------------------------------------
(* The lease.                                                              *)

LEMMA HungTickLease == IInv /\ HungTick => [Lease!Next]_(Lease!vars)
<1> SUFFICES ASSUME IInv, HungTick PROVE Lease!Next \/ UNCHANGED Lease!vars
  OBVIOUS
<1>0. /\ hand' = hand /\ credit' = credit /\ cfg' = cfg
      /\ out' = (out /\ timer # 1)
      /\ timer' = (IF timer > 0 THEN timer - 1 ELSE 0)
  BY Zenon DEF HungTick, DeviceTick, Expires, loopVars
<1>1. CASE timer = 0
  <2>1. out' = out /\ timer' = timer
    BY <1>0, <1>1, OverrideFacts
  <2> QED
    BY <1>0, <2>1 DEF Lease!vars
<1>2. CASE timer > 0
  <2>1. out' = (timer > 1) /\ timer' = timer - 1
    BY <1>0, <1>2, OverrideFacts DEF IInv, Armed
  <2>2. Lease!Elapse
    BY <1>0, <1>2, <2>1 DEF Lease!Elapse
  <2> QED
    BY <2>2 DEF Lease!Next
<1> QED
  BY <1>1, <1>2, OverrideFacts

LEMMA HealthLeaseStep ==
    IInv /\ IInv' /\ [HealthNext]_hvars => [Lease!Next]_(Lease!vars)
<1> SUFFICES ASSUME IInv, IInv', [HealthNext]_hvars PROVE [Lease!Next]_(Lease!vars)
  OBVIOUS
<1>1. CASE HungTick
  BY <1>1, HungTickLease
<1>2. CASE Kill
  BY <1>2 DEF Kill, Lease!vars, relayVars, loopVars
<1>3. CASE [Next]_vars
  BY <1>3, LeaseStep
<1>4. HungTick \/ Kill \/ [Next]_vars
  BY DEF HealthNext, Begin, Work, LoopStep, Around, Hang, Time, Die, StepClock, hvars, Next
<1> QED
  BY <1>1, <1>2, <1>3, <1>4

\* The lease is kept by processes that hang, too: none of them renews the relay.
THEOREM LeaseKeptThroughHangs == HealthSpec => KeepsLease
<1>1. HealthInit => Lease!Init
  BY DEF HealthInit, Init, RelayInit, Lease!Init, Paused
<1> QED
  BY <1>1, HealthLeaseStep, HangingIsHarmless, PTL DEF HealthSpec, KeepsLease, Lease!Spec

-----------------------------------------------------------------------------
(* The probe.                                                              *)

\* The ticks a loop that works may take to its next beat, and most of all.
Due == IF pc = "sleep" THEN left + Busy ELSE left
Span == Loop + Busy

\* What the clock, as often as it was set, has cost: probes, and the age of a beat.
Allowed == clockSet * Span
SetBack == clockSet * Back

HealthTypes ==
    /\ hung \in BOOLEAN
    /\ age \in Int /\ age <= Late /\ 0 - SetBack <= age
    /\ fails \in 0..Failures
    /\ clockSet \in 0..ClockSets

\* Who works beats before the budget is used up; or the clock was set, and
\* every time it was has cost one beat's probes at most.
Punctual ==
    /\ hung = FALSE /\ pc = "down" => fails = 0
    /\ hung = FALSE /\ pc # "down" =>
          /\ fails <= Allowed
          /\ age + Due <= Budget \/ fails + Due <= Allowed

PInv == HealthTypes /\ Punctual

LEMMA Bounds ==
    /\ Loop \in Nat /\ Busy \in Nat /\ Span \in Nat /\ Busy <= Span
    /\ Budget \in Nat /\ Span <= Budget /\ Late = Budget + 1
    /\ Failures \in Nat /\ Back \in Nat /\ ClockSets \in Nat
  BY HealthAssumption DEF Span, Late

LEMMA Patience == ClockSets * Span < Failures
  BY HealthAssumption DEF Span

LEMMA Products ==
    ASSUME NEW n \in 0..ClockSets, NEW k \in Nat
    PROVE  /\ n * k \in Nat /\ n * k <= ClockSets * k
           /\ (n + 1) * k = n * k + k /\ 0 * k = 0
  BY Bounds

LEMMA Costs ==
    ASSUME HealthTypes
    PROVE  /\ Allowed \in Nat /\ SetBack \in Nat
           /\ Allowed <= ClockSets * Span /\ SetBack <= ClockSets * Back
           /\ clockSet' = clockSet => Allowed' = Allowed /\ SetBack' = SetBack
           /\ clockSet' = clockSet + 1 =>
                 Allowed' = Allowed + Span /\ SetBack' = SetBack + Back
<1>1. clockSet \in 0..ClockSets /\ Span \in Nat /\ Back \in Nat
  BY Bounds DEF HealthTypes
<1>2. /\ clockSet * Span \in Nat /\ clockSet * Span <= ClockSets * Span
      /\ (clockSet + 1) * Span = clockSet * Span + Span
  BY <1>1, Products
<1>3. /\ clockSet * Back \in Nat /\ clockSet * Back <= ClockSets * Back
      /\ (clockSet + 1) * Back = clockSet * Back + Back
  BY <1>1, Products
<1>4. Span' = Span
  BY DEF Span
<1> QED
  BY <1>2, <1>3, <1>4, Zenon DEF Allowed, SetBack

LEMMA DueBounds == IInv => Due \in 0..Span /\ left \in Nat
  BY Bounds DEF IInv, TypeOK, Due, Span

LEMMA InitPInv == HealthInit => PInv
<1> SUFFICES ASSUME HealthInit PROVE PInv
  OBVIOUS
<1>1. pc = "down" /\ hung = FALSE /\ age = Late /\ fails = 0 /\ clockSet = 0
  BY DEF HealthInit, Init
<1>2. SetBack = 0
  BY <1>1, Bounds, Products DEF SetBack
<1>3. HealthTypes
  <2>1. age \in Int /\ age <= Late /\ 0 - SetBack <= age
    BY <1>1, <1>2, Bounds
  <2>2. fails \in 0..Failures /\ clockSet \in 0..ClockSets
    BY <1>1, Bounds
  <2> QED
    BY <1>1, <2>1, <2>2, Zenon DEF HealthTypes
<1>4. Punctual
  BY <1>1 DEF Punctual
<1> QED
  BY <1>3, <1>4 DEF PInv

\* A beat, at the start and after every cycle, opens a span of its own.
LEMMA BeatPInv ==
    ASSUME IInv', PInv, hung = FALSE, pc' = "sleep", age' = 0,
           UNCHANGED <<hung, fails, clockSet>>,
           fails <= Allowed
    PROVE  PInv'
<1>1. Due' \in 0..Span
  <2>1. PICK n \in 0..Loop : left' = n
    BY DEF IInv, TypeOK
  <2>2. Due' = n + Busy
    BY <2>1 DEF Due
  <2> QED
    BY <2>2, Bounds DEF Span
<1>2. Allowed \in Nat /\ SetBack \in Nat /\ Allowed' = Allowed /\ SetBack' = SetBack
  BY Costs DEF PInv
<1>3. HealthTypes'
  BY <1>2, Bounds DEF PInv, HealthTypes
<1>4. Punctual'
  <2>1. PICK n \in 0..Span : Due' = n
    BY <1>1
  <2>2. age' + Due' <= Budget
    BY <2>1, Bounds
  <2>3. fails' <= Allowed' /\ pc' # "down"
    BY <1>2
  <2> QED
    BY <2>2, <2>3, Zenon DEF Punctual
<1> QED
  BY <1>3, <1>4 DEF PInv

LEMMA WorkPInv == IInv /\ IInv' /\ PInv /\ Work => PInv'
<1> SUFFICES ASSUME IInv, IInv', PInv, Work PROVE PInv'
  OBVIOUS
<1>1. /\ hung = FALSE /\ UNCHANGED <<hung, fails, clockSet>>
      /\ age' = (IF pc' = "sleep" THEN 0 ELSE age)
  BY DEF Work, Beat, PInv, HealthTypes
<1>2. pc # "down"
  BY DEF Work, LoopStep, SkipCycle, Cycle, Switch, Rearm, StayOff, LogDecision
<1>3. Allowed' = Allowed /\ SetBack' = SetBack
  BY <1>1, Costs DEF PInv
<1>4. CASE pc' = "sleep"
  BY <1>1, <1>2, <1>4, BeatPInv DEF PInv, Punctual
<1>5. CASE pc' # "sleep"
  <2>1. Cycle \/ Switch
    BY <1>5 DEF Work, LoopStep, SkipCycle, Rearm, StayOff, LogDecision, Sleep
  <2>2. pc' # "down" /\ Due' = Due
    <3>1. CASE Cycle
      BY <3>1, Bounds DEF Cycle, Due
    <3>2. CASE Switch
      BY <3>2 DEF Switch, Due
    <3> QED
      BY <2>1, <3>1, <3>2
  <2> QED
    BY <1>1, <1>2, <1>3, <1>5, <2>2 DEF PInv, HealthTypes, Punctual
<1> QED
  BY <1>4, <1>5

LEMMA TimePInv == IInv /\ PInv /\ Time => PInv'
<1> SUFFICES ASSUME IInv, PInv, Time PROVE PInv'
  OBVIOUS
<1>1. /\ fails < Failures /\ UNCHANGED <<hung, clockSet>>
      /\ age' = IF age < Late THEN age + 1 ELSE Late
  BY DEF Time, Sat
<1>2. pc' = pc /\ (hung = FALSE => Tick)
  BY DEF Time, HungTick, Tick
<1>3. /\ fails' = 0 \/ fails' = fails + 1
      /\ pc = "down" /\ hung = FALSE => fails' = 0
      /\ pc # "down" /\ age' <= Budget => fails' = 0
  <2>1. fails' = IF Alive' \/ (pc = "down" /\ ~hung) THEN 0 ELSE fails + 1
    BY DEF Time, Probe
  <2>2. Alive' <=> pc # "down" /\ age' <= Budget
    BY <1>2 DEF Alive
  <2> QED
    BY <2>1, <2>2, Zenon
<1>4. /\ Allowed' = Allowed /\ SetBack' = SetBack /\ Allowed \in Nat /\ SetBack \in Nat
  BY <1>1, Costs DEF PInv
<1>5. age \in Int /\ fails \in Nat /\ age <= Late
  BY Bounds DEF PInv, HealthTypes
<1>6. HealthTypes'
  BY <1>1, <1>3, <1>4, Bounds DEF PInv, HealthTypes
<1>7. Punctual'
  <2>1. CASE hung = FALSE /\ pc # "down"
    <3>1. Due' = Due - 1 /\ Due' \in Nat /\ Due \in Nat
      BY <1>2, <2>1, Bounds, DueBounds DEF Tick, Due
    <3>2. fails <= Allowed /\ (age + Due <= Budget \/ fails + Due <= Allowed)
      BY <2>1 DEF PInv, Punctual
    <3>3. fails' <= Allowed /\ (age' + Due' <= Budget \/ fails' + Due' <= Allowed)
      <4>1. CASE age + Due <= Budget
        <5>1. age' = age + 1 /\ age' <= Budget
          BY <1>1, <1>5, <3>1, <4>1, Bounds
        <5>2. fails' = 0
          BY <1>3, <2>1, <5>1
        <5> QED
          BY <1>4, <1>5, <3>1, <4>1, <5>1, <5>2, Bounds
      <4>2. CASE fails + Due <= Allowed
        <5>1. CASE fails' = 0
          BY <1>4, <1>5, <3>1, <4>2, <5>1
        <5>2. CASE fails' = fails + 1
          BY <1>4, <1>5, <3>1, <4>2, <5>2
        <5> QED
          BY <1>3, <5>1, <5>2
      <4> QED
        BY <3>2, <4>1, <4>2
    <3> QED
      BY <1>1, <1>2, <1>4, <2>1, <3>3 DEF Punctual
  <2>2. CASE ~(hung = FALSE /\ pc # "down")
    BY <1>1, <1>2, <1>3, <2>2 DEF Punctual
  <2> QED
    BY <2>1, <2>2
<1> QED
  BY <1>6, <1>7 DEF PInv

LEMMA StepClockPInv == IInv /\ PInv /\ StepClock => PInv'
<1> SUFFICES ASSUME IInv, PInv, StepClock PROVE PInv'
  OBVIOUS
<1>1. /\ clockSet' = clockSet + 1 /\ clockSet < ClockSets
      /\ age' \in {Late, age - Back}
      /\ pc # "down" /\ UNCHANGED <<hung, fails>> /\ pc' = pc /\ Due' = Due
  BY DEF StepClock, vars, Due
<1>2. /\ Allowed \in Nat /\ SetBack \in Nat
      /\ Allowed' = Allowed + Span /\ SetBack' = SetBack + Back
  BY <1>1, Costs DEF PInv
<1>3. HealthTypes'
  BY <1>1, <1>2, Bounds DEF PInv, HealthTypes
<1>4. Punctual'
  <2>1. CASE hung = FALSE
    <3>1. fails <= Allowed /\ Due \in 0..Span
      BY <1>1, <2>1, DueBounds DEF PInv, Punctual
    <3>2. fails' <= Allowed' /\ fails' + Due' <= Allowed'
      BY <1>1, <1>2, <3>1, Bounds DEF PInv, HealthTypes
    <3> QED
      BY <1>1, <3>2 DEF Punctual
  <2>2. CASE hung # FALSE
    BY <1>1, <2>2 DEF Punctual
  <2> QED
    BY <2>1, <2>2
<1> QED
  BY <1>3, <1>4 DEF PInv

LEMMA GonePInv ==
    ASSUME PInv, Gone, pc' = "down"
    PROVE  PInv'
<1>1. SetBack' = SetBack /\ SetBack \in Nat
  BY Costs DEF PInv, Gone
<1>2. age' = Late /\ fails' = 0 /\ clockSet' = clockSet /\ hung' = FALSE
  BY DEF Gone
<1>3. HealthTypes'
  <2>1. age' \in Int /\ age' <= Late /\ 0 - SetBack' <= age'
    BY <1>1, <1>2, Bounds
  <2>2. fails' \in 0..Failures /\ clockSet' \in 0..ClockSets
    BY <1>2, Bounds DEF PInv, HealthTypes
  <2>3. Late' = Late
    BY DEF Late
  <2> QED
    BY <1>2, <2>1, <2>2, <2>3, Zenon DEF HealthTypes
<1>4. Punctual'
  BY <1>2 DEF Punctual
<1> QED
  BY <1>3, <1>4 DEF PInv

LEMMA PStep == IInv /\ IInv' /\ PInv /\ [HealthNext]_hvars => PInv'
<1> SUFFICES ASSUME IInv, IInv', PInv, [HealthNext]_hvars PROVE PInv'
  OBVIOUS
<1>1. CASE Begin
  <2>1. /\ hung = FALSE /\ pc = "down" /\ pc' = "sleep" /\ age' = 0
        /\ UNCHANGED <<hung, fails, clockSet>>
    BY <1>1 DEF Begin, Start, Beat, PInv, HealthTypes
  <2>2. fails <= Allowed
    <3>1. fails = 0 /\ Allowed \in Nat
      BY <2>1, Costs DEF PInv, Punctual
    <3> QED
      BY <3>1
  <2> QED
    BY <2>1, <2>2, BeatPInv
<1>2. CASE Work
  BY <1>2, WorkPInv
<1>3. CASE Around \/ UNCHANGED hvars
  <2>1. UNCHANGED <<pc, left>> /\ UNCHANGED <<hung, age, fails, clockSet>>
    BY <1>3 DEF Around, PollRelay, PollFails, FlipByHand, SaveSettings, hvars, vars, healthVars
  <2>2. Due' = Due /\ Allowed' = Allowed /\ SetBack' = SetBack
    BY <2>1, Costs DEF PInv, Due
  <2> QED
    BY <2>1, <2>2 DEF PInv, HealthTypes, Punctual
<1>4. CASE Hang
  <2>1. UNCHANGED <<age, fails, clockSet>> /\ hung' = TRUE
    BY <1>4 DEF Hang
  <2> QED
    BY <2>1, Costs DEF PInv, HealthTypes, Punctual
<1>5. CASE Time
  BY <1>5, TimePInv
<1>6. CASE Die \/ Kill
  BY <1>6, GonePInv DEF Die, Crash, Kill
<1>7. CASE StepClock
  BY <1>7, StepClockPInv
<1> QED
  BY <1>1, <1>2, <1>3, <1>4, <1>5, <1>6, <1>7 DEF HealthNext

LEMMA ProbeInvariance == HealthSpec => [](IInv /\ PInv)
<1>1. HealthInit => IInv /\ PInv
  BY InitPInv, InitIInv DEF HealthInit
<1>2. IInv /\ PInv /\ [HealthNext]_hvars => (IInv /\ PInv)'
  BY HealthStepIInv, PStep
<1> QED
  BY <1>1, <1>2, PTL DEF HealthSpec

\* The probe restarts a process only when it hangs: neither slow cycles nor a wall
\* clock that jumps cost a working one its memory.
THEOREM WorkersAreLeft == HealthSpec => []LiveIsLeft
<1>1. IInv /\ PInv => LiveIsLeft
  <2>1. SUFFICES ASSUME PInv, fails = Failures, hung = FALSE PROVE FALSE
    BY DEF LiveIsLeft, PInv, HealthTypes
  <2>2. fails <= Allowed /\ Allowed <= ClockSets * Span /\ Allowed \in Nat
    BY <2>1, Costs, Bounds DEF PInv, Punctual
  <2>3. ClockSets * Span \in Nat
    BY Bounds, Products
  <2> QED
    BY <2>1, <2>2, <2>3, Bounds, Patience
<1> QED
  BY <1>1, ProbeInvariance, PTL

\* The types of the probe's variables.
THEOREM HealthTypeCorrect == HealthSpec => []HealthTypeOK
<1>1. PInv => HealthTypeOK
  <2>1. SUFFICES ASSUME PInv PROVE HealthTypeOK
    OBVIOUS
  <2>2. SetBack <= Back * ClockSets /\ SetBack \in Nat /\ Back * ClockSets \in Nat
    BY <2>1, Costs, Bounds DEF PInv
  <2> QED
    BY <2>1, <2>2, Bounds DEF PInv, HealthTypes, HealthTypeOK
<1> QED
  BY <1>1, ProbeInvariance, PTL

=============================================================================
