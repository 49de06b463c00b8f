# SunSteer in TLA+

SunSteer closes a heat pump's SG-Ready contact while a photovoltaic plant has
power to spare, and opens it otherwise. These modules model the parts of it that
decide, switch, measure and record. TLC checks them on small instances; TLAPS
proves the invariants for every value of the constants.

    tlc -config controller_faults.cfg MCController      # a run: its cfg and module are in PROJECT.json
    tlapm Controller_proofs.tla                          # the proofs of a module

## 1. The system

Four Python services, one TimescaleDB, one relay. Paths are below `src/services/`
unless they start with `src/`.

| Part | State it keeps | Operations | Talks to |
|---|---|---|---|
| **surplus-controller, loop** (`surplus-controller/src/main.py`, `dblog.py`, `state.py`) | `CycleState`: believed relay position, three streaks, the times of the last switches, last good settings; `_forecast_remaining` | `main` (start, seeding), `run_cycle` every `LOOP_S`, the loop's guard and sleep | reads `/state` of the exporter and `control_config`; commands the relay; writes `decision_log` |
| **decision** (`statemachine.py`, `decide_action`) | none | `decide`: mode, grace, delays, min runtime, min off-time | called by the loop |
| **relay and actuator** (`relays/shelly.py`) | in the device: contact, auto-off timer | `set` (with `toggle_after`), `get_state` | HTTP; somebody else may switch it too |
| **thresholds and settings** (`config.py`, `threshold.py`) | none | `clamp_config`, `adaptive_threshold`, `available_and_basis` | called by the loop |
| **base load** (`baseload.py`) | samples, last estimate and its time | `update`, `estimate` | called by the loop; filled from history at start |
| **forecast thread** (`main.py` `forecast_loop`, `forecast.py`) | remaining kWh, performance ratio | fetch, calibrate, publish | Open-Meteo, `pv_forecast`, `control_config` |
| **status server** (`status_server.py`, `reporting.py`, `metrics.py`) | last status, heartbeat | `beat` at the end of every cycle, `/status`, `/healthz` | the kubelet's probe, which restarts the process; control-ui |
| **energy-exporter, live state** (`energy-exporter/src/main.py`, `state_server.py`, `drivers/`) | `_latest`, two freshness stamps, the meter's socket | meter thread, relay poller, inverter poller, `/state` | multicast, HTTP, Modbus |
| **energy-exporter, history** (`main.py` `_flush_once`, `tsdb_writer.py`) | buffer, connection | one flush a minute: swap, connect, three writes | TimescaleDB |
| **control-ui, settings and mode** (`control-ui/src/app.py`, `sources.py`, `validation.py`, `templates/partials/settings.html`) | none of its own; the row and the browser's form | `GET /`, `POST /settings`, `POST /control` | `control_config` |
| **control-ui, views** (`app.py`, `sources.py`, `explain.py`, `i18n.py`) | a weather cache | journal, runtime, savings, harvest, today's balance, charts, texts | TimescaleDB, `/state`, `/status`, Open-Meteo |
| **heatpump-exporter** (`heatpump-exporter/src/`) | call budget (persisted), cooldown, backoff | poll within a budget, retry a connection | ViCare, TimescaleDB; nothing it does reaches the relay |

How the parts meet: the exporter's threads share one dictionary under a lock and
the controller reads it over HTTP once a cycle; operator and controller share one
row of `control_config`, the operator writing and the controller reading; the
controller's memory across restarts is `decision_log`, and the exporter's rows for
its base load; the views read the tables both services fill; the last defence is the
timer in the relay, which the loop must renew.

What is hard: the relay can move without the controller (timer, others), and the
controller learns of it from a poll of unknown age; every call of a cycle can fail
and each failure skips something else; the process can die between a switch and its
row in `decision_log`; the device may obey a command whose answer is lost; the
controller's decision changes the measurement it decides from; wall-clock stamps
stand for freshness; the database goes down in the middle of a flush, or a call to it
never returns while the HTTP thread answers on; the views join tables that are filled
at different moments. The list with
lines is `hazards` in PROJECT.json.

## 2. The modules

### Statemachine, Relay, RelayLease, Controller

`Statemachine` is `decide` with the streaks and the grace of `decide_action` and
`run_cycle`. A *reading* is what a cycle learns: `"blind"`, or how the available
surplus lies to the two thresholds. `Relay` is the device: contact, timer, and as
history how long the contact has not moved (`held`) and whether others closed it
(`hand`). `Controller` composes them with the process:

| in the model | in the code |
|---|---|
| `pc = "down"`, `Start`, `Crash` | `main()` up to its loop; the container dying at any point |
| `SkipCycle` | `live_conn` raises, the guard of the loop swallows it |
| `Cycle` (to `pc = "act"`) | `run_cycle` up to `decide_action`: settings, reading, grace, reconciliation with its row |
| `Switch`, then `LogDecision` | `relay.set`, then `write_decision` |
| `Rearm`, `StayOff` | the two other branches of the same `if` |
| `PollRelay`, `PollFails`, `view` | the exporter's poll, `shelly_on` and `shelly_reachable` |
| `SaveSettings`, `FlipByHand` | control-ui; app, SMA/ennexOS |
| `Tick` | time: in the sleep (`left` of `Loop`), within a cycle (`left` of `Busy`), always when down |

A cycle is cut where it waits for others, so that crashes, polls, flips and ticks
fall between its steps. `SetRelay` gives the three outcomes of an HTTP command:
done, lost, done with the answer lost. Which faults may happen is the constant
`Faults`.

`RelayLease` is the abstract specification: a closed relay is a lease that runs out,
and it may be closed or renewed only against *credit* from fresh measurements, or
under the manual override. A process starts with `Grace - 1` commands of credit
because `stale_streak` starts at 0: the bound on running blind holds for each
process, and one that crashes again and again is stopped by the delays, not by the
grace. `KeepsLease` is the refinement.

### Health

`Health` extends `Controller` by what happens when a call does not come back. psycopg2
is used without any timeout, so `Hang` may strike where the loop, or the start of the
process, talks to the database; `HungTick` is time that passes for everything but the
loop. `Beat` ends every cycle, the skipped ones too. `age` is what
`heartbeat_age()` would return: it grows with time, saturates beyond the budget, and
`StepClock` moves it, as somebody setting the wall clock does. `Probe` asks `/healthz`
once in a tick (`Alive`) and counts failures in a row; at `Failures` time
waits for the kubelet's `Kill`. The probe and the restart are those of `src/deploy/k8s`. The actions of
`Controller` are used as they are.

### Threshold, ConfigRow

`Threshold` has `clamp_config`, the adaptive threshold, the compensation and the
classification of a reading, in integers with NaN and NULL (`max` and `min` of
Python keep their behaviour on NaN; the ON-threshold is a fraction, so comparisons are
multiplied by `full_sun_ref_kwh`). `ConfigRow` has the row and its three writers
(the form, the mode buttons, an administrator's SQL) and its reader. `page` is the
form in the browser: `Shown` is what the template renders of a row (run times in
whole minutes), `PostSettings` answers with the form that was sent. `run` stands for
the four integer columns that are raised to a floor.

### BaseLoad, Headroom

`BaseLoad` is the rolling percentile, at most one sample per cycle, the percentile's rank
rounded half to even. `Headroom` closes the loop: surplus is what is produced, less
what the house draws, less the heat pump when the relay is closed; the controller
decides from it with `Statemachine`, `Threshold` and `BaseLoad`. The inverter's
value is polled by a process of its own and lags behind; weather, meter and inverter
change at will among `Weathers`. A recorded minute is up to `PerRow` control cycles long
(`LOOP_S` is 15 s, rows and buckets are a minute): `minute` gathers the meter's readings,
and `MinuteEnds` writes a row of their mean next to the relay's position at its end, or
misses it, in an outage or with a restart of the exporter. `rows` has what was written, at
the age it was written at. `Restart` is a new process that backfills its samples from them
(`_backfill_baseload`), each dated at the beginning of its minute or later, or from
nothing when the database does not answer; streaks and held estimate are lost, the relay's
position and last switches come back from device and log. So an estimator that was warm
may restart cold: ten recorded minutes are ten samples where the process had forty, and
`estimate` wants twenty. `running` is history: how long the relay has been on.

### LiveState

The meter thread with its socket (joined, closed, or *deaf*: the membership dropped
without a word), the pollers, the stamps and `/state` as `normalize_state` reads it.
The wall clock may be set back by `MaxStep` between two telegrams. Of the values
only the relay's position matters; of the others, when they were measured. A
datagram of another sender restarts the receive timeout (`StrayDatagram`).

### History

The flusher as the code runs it: swap the buffer, take the pollers' last values,
connect (ping, replace a dead connection), write meter, strings, heat pump. The
database goes down and comes back at any moment, the process dies at any moment. One
telegram is followed through; `draw` says whether the heat pump could draw when it
was sent. `TakenForOff` is the reader of the rows: which minute
`recent_household_samples` will take for one without the heat pump.

### Views

What control-ui makes of three tables. The tables are filled as the services fill
them: `Switch`, `SwitchFails`, `Reconcile` write `decision_log`, or fail to; `Flush`
writes `energy_meter` and `heatpump`, both or one of them, with or without the inverter,
or nothing. Flushes are `FLUSH_S` and their own duration apart, because `run_guarded` sleeps
after each of them: `since` grows beyond `flushS`, `late` adds up by how much, and
`overrun` counts the minutes that ended meanwhile, which may be left without a row. (A
flush is shown at its end, as one step: its duration lies before it.) At the default
of 60 s every flush drifts, and a minute is skipped each time the drift has added up to
one. Time is counted in fractions of a minute, so that moves, polls and flushes fall
between one another and a flush period shorter than the minute of the SQL's buckets
exists; power is counted in units that make a minute's mean a whole number. The queries
are operators on the tables: `Transitions` with the nearest `decision_log` row for the
journal (`recent_decisions`), counted rows for the runtime, the minute-wise join for
savings and harvest, sums of positive deltas for the balance. `real` is what truly
happened, `own` and `missed` what the journal could know. A *disturbance* is a move of
the relay, a change of the weather, a reset of the counter or a row that is not written:
the properties say how far a number may be off for each, and for the drift. `FlushSeconds`
takes what is between 1 and 3600 s, as `_flush_seconds` and the exporter's `_pos_int` do;
periods between a minute and an hour are left out of the settings (`Raws`).

### Forecast

The forecast thread: `Begin` (`live_conn`, `load_config`), `Compute` (who answers),
`Fit` (`fit_pr` over what `daily_production` finds), `WriteForecast`, `UpdatePr`. Of a
forecast only its age matters. The rows of `energy_meter` are an input: `History`
makes them of any sequence of `Intervals` between two rows, in each of which the
plant produces, the day may change and the counter may be reset; beside the counter
each row carries what was really produced by then. `left` is the sleep, `calm` the
time since database and sources last failed.

### RateBudget, Vicare

`RateBudget` is the rolling window of calls with its file: a budget is a number of
calls per age, and what reaches the age of the window counts no more. `Vicare` is the
exporter around it. `pc = "connect"` is `connect_with_retry`, which sleeps *inside* a
poll: the poll's `now` is `waited` ticks old when it checks the budget and records its
call, so `calls` stands still meanwhile and the call is dated `waited` back. The
vendor answers, limits (HTTP 429), fails or rejects the credentials. `Start` loads what can
be read of the file: all of it, nothing if it is missing or corrupt, or the entries that
`_coerce` keeps. Four variables are history only: `made`, the answered calls by their true
age; `slipped`, those of them that the budget forgot, in a crash or with a lost file, or
dated too early; `quiet`, the time since this process met a 429; and `late`, how old
the `now` was that the cooldown was counted from.

An operator that stands right before the one it resembles, such as
`AutoIgnoringRuntime` before `AutoWhileOn`, is a mutant: the same code with a
plausible mistake. PROJECT.json names for every property one such mistake that breaks it.

## 3. What is checked

| Run | States | Question and answer |
|---|---:|---|
| `controller_faults` | 374 k | All six faults at once. The relay is closed only on a lease (`KeepsLease`), always with its timer running (`Armed`), and `decision_log` is in step with the belief unless a row was lost (`AuditInStep`). |
| `controller_nominal` | 78 k | Nothing fails but readings, and the settings change. The watchdog never cuts off a live controller (`HeldUp`); the contact keeps `min_offtime_s` and `min_runtime_s` physically, less the duration of a cycle (`CompressorRests`, `CompressorRuns`). |
| `controller_live` | 143 k | Lost commands, changing settings, crashes, calls that never return, a wall clock that is set, and the probe, under fairness. Lasting blindness and a lasting pause open the relay for good, lasting surplus keeps closing it; a hung process is restarted (`HungIsRestarted`) and one that works never is (`LiveIsLeft`). |
| `config_row` | 392 k | Whoever writes the row, the loaded settings are safe, and what the operator saved is what the controller runs on. |
| `headroom` | 594 k | The heat pump's draw does not make the controller hunt (`Settles`), does not enter the base load (`BaselineClean`), and does not hold the relay after sunset (`NightReleases`); a run longer than the window ends the estimate, restarts and backfills or not (`HoldEnds`). |
| `live_state` | 122 k | Fresh means measured, served means produced, reachable means where it is; silence is noticed; the meter thread recovers. |
| `history` | 493 k | A telegram is counted once at most; a minute is lost only to an outage during its own flush or a restart; recording resumes; a minute the relay was open in gives the backfill the house alone. |
| `views` | 1.45 M | The journal names the controller's reason for the controller's switch (`JournalTells`); runtime and its energy (`RuntimeHonest`), savings and harvest (`SavingsHonest`) and today's balance (`TodayIsReal`) stray from what happened by no more than a flush or a minute for every disturbance, once more, and what flushes cost that take their time: around midnight too, whether flushes divide the minute or not. |
| `forecast` | 251 k | A failed cycle is made up for within the backoff (`RenewedSoon`), a day's measured production is what the plant produced whatever the counter does (`MeasuredIsReal`), the written ratio is a plausible one (`PlausibleRatio`). |
| `vicare` | 55 k | Answered calls stay within the cap over any number of processes, but for those that slipped (`WithinCap`); after a 429 nothing is asked for a cooldown less the age of the poll that met it, and for a poll period in any case (`QuietAfterLimit`); rejected credentials end the process (`RejectionShows`); telemetry comes back (`TelemetryReturns`). |

Two runs show the code to differ from what the repository says of it:

- `viol_outage`: `main.py:404` promises "skip cycle + keep re-arming the watchdog"
  in a database outage. The cycle is skipped before anything is re-armed, so the
  watchdog opens the relay of a controller that lives and wants it on.
- `viol_form`: the box for the adaptive threshold is ticked in the answer to every
  save, so the next save turns on what the operator turned off.

Eight differences met while modelling have no run of their own:

- `main.py:57` retries "well before the full refresh interval so a transient hiccup
  can't strand the adaptive threshold". A cycle in which no source answers raises nothing,
  returns None and sleeps the full interval (`main.py:221`). `RenewedSoon` allows it that.
- `CompressorRests` is checked and proved without crashes. With them it fails:
  `main.py:387` restores the guards "from the REAL last switch times", but
  `decision_log` knows neither the watchdog's opening while the process was dead nor a
  switch it died before logging, so the compressor may start early.
- `SeedsClean` speaks of minutes the relay did not move in. `baseload.py:4` has the
  base load "sampled ONLY while the heat-pump relay is OFF"; a minute the relay opened
  in is recorded with its last position and seeded with the heat pump's draw.
  `BaselineClean` holds all the same as long as the percentile leaves room for such
  minutes (`Robust`), as the default median does with an off-time of 15 minutes; at a
  percentile of 95 a base load after a restart may hold the heat pump's draw.
- `sources.py` derives its divisors from `TSDB_FLUSH_SECONDS` so that any cadence counts
  right, and accepts up to an hour. The joins by `date_trunc('minute')` are right up
  to a minute; beyond, minutes between two rows are in no bucket. `Views` assumes
  periods up to a minute.
- `vicare.py:132` says "stay quiet after a 429 — don't hammer the API". The cooldown is
  counted from the `now` of the poll's beginning (`vicare.py:145`), which is older than
  the 429 by all that `connect_with_retry` slept: after a connection that took longer than
  the cooldown it is over before it begins, and the vendor is asked again one `POLL_S` later.
  `QuietAfterLimit` allows for it by `late`, and no more.
- `ratebudget.py:2` has the calls "persisted so a restart does NOT grant a fresh daily quota",
  and the comment at line 24 keeps a single bad element from granting one; a missing,
  unreadable or corrupt file grants one all the same (line 22). `WithinCap` counts the
  forgotten calls among those that slipped.
- `sources.py:593` and the divisors take a row for `TSDB_FLUSH_SECONDS` of time; it stands
  for that and the duration of a flush. Runtime falls behind by as much (`late` in
  `RuntimeHonest`), and at 60 s minutes drop out of the savings (`overrun` in
  `SavingsHonest`). 50 ms a flush are a minute in 20 hours.
- `app.py:404` takes `or 0.30` for "present but NULL"; a configured price or tariff of 0
  becomes the default, too. Prices are not in the models.

### Bounds

- *Time.* A tick is longer than the exporter's relay poll (`SHELLY_POLL_S`), which is
  why `Tick` waits for a view that lags unless polls may fail. Ages saturate where no
  comparison can tell them apart (`MinRun`, `MinOff`, `Grace`, the delays). The
  instances keep the order of the real values: `AutoOff > Loop + 2 Busy` where the
  run needs it, `HeldCap >= MinRun, MinOff`, `Grace` 2 (the default) and 3, off-times
  longer and shorter than the watchdog.
- *`AutoOff`.* `validate_env` asks for more than `LOOP_S` only. The proofs show
  that more than a sleep and two cycle durations is enough; a watchdog just above
  `LOOP_S` is not.
- *Health.* `Budget` is a sleep and a cycle, the least a loop at work needs;
  `HEARTBEAT_BUDGET_S` is at least four sleeps. `ClockSets` bounds how often the wall
  clock is set, `Back` how far back; one setting in either direction is enough to fail a
  healthy process's probe and to hide a hung one. `Failures` is 3 as deployed, more
  than the probes one setting can cost.
- *Settings.* `config_row` uses numbers up to 5 with the floors and caps among them,
  NaN, text, and rows only SQL can leave: below zero, crossed, zero, NaN.
- *Headroom.* One unit is 500 W; a window of three samples, two of which make an
  estimate, covers filling, eviction, holding (for one cycle) and expiry of the estimate,
  and a restart at any point of them. A minute is two cycles. The window sees one switch
  that opened the relay, and the median of its samples is `Robust`; longer windows with more
  switches, and longer minutes, are left to the proofs.
- *Views.* A minute is three ticks. Midnight falls after the first and the tables are
  filled for a minute and two thirds more (`Midnight`, `Horizon`), with flush periods of
  a minute and of two thirds of one, which puts one row into a minute or two, from
  settings that are missing, zero, given, or beyond the hour that is taken; shorter ones
  that divide it are the proofs'. `Lateness` 2 lets one flush come two ticks late or two
  of them one, past the end of a minute and past midnight. Two `Disturbances` are two of them anywhere: a
  switch and a lost row, a failed attempt and a foreign switch, a reset and a cloud. The
  run ends at the horizon, and so does not check for deadlock.
- *Forecast.* The backoff is one tick and the refresh interval two, the least at which
  they differ; two intervals make histories of three rows: a day's first row with and
  without one before it, a reset at, before and after midnight. Ratios are exact
  fractions below, within and above the band.
- *Vicare.* A tick is a poll period. Cap, window, cooldown and backoffs are two to
  four, longer and shorter than one another as the real ones are. `SlipBound` bounds
  crashes and lost files: the process may die, and its file be lost, while fewer calls of a
  window have slipped the persisted budget; `WithinCap` allows for exactly those calls.
- *LiveState, History.* Limits of 1 and 2 ticks, two telegrams a minute: each limit
  is reached, passed and missed, and buffers are empty, partly filled and full.

Every type invariant is proved; the runs of `Headroom`, `Forecast` and `Views` check
theirs too.

### Fairness

`Controller` with `Health`: the loop thread runs, the process is restarted when it dies,
the poll runs, the kubelet restarts what it has given up (weak fairness: each is a loop of
its own thread with timeouts on its calls, or the kubelet's), and time passes however
often the process dies (strong fairness of `Time`, which a crash disables for an
instant). A loop that hangs is no exception to it: while it hangs its step is not
enabled, and only the probe ends that. No fairness on faults or on operators, none on a
command getting through: `SurplusIsUsed` assumes that in its premise.
`Headroom`: cycles and inverter polls go on; the premise of each property says which
conditions last, and that restarts end. `LiveState`: every thread runs, and a meter that
is up sends. `History`: the flusher runs and a meter sends; the database's return is in
the premise. `Vicare`: the process runs and is started again, and time passes; what the
vendor and the database do is in the premises.

## 4. What is proved

Eight modules of proofs; every theorem is about the specifications above with their
constants arbitrary within the named assumptions.

- **`Controller_proofs`** The invariant `IInv` strengthens the checked ones with
  what the control state implies: which decisions can be pending at which `pc`, that
  a decision to close or hold in AUTO has credit left (credit is tied to
  `staleStreak` by the grace), that a switch under way is a change, and that the
  audit log tells the belief with the pending row taken into account. From it:
  `TypeCorrect`, `AlwaysArmed`, `AuditFaithful`, and `LeaseKept`, the refinement of
  `RelayLease`. They hold with every fault.
  Under `Nominal` (only the settings change, and
  `AutoOff > Loop + 2 * Busy`) belief and contact agree outside of a pending switch,
  the timer outlasts what is left until the next command, and the controller's
  ages are at most the contact's plus the cycle's duration. From it: `NeverCutOff`,
  `RestsEnough`, `RunsEnough`. `viol_outage` shows that the assumption on faults is
  needed.
  Of `Health`: `IInv` survives hanging, killing and a clock that is set, for
  `Hang` and `StepClock` touch nothing of the loop, `HungTick` ages the device only and
  `Kill` is a crash (`HangingIsHarmless`, `HungButArmed`), and every one of these steps is
  one of `RelayLease` (`LeaseKeptThroughHangs`). `WorkersAreLeft` needs an invariant of
  its own, `PInv`: while the loop works, the ticks it may still take to its next beat
  fit into what is left of the budget, or, after a setting of the clock, into what is
  left of the probe's tolerance, counted down for every setting. It rests on
  `Budget >= Loop + Busy` and `Failures > ClockSets * (Loop + Busy)`.
- **`Headroom_proofs`** A recorded minute in which the relay was opened carries the heat
  pump's draw in its mean (*spoilt*). The invariant `HInv` says that two of them lie at
  least `Spacing` apart, the minimum off-time less what a minute may hide of it, because the
  relay rested between the two openings, so that a window has at most `Switches`; that
  every other row and sample is the house's; and that a sample, a row or a held estimate is
  no younger than the relay's last cycle off. From the last `EstimatesEnd`.
  `BaseLoadIsTheHouse` has a counting argument on top: the rank of the percentile leaves
  more samples at or above the estimate than can be spoilt (`Robust`), so one of those is the
  house's.
- **`ConfigRow_proofs`** Of `Threshold`: `ClampedSafe`: any row at all, NULLs and NaNs
  included, is clamped to ordered thresholds and floors. `NeverCrossed`: with a
  minimum above 0 no reading is above the ON- and below the OFF-threshold. Only a
  minimum of 0 lets a reading be `"crossed"`; `Controller` is checked and proved with
  such readings too. Of `ConfigRow`: `AlwaysSafe`, from `ClampedSafe` and the types of
  the row: the form and the buttons write only rows. `OperatorIsObeyed`: until somebody
  else writes it the row holds an accepted form and the chosen mode, and `clamp_config`
  leaves alone what lies within the bounds of `validate_settings`.
- **`LiveState_proofs`** A stamp understates an age by no more than the clock was
  set back, and the view is wrong only between a switch and the next poll. From it
  the three invariants of `/state` and the types; that silence is noticed and the meter
  thread recovers is left to TLC.
- **`History_proofs`** The followed telegram is in one place: buffer, flush, table,
  or lost with an excuse. From it `RecordsOnce` and `LosesOnlyInOutage`. While the relay
  has not moved every telegram in the buffer was sent in its present position, and the
  samples of a still minute with the relay open: `SeedsStayClean`.
- **`Vicare_proofs`** `QInv`: the time since the last 429, what its poll had waited when it
  met it (`late`), and what is left of the cooldown (asleep) or of the sleep (connecting)
  together make a cooldown. From it `StaysQuiet`. It rests on
  `Cooldown <= MaxBackoff + 1`: the backoff of a limited attempt with the poll period
  is no shorter than the cooldown. `VicareTypeCorrect` keeps sleeps and backoffs within
  their caps.
  `BudgetIsKept` compares three budgets age by age: the calls the vendor answered
  are covered, age for age, by those the exporter remembers and those that slipped, and
  likewise by those in the file; each of the three ages alike. Loading part of a file
  moves what is missing from the second to the third.
- **`Forecast_proofs`** A sleep ends before the forecast is too old, or before the calm
  has outlasted the backoff (the refresh interval for a cycle no source answered).
  From it `MadeUpSoon`. `MeasurementIsReal` rests on what makes a history of the meter:
  each row follows from the one before by an interval of the plant (`RowAfter`), a
  relation that telescopes over the rows of a day by induction on their number.
  `WrittenRatioPlausible`: a median or mean of plausible ratios is plausible; the sums of
  days keep the band because each day's measured and potential production does.
- **`Views_proofs`** `JournalIsRight`: while nobody has moved the relay since a logged
  move, its row is the latest decision for its position, every row of `heatpump` since
  shows that position, and the first of them came within a flush (`OwnMove`, `Recorded`).
  `RuntimeIsHonest` keeps a ledger of two days: at the last flush the counted rows of a
  day differ from the time the relay was on by a flush for every disturbance *so far* and
  by what was late by then, the flush that midnight fell into apart (`Settled`); since that flush the relay has not moved,
  or there was a disturbance no row was charged for yet (`Running`). Each flush settles what
  was running.
  `BalanceIsReal` keeps books per counter and day: what was produced is what the positive
  deltas of the rows count, what has come since the latest row, and what was lost; a
  reset or a row that is not written is charged a period's production once (`Charged`). The
  counter still tells what came since the latest row unless it was reset, and then a
  disturbance is left to be charged. A sum of positive deltas is the number of units the
  counter ticked off between consecutive rows (`Units`), so a row that is appended adds a
  disjoint set.
  `SavingsAreHonest` goes minute by minute (`SavingsInv`). A row counts for the minute it
  is written in, though its readings began before: the closed minutes of a day are `Ahead`
  of what was true by the `Lead` of the open minute's first row. While nothing happens
  and flushes are in time the books are calm (`CalmBook`): every row of the open minute
  and every reading since the last one is the same, what a minute shows is what is going on
  (`ShownOfSame`: the nominal power that the meter has deducted is added back), and it
  closes as far ahead as it opened. A disturbance makes them loose (`LooseBook`): the open
  minute may have any mean up to the nominal power, and its time gone by any rate; that
  costs one `Bound`, a minute and a flush, and further disturbances in the same minute
  none. A minute that ends while a flush is late costs one too, whether it gets a row or
  none (`Marks` counts both). The next minute starts calm. The time before the very first
  row is what the bound's last part is for. The sums are the library's fold, which the
  lemmas under "Sums" take apart element by element.

Induction is to be had without the library's operators as parameters: a least element
of a set of naturals (`Least` in `Forecast_proofs` and `Views_proofs`), hence induction over
numbers and finite sets given as *sets* of the elements in question.

The types of every state machine are theorems (`TypeCorrect`, `HealthTypeCorrect`,
`ConfigTypeCorrect`, `HeadroomTypeCorrect`, `LiveTypes`, `HistoryTypeCorrect`,
`VicareTypeCorrect`, `ForecastTypeCorrect`, `ViewsTypeCorrect`).

Model-checked only: everything under fairness (`BlindLetsGo`, `PauseLetsGo`,
`SurplusIsUsed`, `HungIsRestarted`, `Settles`, `NightReleases`, `SilenceBlinds`,
`MeterReturns`, `HistoryReturns`, `RejectionShows`, `TelemetryReturns`), because the
prover has neither fairness nor ENABLED. Every invariant and every action property a run
checks is a theorem.

## 5. Assumptions to know of

- `BaseLoadIsTheHouse` assumes `Robust`: more samples at or above the percentile's rank
  than a window sees switches. The defaults fulfil it: an hour sees five openings at most, with 15
  minutes of off-time between them, and of 20 samples the median leaves nine above. `clamp_config`
  admits settings that do not, a percentile of 95 or an off-time of 5 minutes among them.
- `Headroom` assumes that the heat pump draws no more than its estimate plus the
  distance of the thresholds, that nothing is produced without sun, and that the
  relay obeys. Without the first the loop does hunt. `NightReleases` asks for a
  metered night: readings that alternate between blind and fresh reset the OFF-streak
  each time.
- `FreshIsMetered` states the slack of a clock set back; a consumer accepts negative
  ages. A clock set forward only makes things stale sooner.
- `OperatorObeyed` leaves out forms with NaN in them, which `validate_settings`
  accepts: the clamp makes the base threshold 0 of it. The settings stay safe.
- A blind hold in the grace re-arms with a full ON: if the watchdog or
  somebody else has opened the relay meanwhile, it is closed again. `RelayLease`
  allows it while there is credit.
- With a minimum threshold of 0 `clamp_config` leaves the OFF-threshold as it is (the
  comment at `config.py:49` speaks of "off == min == 0"): it may lie above the
  effective ON-threshold. `Safe` demands order only for a minimum above 0.
- `WithinCap` counts calls that were answered. Calls that fail and the calls of the
  discovery (`auth.py:10`) are left out of the budget on purpose.
- `QuietAfterLimit` is about one process: the cooldown is not persisted, so a process
  started anew asks at once. And it grants the code its stale `now` (section 3).
- `HoldEnds` bounds how long an estimate lasts, not how soon there is one: nothing in the code
  keeps a warm estimator warm over a restart, with a row a minute and 20 samples
  wanted.
- `RenewedSoon` takes a cycle of the forecast thread to be over within a tick: its
  fetches time out after 20 s each, the backoff is 300 s.
- The rows of one flush have one time and belong together (`_flush_once`).
- A settings page opened while the database is down shows the template's numbers;
  `OperatorObeyed` takes what was in the saved form for what was asked.
- `HungIsRestarted` bounds how often the clock is set: one set back before every probe
  would hide a hung loop for ever. `LiveIsLeft` needs `Failures` above what the settings
  of the clock can cost; a probe with fewer, or a clock that jumps forward in cycle after
  cycle, restarts a healthy controller.
- `Views` follows the database's calendar: the queries truncate by the session's time
  zone, `docs/setup.md:34` gives `PV_TZ` for "day boundaries". The model has one midnight.
- `SavingsHonest` is about a heat pump that draws its nominal power: nothing meters it, and
  the views cannot know more. Midnight begins a minute (`MidnightAssumption`), as it does
  in every time zone; with one inside a minute the first bucket of a day is
  attributed to the day before.
- A disturbance costs `SavingsHonest` a minute and a flush, not just a minute: where flushes
  do not divide a minute, minutes hold more rows and fewer, and a row of the one before
  counts for the next. `wp_savings` calls its sums independent of the flush cadence
  (`sources.py:371`); their scale is, their grain is not.
- `JournalTells` excepts a move whose row came more than `Match` after it, by a lost flush
  or a long one (`missed`): the query looks 90 seconds around the row.
- `RuntimeHonest` and `SavingsHonest` speak of flush periods up to a minute
  (`ViewsAssumption`) and grow with `late` and `overrun`: over months the drift of the flush
  period has no bound, and neither has what the views make of it.
- `TodayIsReal` takes the plant to have a most it produces in a tick (`Max(Headrooms)`),
  as every plant's rated power is; the slack is counted in it.

## 6. Not modelled

Decoding of telegrams and registers, mock drivers, the sun's elevation, metrics and
status texts: pure functions and output; their outcome is an input of the models.
The live tiles, the weather cache (it hands on the last answer of Open-Meteo and serves
nothing else), texts and translations of control-ui, and those charts that select rows
without computing from them: no state that anything depends on. Authentication: the
configuration of one request. The numeric columns of `decision_log` and the euros, which
are the energies of `Views` times a price. Schema, retention and deployment, but for
the columns and the probe the code relies on.

## 7. Plan

Done, in this order because the relay is what can do harm: the control loop and its
lease; thresholds and settings; the closed loop; live state; history; the forecast;
the heat-pump exporter; the backfill of the base load as a restart in `Headroom`; the
heartbeat and its probe, composed with the loop; the views; the proofs of the operator's
settings, of the clean seeds, of the probe, of the types, of the base load across
restarts, of the vendor's budget, of measured production, of journal, runtime and
today's balance, of savings and harvest. Next:

1. **One exporter**: `History`'s rows as the tables of `Views`, in place of the rows
   `Flush` writes there.

Runs stay few: new modules take over the places of the instances that have
become redundant once their properties are proved.
