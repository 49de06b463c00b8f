------------------------------ MODULE Headroom ------------------------------
(***************************************************************************)
(* The loop that closes through the house.  In AUTO the controller decides *)
(* from measurements that its own decision changes: a heat pump that runs  *)
(* draws power, and what the house draws without it is only seen while it  *)
(* is off.  One step of time is a control cycle (LOOP_S); the exporter     *)
(* writes a row for every few of them (FLUSH_S); the relay obeys.          *)
(***************************************************************************)
EXTENDS Statemachine, BaseLoad

CONSTANTS
    Row,       \* the control_config row
    Weathers,  \* the conditions that may occur
    PerRow     \* how many control cycles a recorded minute sees at most

Conditions ==
    [prod : Nat,                    \* what the inverter produces
     house : Nat,                   \* what the house draws without the heat pump
     draw : Nat,                    \* what the heat pump draws when it runs
     sun : BOOLEAN,                 \* sun_elevation >= SUN_MIN_ELEVATION_DEG
     remaining : Nat \union {NULL}, \* _forecast_remaining
     metered : BOOLEAN,             \* the grid meter's readings arrive
     inverter : BOOLEAN]            \* the inverter answers

settings == Clamped(Row)

\* The heat pump draws no more than its estimate and the hysteresis together;
\* without sun nothing is produced that would switch it on.  A minute is no longer
\* than the minimum off-time.
ASSUME HeadroomAssumption ==
    /\ Row \in RawRows /\ settings.mode = "auto"
    /\ Weathers \subseteq Conditions
    /\ settings.min > 0
    /\ PerRow \in 1..MinOff
    /\ \A w \in Weathers :
          /\ w.draw - settings.nominal <= settings.min - settings.off
          /\ ~w.sun => w.prod - w.house <= settings.min

VARIABLES
    weather,  \* the conditions now
    shown,    \* production_w in /state, NULL when it is missing
    minute,   \* the exporter's buffer: surplus readings, their sum, cycles since it began
    rows,     \* what recent_household_samples would find, by age, NULL if nothing
    running,  \* history: cycles since the relay was off, up to Longest + 1
    relayOn, onStreak, offStreak, staleStreak, sinceOn, sinceOff   \* as in Controller

loopVars == <<relayOn, onStreak, offStreak, staleStreak, sinceOn, sinceOff>>
rowVars == <<minute, rows>>
vars == <<weather, shown, rowVars, running, loopVars, baseLoadVars>>

\* How long an estimate may outlive the relay's last cycle off.
Longest == Window + MaxStale + 1

NoReadings == [n |-> 0, sum |-> 0, cycles |-> 0]

TypeOK ==
    /\ weather \in Weathers
    /\ shown \in {NULL} \union {w.prod : w \in Weathers}
    /\ relayOn \in BOOLEAN
    /\ onStreak \in 0..OnDelay /\ offStreak \in 0..OffDelay /\ staleStreak \in 0..Grace
    /\ sinceOn \in 0..MinRun /\ sinceOff \in 0..MinOff
    /\ \A age \in Ages : {samples[age], rows[age]} \subseteq Nat \union {NULL}
    /\ held \in Nat \union {NULL} /\ heldAge \in 0..(MaxStale + 1)
    /\ minute \in [n : Nat, sum : Int, cycles : 0..(PerRow - 1)]
    /\ running \in 0..(Longest + 1)

Init ==
    /\ weather \in Weathers /\ shown = NULL
    /\ rows = [age \in Ages |-> NULL] /\ minute = NoReadings
    /\ relayOn = FALSE /\ running = 0
    /\ onStreak = 0 /\ offStreak = 0 /\ staleStreak = 0
    /\ sinceOn = MinRun /\ sinceOff = MinOff
    /\ BaseLoadInit

\* What the grid meter reads.
Surplus == weather.prod - weather.house - (IF relayOn THEN weather.draw ELSE 0)

SampleAnytime ==
    IF weather.metered /\ shown # NULL /\ shown - Surplus >= 0
    THEN shown - Surplus ELSE NULL

SampleSkewed ==
    IF weather.metered /\ shown # NULL /\ ~relayOn THEN shown - Surplus ELSE NULL

\* The household's draw by this cycle's reading.  The two measurements are not
\* taken at the same time: what cannot be is dropped.
Sample ==
    IF weather.metered /\ shown # NULL /\ ~relayOn /\ shown - Surplus >= 0
    THEN shown - Surplus ELSE NULL

\* The minute with this cycle's reading of the grid meter.
Gathered ==
    [n      |-> minute.n + (IF weather.metered THEN 1 ELSE 0),
     sum    |-> minute.sum + (IF weather.metered THEN Surplus ELSE 0),
     cycles |-> minute.cycles + 1]

\* The household's draw by the minute's row: the production last shown less the
\* mean surplus, next to the position the relay has at its end.
Drawn(gathered) == shown * gathered.n - gathered.sum     \* times n

Recorded ==
    IF Gathered.n > 0 /\ shown # NULL /\ ~relayOn' /\ Drawn(Gathered) >= 0
    THEN Drawn(Gathered) \div Gathered.n ELSE NULL

RowsWith(row) == [age \in Ages |-> IF age = 0 THEN row ELSE rows[age - 1]]

MinuteGoesOn ==
    /\ Gathered.cycles < PerRow
    /\ minute' = Gathered /\ rows' = RowsWith(NULL)

\* Its row is written, or is missed: in an outage, or with a restart of the exporter.
MinuteEnds ==
    /\ minute' = NoReadings
    /\ \E row \in {Recorded, NULL} : rows' = RowsWith(row)

Reading ==
    IF weather.metered
    THEN Classified(settings, weather.remaining,
             Available(settings, Surplus, shown, Estimate', relayOn, weather.sun))
    ELSE "blind"

\* run_cycle, with the time until the next one.
Cycle ==
    /\ Observe(Sample)
    /\ onStreak' = OnStreak(onStreak, Reading)
    /\ offStreak' = OffStreak(offStreak, Reading)
    /\ staleStreak' = StaleStreak(staleStreak, Reading)
    /\ relayOn' = Decide([mode |-> settings.mode, manualOn |-> FALSE], relayOn,
                         onStreak', offStreak', sinceOn, sinceOff,
                         FreshForDecide(Reading, staleStreak')).target
    /\ sinceOn' = IF relayOn' /\ ~relayOn THEN Sat(0, MinRun) ELSE Sat(sinceOn, MinRun)
    /\ sinceOff' = IF relayOn /\ ~relayOn' THEN Sat(0, MinOff) ELSE Sat(sinceOff, MinOff)
    /\ running' = IF ~relayOn' THEN 0
                  ELSE IF running > Longest THEN running ELSE running + 1
    /\ MinuteGoesOn \/ MinuteEnds
    /\ UNCHANGED <<weather, shown>>

NoSamples == [age \in Ages |-> NULL]

\* _backfill_baseload: the recorded minutes stand in for the samples, each from its
\* beginning, when they can be read.
Backfill ==
    \/ \E since \in 0..(PerRow - 1) :
          samples' = [age \in Ages |-> IF age >= since THEN rows[age - since] ELSE NULL]
    \/ samples' = NoSamples

\* The process is started again at once: the relay stays where it is, the log
\* knows the last switches, what was held and counted is lost.
Restart ==
    /\ Backfill /\ held' = NULL /\ heldAge' = MaxStale + 1
    /\ onStreak' = 0 /\ offStreak' = 0 /\ staleStreak' = 0
    /\ UNCHANGED <<weather, shown, rowVars, running, relayOn, sinceOn, sinceOff>>

\* The exporter polls the inverter; a value it cannot renew is dropped.
PollInverter ==
    /\ shown' = IF weather.inverter THEN weather.prod ELSE NULL
    /\ shown' # shown
    /\ UNCHANGED <<weather, rowVars, running, loopVars, baseLoadVars>>

Change ==
    /\ weather' \in Weathers \ {weather}
    /\ UNCHANGED <<shown, rowVars, running, loopVars, baseLoadVars>>

Next == Cycle \/ PollInverter \/ Change \/ Restart

Spec == Init /\ [][Next]_vars /\ WF_vars(Cycle) /\ WF_vars(PollInverter)

-----------------------------------------------------------------------------
(* Properties                                                              *)

\* The heat pump's own draw does not make the controller hunt: under conditions
\* that stay as they are the relay comes to rest, on or off.
Settles == <>[][~Change /\ ~Restart]_vars => <>[]relayOn \/ <>[]~relayOn

\* After sunset the heat pump does not pay for itself: a metered house without
\* production lets go of it.
NightReleases ==
    <>[](weather.prod = 0 /\ ~weather.sun /\ weather.metered) /\ <>[][~Restart]_vars
      => <>[]~relayOn

\* How far rows with the heat pump's draw in them lie apart at least, as each has
\* seen the relay open, and how many a window holds at most.
Spacing == MinOff + 2 - PerRow
Switches == Window \div Spacing + 1

\* The base load is the house's alone: no estimate exceeds what a house may draw
\* by more than the production the inverter's value may lag behind, though a minute
\* in which the heat pump was switched off counts as one without it.
Clean(load) == \E w, v, u \in Weathers : load <= w.house + v.prod - u.prod
BaselineClean == held # NULL => Clean(held)

\* It takes that much of the percentile: so many samples above its rank that those
\* with the heat pump's draw in them cannot fill it.
Robust ==
    \A n \in MinSamples..(Window + 1) : Rounded(Percent * (n - 1), 100) + Switches < n

\* A run that outlasts the window and the time an estimate is held ends the
\* estimate: no restart and no recorded minute makes it younger than the relay's last
\* cycle off.
HoldEnds == Estimate # NULL => running <= Longest

=============================================================================
