------------------------------ MODULE Forecast ------------------------------
(***************************************************************************)
(* The forecast thread of the surplus-controller: every FORECAST_S it      *)
(* fetches the sun's forecast, calibrates it against what the plant has    *)
(* produced, publishes what is left of the day and writes forecast and     *)
(* performance ratio to the database.  A tick is a fraction of             *)
(* FORECAST_FAIL_BACKOFF_S, and a cycle is over within one.                *)
(*                                                                         *)
(* Energies are in kWh; a ratio is a record of numerator and denominator.  *)
(* Of the forecast only its age matters.                                   *)
(***************************************************************************)
EXTENDS Integers, Sequences, FiniteSetsExt, Functions

CONSTANTS
    Refresh,    \* FORECAST_S
    Backoff,    \* FORECAST_FAIL_BACKOFF_S
    MinDays,    \* min_days of fit_pr
    Potentials, \* what the irradiance of a day may be worth
    Intervals,  \* what may happen between two rows of energy_meter
    Length,     \* bound: intervals of complete days
    Ratios,     \* what an administrator may set pv_performance_ratio to
    NULL

ASSUME ForecastAssumption ==
    /\ Refresh \in Nat /\ Backoff \in Nat \ {0} /\ Backoff <= Refresh
    /\ MinDays \in Nat \ {0}
    /\ Potentials \subseteq Nat
    /\ Intervals \subseteq [before : Nat, reset : BOOLEAN, after : Nat, days : Nat]
    /\ Length \in Nat
    /\ Ratios \subseteq [n : Nat, d : Nat \ {0}]
    /\ NULL \notin [n : Nat, d : Nat]

VARIABLES
    pc,        \* the thread: "sleep", "compute", "fit", "row", "ratio"
    left,      \* ticks of sleep left
    conn,      \* its connection: "none", "live", or "dead" without knowing
    current,   \* cfg["pv_performance_ratio"], as loaded
    table,     \* the rows of energy_meter daily_production finds
    estimate,  \* the ratio of this cycle's estimate, or NULL
    age,       \* of the published forecast; older than Refresh, or none, is Refresh + 1
    ratio,     \* control_config.pv_performance_ratio
    dbUp,      \* does the database answer?
    sources,   \* who answers: "gti" for every plane, "solar" for some, "none"
    calm,      \* history: ticks since the database or all sources failed, or a restart
    parked     \* history: no source answered the last cycle

threadVars == <<pc, left, conn, current, table, estimate>>
worldVars == <<dbUp, sources>>
vars == <<threadVars, age, ratio, worldVars, calm, parked>>

Fractions == [n : Nat, d : Nat \ {0}]
\* The counter as recorded, and as history what was really produced by then and
\* how often the counter had fallen.
MeterRows == [day : Nat, counter : Nat, total : Nat, resets : Nat]

TypeOK ==
    /\ pc \in {"sleep", "compute", "fit", "row", "ratio"}
    /\ left \in 0..Refresh /\ (pc # "sleep" => left = 0)
    /\ conn \in {"none", "live", "dead"}
    /\ current \in Fractions /\ estimate \in Fractions \union {NULL}
    /\ (pc = "ratio" => estimate # NULL)
    /\ age \in 0..(Refresh + 1) /\ ratio \in Fractions
    /\ dbUp \in BOOLEAN /\ sources \in {"gti", "solar", "none"}
    /\ table \in Seq(MeterRows)
    /\ calm \in 0..(Refresh + 1) /\ parked \in BOOLEAN

Percent(n) == [n |-> n, d |-> 100]

Init ==
    /\ pc = "sleep" /\ left = 0 /\ conn = "none"
    /\ current = Percent(70) /\ table = <<>> /\ estimate = NULL
    /\ age = Refresh + 1 /\ ratio = Percent(70)
    /\ dbUp \in BOOLEAN /\ sources \in {"gti", "solar", "none"}
    /\ calm = 0 /\ parked = FALSE

-----------------------------------------------------------------------------
(* Calibration                                                             *)

AtMost(r, s) == r.n * s.d <= s.n * r.d

\* _PR_MIN and _PR_MAX
Clamped(r) ==
    CASE ~AtMost(Percent(30), r) -> Percent(30)
      [] ~AtMost(r, Percent(100)) -> Percent(100)
      [] OTHER -> r

\* The row after the last one: the counter may be reset in between.
RowAfter(last, step) ==
    [day |-> last.day + step.days,
     counter |-> IF step.reset THEN step.after ELSE last.counter + step.before + step.after,
     total |-> last.total + step.before + step.after,
     resets |-> last.resets + (IF step.reset THEN 1 ELSE 0)]

\* What the plant and the exporter can have left of the complete days.
History(steps) ==
    LET row[i \in 1..(Length + 1)] ==
          IF i = 1 THEN [day |-> 0, counter |-> 1, total |-> 0, resets |-> 0]
          ELSE RowAfter(row[i - 1], steps[i - 1])
    IN row

\* The rows of a day that have one before.
Deltas(day) == {i \in DOMAIN table \ {1} : table[i].day = day}

MeasuredDays == {table[i].day : i \in DOMAIN table \ {1}}

\* The highest reading of the day less its lowest.
SpanOfDay(day) ==
    LET readings == {table[i].counter : i \in Deltas(day)}
    IN Max(readings) - Min(readings)

Gains == [i \in DOMAIN table \ {1} |-> Max({table[i].counter - table[i - 1].counter, 0})]

\* daily_production: the positive deltas of a day.
DailyProduction(day) == SumFunctionOnSet(Gains, Deltas(day))

\* Any day there is production for.
AnyDay(potential) ==
    {day \in MeasuredDays : potential[day] > 0 /\ DailyProduction(day) > 0}

\* The days whose ratio is between 0.4 and 0.85.
CleanDays(potential) ==
    {day \in MeasuredDays :
        /\ potential[day] > 0 /\ DailyProduction(day) > 0
        /\ 40 * potential[day] <= 100 * DailyProduction(day)
        /\ 100 * DailyProduction(day) <= 85 * potential[day]}

\* fit_pr, or the ratio in force while there are too few such days.
Calibrated(potential) ==
    LET clean == CleanDays(potential)
    IN IF Cardinality(clean) < MinDays THEN current
       ELSE [n |-> SumFunction([day \in clean |-> DailyProduction(day)]),
             d |-> SumFunctionOnSet(potential, clean)]

-----------------------------------------------------------------------------
(* The thread                                                              *)

\* live_conn, which pings first.
LiveUnpinged == IF conn # "none" THEN conn ELSE IF dbUp THEN "live" ELSE "none"

Live == IF dbUp THEN "live" ELSE "none"

SleepFor(ticks) == pc' = "sleep" /\ left' = ticks /\ estimate' = NULL

\* An exception: the connection is dropped, the cycle retried soon.
Failed == conn' = "none" /\ SleepFor(Backoff) /\ parked' = FALSE

\* The cycle is over, also one that no source answered.
Finished(unanswered) ==
    /\ SleepFor(Refresh) /\ parked' = unanswered
    /\ UNCHANGED conn

Begin ==
    /\ pc = "sleep" /\ left = 0
    /\ IF Live # "live" THEN Failed /\ UNCHANGED current
       ELSE /\ pc' = "compute" /\ conn' = Live
            /\ current' = Clamped(ratio)
            /\ UNCHANGED <<left, estimate, parked>>
    /\ UNCHANGED <<table, age, ratio, worldVars, calm>>

\* What is left of the day is published before it is written.
Published(est) ==
    /\ age' = 0 /\ estimate' = est /\ pc' = "row"
    /\ UNCHANGED <<left, conn, parked>>

\* fetch_gti answers for every plane; fetch does for one at least.
GtiOfAll == sources = "gti"
SolarOfSome == sources = "solar"

\* _compute_forecast: irradiance of every plane, or forecast.solar of some.
Compute ==
    /\ pc = "compute"
    /\ \/ /\ GtiOfAll /\ conn = "live"
          /\ \E steps \in [1..Length -> Intervals] : table' = History(steps)
          /\ pc' = "fit" /\ UNCHANGED <<left, conn, estimate, age, parked>>
       \/ GtiOfAll /\ conn # "live" /\ Failed /\ UNCHANGED <<table, age>>
       \/ SolarOfSome /\ Published(NULL) /\ UNCHANGED table
       \/ sources = "none" /\ Finished(TRUE) /\ UNCHANGED <<table, age>>
    /\ UNCHANGED <<current, ratio, worldVars, calm>>

\* pv_estimate
Fit ==
    /\ pc = "fit"
    /\ \E potential \in [MeasuredDays -> Potentials] : Published(Calibrated(potential))
    /\ table' = <<>>
    /\ UNCHANGED <<current, ratio, worldVars, calm>>

\* The ratio is written even if there is none.
WriteForecastAndRatio ==
    /\ pc = "row"
    /\ IF conn # "live" THEN Failed
       ELSE pc' = "ratio" /\ UNCHANGED <<left, conn, estimate, parked>>
    /\ UNCHANGED <<current, table, age, ratio, worldVars, calm>>

WriteForecast ==
    /\ pc = "row"
    /\ \/ conn # "live" /\ Failed
       \/ conn = "live" /\ estimate = NULL /\ Finished(FALSE)
       \/ /\ conn = "live" /\ estimate # NULL
          /\ pc' = "ratio" /\ UNCHANGED <<left, conn, estimate, parked>>
    /\ UNCHANGED <<current, table, age, ratio, worldVars, calm>>

UpdatePr ==
    /\ pc = "ratio"
    /\ IF conn # "live" THEN Failed /\ UNCHANGED ratio
       ELSE ratio' = estimate /\ Finished(FALSE)
    /\ UNCHANGED <<current, table, age, worldVars, calm>>

-----------------------------------------------------------------------------
(* The world                                                               *)

Older(ticks) == IF ticks <= Refresh THEN ticks + 1 ELSE ticks

Tick ==
    /\ pc = "sleep" /\ left > 0
    /\ left' = left - 1 /\ age' = Older(age)
    /\ calm' = IF dbUp /\ sources # "none" THEN Older(calm) ELSE 0
    /\ UNCHANGED <<pc, conn, current, table, estimate, ratio, worldVars, parked>>

DatabaseChanges ==
    /\ dbUp' = ~dbUp /\ calm' = 0
    /\ conn' = IF conn = "live" THEN "dead" ELSE conn
    /\ UNCHANGED <<pc, left, current, table, estimate, age, ratio, sources, parked>>

SourcesChange ==
    /\ sources' \in {"gti", "solar", "none"} \ {sources}
    /\ calm' = IF sources' = "none" THEN 0 ELSE calm
    /\ UNCHANGED <<threadVars, age, ratio, dbUp, parked>>

\* An administrator's SQL; no form of control-ui has the ratio.
SetRatio ==
    /\ dbUp /\ ratio' \in Ratios
    /\ UNCHANGED <<threadVars, age, worldVars, calm, parked>>

\* The controller's process is started again, and with it the thread.
Restart ==
    /\ pc' = "sleep" /\ left' = 0 /\ conn' = "none" /\ table' = <<>> /\ estimate' = NULL
    /\ age' = Refresh + 1 /\ calm' = 0 /\ parked' = FALSE
    /\ UNCHANGED <<current, ratio, worldVars>>

Cycle == Begin \/ Compute \/ Fit \/ WriteForecast \/ UpdatePr

Next ==
    \/ Cycle \/ Tick
    \/ DatabaseChanges \/ SourcesChange \/ SetRatio \/ Restart

Spec == Init /\ [][Next]_vars

-----------------------------------------------------------------------------
(* Properties                                                              *)

Current == age <= Refresh

\* A failed cycle is made up for soon: once database and sources have been fine
\* for the backoff, the forecast is no older than the refresh interval; only
\* when no source had answered it may take that interval.
RenewedSoon == calm > (IF parked THEN Refresh ELSE Backoff) => Current

\* A day's measured production is what the plant produced between the rows: never
\* more, and all of it unless the counter was reset in between.
MeasuredIsReal ==
    \A day \in MeasuredDays :
        LET last == table[Max(Deltas(day))]
            before == table[Min(Deltas(day)) - 1]
        IN /\ DailyProduction(day) <= last.total - before.total
           /\ last.resets = before.resets => DailyProduction(day) = last.total - before.total

\* Whatever was measured, and whatever an administrator had set, the ratio the
\* thread writes is one the clamp of the next load leaves alone.
PlausibleRatio == [][UpdatePr /\ conn = "live" => Clamped(ratio') = ratio']_vars

=============================================================================
