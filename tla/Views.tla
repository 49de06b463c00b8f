------------------------------- MODULE Views -------------------------------
(***************************************************************************)
(* What control-ui reads out of the tables (sources.py): the switching     *)
(* journal, the heat pump's runtime, what the harvest card and the savings *)
(* chart make of it, and today's balance.  The tables are filled by the    *)
(* exporter's flush, which loses minutes, and by the controller's log,     *)
(* while the relay, the weather and the plant's counter change.            *)
(*                                                                         *)
(* Time is counted in fractions of a minute, power in multiples of Minute, *)
(* so that an average is a whole number as long as nothing changes; after  *)
(* a disturbance it may be rounded down.                                   *)
(***************************************************************************)
EXTENDS Integers, FiniteSets, FiniteSetsExt, Functions

CONSTANTS
    Raws,        \* what TSDB_FLUSH_SECONDS may be set to, in ticks
    NULL,
    Default,     \* its default, 60 s
    Minute,      \* a minute
    Match,       \* the window of recent_decisions, 90 seconds
    Nominal,     \* wp_nominal_power_w, and what the heat pump draws
    House,       \* what the house draws
    Headrooms,   \* what the plant may produce beyond that
    Midnight,    \* when the day changes
    Horizon,     \* bound: how long tables are filled
    Lateness,    \* bound: how long flushes take, together
    Disturbances \* bound: moves of the relay, changes of the weather, failures

\* The longest flush period that is taken, 3600 s.
Hour == 60 * Minute

\* No period is set longer than a minute, unless it is refused: the minutes between its
\* rows would be missing in the savings chart, which joins the tables minute by minute.
ASSUME ViewsAssumption ==
    /\ Default \in 1..Minute /\ Minute \in Nat \ {0} /\ Match \in Nat /\ Minute <= Match
    /\ \A raw \in Raws \ {NULL} : raw \in Int /\ (raw <= Minute \/ raw > Hour)
    /\ Nominal \in Nat /\ House \in Nat /\ Headrooms \subseteq Int
    /\ \A w \in Headrooms \union {Nominal, House} : w % Minute = 0
    /\ \A w \in Headrooms : w + House >= 0
    /\ \E most \in Headrooms : \A w \in Headrooms : w <= most
    /\ NULL \notin Int
    /\ Midnight \in Nat /\ Horizon \in Nat /\ Lateness \in Nat /\ Disturbances \in Nat

\* Midnight begins a minute.
ASSUME MidnightAssumption == Midnight % Minute = 0

VARIABLES
    clock,
    flushS,    \* _flush_seconds(TSDB_FLUSH_SECONDS), the exporter's FLUSH_S too
    since,     \* ticks since the exporter's last flush
    relay, polled,   \* the relay, and its position as the exporter has it
    belief,    \* cs.relay_on
    headroom,
    produced, exported,  \* the lifetime counters of inverter and grid meter
    sumSurplus, sumExport,   \* the readings since the last flush
    meter,     \* energy_meter: [at, surplus, export, produced, exported]
    pump,      \* heatpump: [at, on]
    decisions, \* decision_log: [at, target, reason]
    own,       \* history: the last move, if it was decided and logged
    missed,    \* history: the heatpump table missed a row since, or waited for it too long
    upsets,    \* history: how many disturbances there were
    late,      \* history: ticks by which flushes came later than FLUSH_S after another
    overrun,   \* history: how many minutes ended while one was late
    real       \* history: what truly happened, day by day

plantVars == <<headroom, produced, exported, sumSurplus, sumExport>>
moveVars == <<relay, belief, own, missed>>
tables == <<meter, pump, decisions>>
timeVars == <<clock, flushS, since, late, overrun>>
vars == <<timeVars, polled, plantVars, moveVars, tables, upsets, real>>

Days == {0, 1}
Day(at) == IF at < Midnight THEN 0 ELSE 1

FlushAsGiven(raw) == IF raw = NULL THEN Default ELSE raw

\* An operator may mistype it; it never crashes the page, nor divides by zero.
FlushSeconds(raw) == IF raw \in 1..Hour THEN raw ELSE Default

Init ==
    /\ clock = 0 /\ since = 0 /\ late = 0 /\ overrun = 0
    /\ \E raw \in Raws : flushS = FlushSeconds(raw)
    /\ relay \in BOOLEAN /\ polled = relay /\ belief = relay
    /\ headroom \in Headrooms
    /\ produced = 0 /\ exported = 0 /\ sumSurplus = 0 /\ sumExport = 0
    /\ meter = {} /\ pump = {} /\ decisions = {}
    /\ own = NULL /\ missed = FALSE /\ upsets = 0
    /\ real = [d \in Days |-> [on |-> 0, self |-> 0, wasted |-> 0, produced |-> 0,
                                exported |-> 0]]

Upset == upsets < Disturbances /\ upsets' = upsets + 1

Clamp(power) == IF power < 0 THEN 0 ELSE IF power > Nominal THEN Nominal ELSE power

-----------------------------------------------------------------------------
(* What happens to the relay, and what decision_log says about it.  The    *)
(* loop comes round once in a tick.                                        *)

LoopIsFree == \A d \in decisions : d.at # clock

Log(target, reason) ==
    decisions' = decisions \union {[at |-> clock, target |-> target, reason |-> reason]}

\* The controller switches, and logs it or fails to.
Switch ==
    /\ LoopIsFree /\ belief = relay /\ Upset
    /\ relay' = ~relay /\ belief' = relay' /\ missed' = FALSE
    /\ \/ Log(relay', "decided") /\ own' = [at |-> clock, on |-> relay']
       \/ UNCHANGED decisions /\ own' = NULL
    /\ UNCHANGED <<timeVars, polled, plantVars, meter, pump, real>>

\* Its command gets lost, or only the answer to it.
SwitchFails ==
    /\ LoopIsFree /\ belief = relay /\ Upset
    /\ Log(~relay, "shelly_write_failed")
    /\ \/ UNCHANGED <<relay, own, missed>>
       \/ relay' = ~relay /\ own' = NULL /\ missed' = FALSE
    /\ UNCHANGED <<timeVars, polled, belief, plantVars, meter, pump, real>>

\* Somebody else switches, or the watchdog.
Flip ==
    /\ Upset
    /\ relay' = ~relay /\ own' = NULL /\ missed' = FALSE
    /\ UNCHANGED <<timeVars, polled, belief, plantVars, tables, real>>

\* The controller finds the relay elsewhere, and logs it if the database is there.
Reconcile ==
    /\ LoopIsFree /\ belief # polled /\ belief' = polled
    /\ Log(polled, "external_change") \/ UNCHANGED decisions
    /\ UNCHANGED <<timeVars, polled, plantVars, relay, own, missed, meter, pump,
                   upsets, real>>

Poll ==
    /\ polled # relay /\ polled' = relay
    /\ UNCHANGED <<timeVars, plantVars, moveVars, tables, upsets, real>>

-----------------------------------------------------------------------------
(* The plant, and the exporter's minute                                    *)

Weather ==
    /\ Upset
    /\ headroom' \in Headrooms \ {headroom}
    /\ UNCHANGED <<timeVars, polled, produced, exported, sumSurplus, sumExport,
                   moveVars, tables, real>>

\* The inverter is replaced, or loses its counter.
CounterReset ==
    /\ produced > 0 /\ Upset
    /\ produced' = 0
    /\ UNCHANGED <<timeVars, polled, headroom, exported, sumSurplus, sumExport,
                   moveVars, tables, real>>

Surplus == headroom - (IF relay THEN Nominal ELSE 0)
Export == IF Surplus > 0 THEN Surplus ELSE 0

\* run_guarded sleeps FLUSH_S between flushes: the time a flush takes makes the next
\* one late.
Asleep == since < flushS /\ UNCHANGED <<late, overrun>>

Late ==
    /\ since >= flushS /\ late < Lateness /\ late' = late + 1
    /\ overrun' = overrun + (IF clock' % Minute = 0 THEN 1 ELSE 0)

\* A tick passes.
Elapse ==
    /\ clock < Horizon /\ polled = relay
    /\ clock' = clock + 1 /\ since' = since + 1
    /\ Asleep \/ Late
    /\ produced' = produced + headroom + House /\ exported' = exported + Export
    /\ sumSurplus' = sumSurplus + Surplus /\ sumExport' = sumExport + Export
    /\ real' = [real EXCEPT ![Day(clock)] =
                  [on |-> @.on + (IF relay THEN 1 ELSE 0),
                   self |-> @.self + (IF relay THEN Clamp(headroom) ELSE 0),
                   wasted |-> @.wasted + (IF relay THEN 0 ELSE Clamp(headroom)),
                   produced |-> @.produced + headroom + House,
                   exported |-> @.exported + Export]]
    /\ UNCHANGED <<flushS, polled, headroom, moveVars, tables, upsets>>

\* The means of the readings taken, one in a tick.
MeterRow(production) ==
    [at |-> clock, surplus |-> sumSurplus \div since, export |-> sumExport \div since,
     produced |-> production, exported |-> exported]

PumpRow == [at |-> clock, on |-> polled]

\* _flush_once: both rows, the first without the inverter, either alone, or none.
Flush ==
    /\ since >= flushS /\ since' = 0
    /\ sumSurplus' = 0 /\ sumExport' = 0
    /\ \/ /\ meter' = meter \union {MeterRow(produced)}
          /\ pump' = pump \union {PumpRow}
          /\ missed' = (missed \/ since > Match) /\ UNCHANGED upsets
       \/ /\ Upset
          /\ meter' \in {meter, meter \union {MeterRow(NULL)}}
          /\ pump' = pump \union {PumpRow}
          /\ missed' = (missed \/ since > Match)
       \/ /\ Upset
          /\ meter' \in {meter, meter \union {MeterRow(produced)}}
          /\ missed' = TRUE /\ UNCHANGED pump
    /\ UNCHANGED <<clock, flushS, late, overrun, polled, headroom, produced, exported, relay,
                   belief, own, decisions, real>>

Next ==
    \/ Switch \/ SwitchFails \/ Flip \/ Reconcile \/ Poll
    \/ Weather \/ CounterReset \/ Elapse \/ Flush

Spec == Init /\ [][Next]_vars

-----------------------------------------------------------------------------
(* recent_decisions                                                        *)

\* The row before r, by lag(relay_on) OVER (ORDER BY time).
Before(r, rows) == LET earlier == {s \in rows : s.at < r.at}
                   IN {s \in earlier : \A t \in earlier : t.at <= s.at}

Transitions == {r \in pump : \E s \in Before(r, pump) : s.on # r.on}

Gap(d, r) == IF d.at < r.at THEN r.at - d.at ELSE d.at - r.at

NearestByTime(r) ==
    LET near == {d \in decisions : d.target = r.on /\ Gap(d, r) <= Match}
    IN {d \in near : \A e \in near : d.at <= e.at}

\* The nearest decision for the same position within 90 seconds.
Nearest(r) ==
    LET near == {d \in decisions : d.target = r.on /\ Gap(d, r) <= Match}
    IN {d \in near : \A e \in near : Gap(d, r) <= Gap(e, r)}

\* The reason the journal gives; nobody's known one is "extern".
Reasons(r) == IF Nearest(r) = {} THEN {"extern"} ELSE {d.reason : d \in Nearest(r)}

-----------------------------------------------------------------------------
(* Runtime, savings, harvest                                               *)

Divisor60 == Minute
\* FLUSH_DIVISOR_HOURS: how long a row stands for.
RowTime == flushS

\* Counted rows, and the energy the nominal power makes of them.
Runtime(rows) == RowTime * Cardinality({r \in rows : r.on})

RuntimeEnergy(day) == Nominal * Runtime({r \in pump : Day(r.at) = day})

\* The balance card's wp_total_kwh.
WpTotal == Nominal * Runtime(pump)

Bucket(r) == r.at \div Minute
Of(rows, m) == {r \in rows : Bucket(r) = m}

\* avg() of a column of the rows of a minute
Average(column) == SumFunctionOnSet(column, DOMAIN column) \div Cardinality(DOMAIN column)

MeanSurplus(m) == Average([r \in Of(meter, m) |-> r.surplus])
MeanExport(m) == Average([r \in Of(meter, m) |-> r.export])

AnyOn(m) == \E r \in Of(pump, m) : r.on

\* wp JOIN sm USING (m), the minutes of a day.
Minutes(day) ==
    {m \in {Bucket(r) : r \in pump} \intersect {Bucket(r) : r \in meter} : Day(m * Minute) = day}

\* The surplus there had been without the heat pump, as far as it could use it.
UsedUnclamped(m) == IF AnyOn(m) THEN MeanSurplus(m) + Nominal ELSE 0

UsedIn(m) == IF AnyOn(m) THEN Clamp(MeanSurplus(m) + Nominal) ELSE 0

\* What was exported while it was off, and it could have used.
WastedIn(m) == IF AnyOn(m) THEN 0 ELSE Clamp(MeanExport(m))

\* wp_savings' pv_kwh of a day and harvest_summary's self_kwh, its wasted_kwh.
SelfUsed(day) == Minute * SumFunction([m \in Minutes(day) |-> UsedIn(m)])
Wasted(day) == Minute * SumFunction([m \in Minutes(day) |-> WastedIn(m)])

-----------------------------------------------------------------------------
(* today_summary                                                           *)

\* What a counter has ticked off at a row since the one before it: nothing if it
\* was reset.
Ticked(r, rows) == UNION {(s.count + 1)..r.count : s \in Before(r, rows)}
Units(rows) == UNION {{r} \X Ticked(r, rows) : r \in rows}

\* sum(greatest(d, 0)) over consecutive rows
PositiveDeltas(rows) == Cardinality(Units(rows))

SpanOn(day) ==
    LET counts == {r.produced : r \in {s \in meter : Day(s.at) = day}} \ {NULL}
    IN IF counts = {} THEN 0 ELSE Max(counts) - Min(counts)

Productions(day) ==
    {[at |-> r.at, count |-> r.produced] : r \in {s \in meter : Day(s.at) = day /\ s.produced # NULL}}

Exports(day) ==
    {[at |-> r.at, count |-> r.exported] : r \in {s \in meter : Day(s.at) = day}}

ProducedOn(day) == PositiveDeltas(Productions(day))

ExportedOn(day) == PositiveDeltas(Exports(day))

-----------------------------------------------------------------------------
(* Properties                                                              *)

TypeOK ==
    /\ clock \in 0..Horizon /\ flushS \in 1..Minute /\ since \in 0..clock
    /\ late \in 0..Lateness /\ overrun \in 0..late
    /\ relay \in BOOLEAN /\ polled \in BOOLEAN /\ belief \in BOOLEAN
    /\ headroom \in Headrooms /\ upsets \in 0..Disturbances
    /\ \A r \in meter \union pump \union decisions : r.at \in 0..clock

Near(shown, true, slack) == shown - true <= slack /\ true - shown <= slack

\* The journal gives the controller's reason for what the controller did: a
\* decided and logged move that the heatpump table did not miss appears with
\* it, though the relay was polled late, an earlier attempt failed or somebody
\* else had switched before.
JournalTells ==
    \A r \in Transitions :
       own # NULL /\ ~missed /\ own.on = r.on /\ own.at <= r.at
       => Reasons(r) = {"decided"}

\* A row stands for the sleep between flushes, whatever TSDB_FLUSH_SECONDS is: the
\* energy estimated from counted rows strays from what the heat pump drew
\* by no more than a flush for every disturbance, one more, and the time the
\* flushes themselves have taken, which no row stands for.
RuntimeHonest ==
    LET slack == Nominal * (flushS * (upsets + 1) + late)
    IN /\ \A day \in Days : Near(RuntimeEnergy(day), Nominal * real[day].on, slack)
       /\ Near(WpTotal, Nominal * (real[0].on + real[1].on), slack)

\* What the heat pump used and what it left to the grid come out of the
\* minutes' means though the meter sees its draw: but a minute and a flush for every
\* disturbance, and one at the ends; and for every minute that ended while a
\* flush was late, as it may be left without a row.
SavingsHonest ==
    LET slack == Nominal * (Minute + flushS) * (upsets + overrun + 1)
    IN \A day \in Days :
          /\ Near(SelfUsed(day), real[day].self, slack)
          /\ Near(Wasted(day), real[day].wasted, slack)

\* Today's balance is today's: no counter reset, missing row or midnight makes
\* more of the plant's production or export than there was, nor less by more than
\* a flush for every disturbance, and one at either end, late as it may be.
TodayIsReal ==
    \A day \in Days :
       LET slack == (Max(Headrooms) + House) * (flushS * (upsets + 2) + late)
       IN /\ real[day].produced - slack <= ProducedOn(day) /\ ProducedOn(day) <= real[day].produced
          /\ real[day].exported - slack <= ExportedOn(day) /\ ExportedOn(day) <= real[day].exported

=============================================================================
