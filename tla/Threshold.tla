----------------------------- MODULE Threshold -----------------------------
(***************************************************************************)
(* The numbers a control cycle compares: the safe settings clamp_config    *)
(* makes of whatever control_config holds (config.py), and the ON-         *)
(* threshold that the forecast lowers (threshold.py).                      *)
(*                                                                         *)
(* Watts are integers here.  The ON-threshold is a fraction of them, so    *)
(* both sides of its comparisons are multiplied by full_sun_ref_kwh.       *)
(***************************************************************************)
EXTENDS Integers

CONSTANTS
    NULL,        \* a column without a value, and None
    NaN,         \* float("nan"), which PostgreSQL stores as well
    Default,     \* DEFAULTS
    Gap,         \* _OFF_THRESHOLD_GAP_W
    NominalCap,  \* _WP_POWER_CAP_W
    RunFloor     \* _MIN_RUNTIME_FLOOR_S

Number == Int \union {NaN}
ValidModes == {"auto", "manual", "paused"}
ModeTexts == ValidModes \union {"boost"}   \* any other text is as good as "boost"

\* A row of control_config; run stands for the four integer columns that are
\* raised to a floor (on_delay_cycles, off_delay_cycles, min_runtime_s,
\* min_offtime_s).  init.sql declares the columns NOT NULL; clamp_config does not
\* rely on it.
RawRows ==
    [mode : ModeTexts \union {NULL}, adapt : BOOLEAN \union {NULL},
     base : Number \union {NULL}, min : Number \union {NULL},
     off : Number \union {NULL}, ref : Number \union {NULL},
     nominal : Number \union {NULL}, run : Int \union {NULL}]

ASSUME ThresholdAssumption ==
    /\ NULL \notin Number /\ NaN \notin Int /\ NULL \notin BOOLEAN
    /\ Gap \in Nat \ {0} /\ NominalCap \in Nat /\ RunFloor \in Nat \ {0}
    /\ Default \in RawRows
    /\ Default.mode \in ValidModes /\ Default.adapt \in BOOLEAN
    /\ Default.base \in Nat /\ Default.min \in Nat /\ Default.off \in Nat
    /\ Default.ref \in Nat /\ Default.nominal \in Nat /\ Default.run \in Nat

\* max(lo, v), min(v, hi) and min(hi, v): every comparison with NaN is false, and
\* the first argument stays.
AtLeast(lo, v) == IF v # NaN /\ v > lo THEN v ELSE lo
Capped(v, hi) == IF v # NaN /\ v > hi THEN hi ELSE v
Lesser(hi, v) == IF v # NaN /\ v < hi THEN v ELSE hi

OrDefault(raw, field) == IF raw[field] = NULL THEN Default[field] ELSE raw[field]

OffAsEntered(off, min) == off

\* Keep the OFF-threshold below the lowest ON-threshold.
OffBelow(off, min) ==
    IF min > 0 /\ off >= min THEN AtLeast(0, min - Gap) ELSE off

Clamped(raw) ==
    LET Value(field) == OrDefault(raw, field)
        base == AtLeast(0, Value("base"))
        min  == AtLeast(0, Capped(Value("min"), base))
        off  == AtLeast(0, Value("off"))
    IN  [mode    |-> IF Value("mode") \in ValidModes THEN Value("mode") ELSE "paused",
         adapt   |-> Value("adapt"),
         base    |-> base,
         min     |-> min,
         off     |-> OffBelow(off, min),
         ref     |-> AtLeast(1, Value("ref")),
         nominal |-> AtLeast(0, Capped(Value("nominal"), NominalCap)),
         run     |-> AtLeast(RunFloor, Value("run"))]

-----------------------------------------------------------------------------
(* adaptive_threshold: from base without a forecast down to min when a full *)
(* day's sun is still to come.                                             *)

\* The forecast's share of a full day, in cfg.ref-ths; one that is no number counts
\* as a full day.
Factor(cfg, remaining) == AtLeast(0, Lesser(cfg.ref, remaining))

Effective(cfg, remaining) ==       \* times cfg.ref
    IF ~cfg.adapt \/ remaining = NULL THEN cfg.base * cfg.ref
    ELSE cfg.base * cfg.ref - (cfg.base - cfg.min) * Factor(cfg, remaining)

\* Settings that cannot harm the heat pump: the thresholds are in order, and no
\* forecast makes them overlap.
Safe(cfg, remainings) ==
    /\ cfg.mode \in ValidModes /\ cfg.run >= RunFloor
    /\ 0 <= cfg.min /\ cfg.min <= cfg.base /\ 0 <= cfg.off
    /\ cfg.min > 0 =>
         \A remaining \in remainings \union {NULL} :
             /\ cfg.off * cfg.ref < Effective(cfg, remaining)
             /\ cfg.min * cfg.ref <= Effective(cfg, remaining)

Above(cfg, remaining, available) == available * cfg.ref > Effective(cfg, remaining)
Below(cfg, available) == available < cfg.off

\* What a fresh reading says; "crossed" where the thresholds overlap.
Classified(cfg, remaining, available) ==
    IF Above(cfg, remaining, available)
    THEN IF Below(cfg, available) THEN "crossed" ELSE "above"
    ELSE IF Below(cfg, available) THEN "below" ELSE "between"

-----------------------------------------------------------------------------
(* available_and_basis: what the heat pump could use.  The reading's surplus *)
(* already lacks what it draws, which is added back as an estimate; not     *)
(* after sunset, when a running heat pump must not pay for itself.          *)

AvailableIgnoringSun(cfg, surplus, production, baseLoad, relayOn, sunUp) ==
    IF production # NULL /\ baseLoad # NULL THEN production - baseLoad
    ELSE surplus + (IF relayOn THEN cfg.nominal ELSE 0)

AvailableRaw(cfg, surplus, production, baseLoad, relayOn, sunUp) ==
    IF production # NULL /\ baseLoad # NULL THEN production - baseLoad ELSE surplus

Available(cfg, surplus, production, baseLoad, relayOn, sunUp) ==
    IF production # NULL /\ baseLoad # NULL THEN production - baseLoad
    ELSE surplus + (IF relayOn /\ sunUp THEN cfg.nominal ELSE 0)

=============================================================================
