------------------------------ MODULE BaseLoad ------------------------------
(***************************************************************************)
(* The household's base load without the heat pump (baseload.py): a        *)
(* percentile of what the house drew in the control cycles of the last     *)
(* Window ones in which the relay was off.  While there are too few of     *)
(* them, the last estimate is held for MaxStale cycles.                    *)
(***************************************************************************)
EXTENDS Threshold, FiniteSets

CONSTANTS
    Window,      \* window_s, in control cycles
    MinSamples,  \* min_samples
    MaxStale,    \* max_stale_s, in control cycles
    Percent      \* base_load_percentile

ASSUME BaseLoadAssumption ==
    /\ Window \in Nat /\ MinSamples \in Nat \ {0} /\ MaxStale \in Nat
    /\ Percent \in 5..95          \* clamp_config

VARIABLES
    samples,  \* samples[a] was taken a cycles ago, NULL if none was
    held,     \* _last_value
    heldAge   \* cycles since _last_ts, up to MaxStale + 1

baseLoadVars == <<samples, held, heldAge>>

Ages == 0..Window

BaseLoadInit ==
    /\ samples = [age \in Ages |-> NULL]
    /\ held = NULL /\ heldAge = MaxStale + 1

-----------------------------------------------------------------------------
Taken(s) == {age \in Ages : s[age] # NULL}

\* Python's round: to the nearest integer, halves to the even one.
Rounded(n, d) ==
    LET q == n \div d
        r == 2 * (n % d)
    IN  IF r > d \/ (r = d /\ q % 2 = 1) THEN q + 1 ELSE q

\* The value with k smaller ones before it in the sorted samples.
Ranked(s, k) ==
    CHOOSE v \in {s[age] : age \in Taken(s)} :
        /\ Cardinality({age \in Taken(s) : s[age] < v}) <= k
        /\ k < Cardinality({age \in Taken(s) : s[age] <= v})

Enough(s) == Cardinality(Taken(s)) >= MinSamples

Percentile(s) == Ranked(s, Rounded(Percent * (Cardinality(Taken(s)) - 1), 100))

\* A cycle passes, and its sample comes in (NULL: none was taken).
Shifted(sample) ==
    [age \in Ages |-> IF age = 0 THEN sample ELSE samples[age - 1]]

ObserveRenewing(sample) ==
    /\ samples' = Shifted(sample)
    /\ IF Enough(samples') THEN held' = Percentile(samples') ELSE held' = held
    /\ heldAge' = IF held' # NULL THEN 0 ELSE heldAge

Observe(sample) ==
    /\ samples' = Shifted(sample)
    /\ IF Enough(samples')
       THEN held' = Percentile(samples') /\ heldAge' = 0
       ELSE held' = held /\ heldAge' = IF heldAge > MaxStale THEN heldAge ELSE heldAge + 1

Estimate == IF heldAge <= MaxStale THEN held ELSE NULL

=============================================================================
