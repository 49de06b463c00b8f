-------------------------- MODULE Headroom_proofs --------------------------
(***************************************************************************)
(* Theorems about Headroom, for all weathers and settings it admits: the   *)
(* types, how clean the base load is, and how long an estimate may last.   *)
(***************************************************************************)
EXTENDS Headroom, FiniteSetTheorems, WellFoundedInduction, TLAPS

LEMMA Bounds ==
    /\ OnDelay \in Nat \ {0} /\ OffDelay \in Nat \ {0} /\ Grace \in Nat \ {0}
    /\ MinRun \in Nat \ {0} /\ MinOff \in Nat \ {0}
    /\ Window \in Nat /\ MinSamples \in Nat \ {0} /\ MaxStale \in Nat
    /\ Percent \in 5..95 /\ NULL \notin Int
    /\ PerRow \in 1..MinOff
  BY DelaysAssumption, BaseLoadAssumption, ThresholdAssumption, HeadroomAssumption DEF Number

-----------------------------------------------------------------------------
(* Ranks: the percentile of some samples is one of them.                   *)

LEMMA AgesFinite == ASSUME NEW T \in SUBSET Ages
                    PROVE  IsFiniteSet(T) /\ Cardinality(T) \in Nat
<1>1. IsFiniteSet(Ages)
  BY Bounds, FS_Interval DEF Ages
<1> QED BY <1>1, FS_Subset, FS_CardinalityType

\* One of finitely many samples is the greatest.
LEMMA Greatest ==
    ASSUME NEW s, NEW T \in SUBSET Ages, T # {}, \A age \in T : s[age] \in Nat
    PROVE  \E top \in T : \A age \in T : s[age] <= s[top]
<1> DEFINE From(age) == {a \in T : s[a] >= s[age]}
           Froms == {From(age) : age \in T}
           R == StrictSubsetOrdering(T)
<1>1. IsWellFoundedOn(R, SUBSET T)
  BY AgesFinite, FS_StrictSubsetOrderingWellFounded, FS_FiniteSubsetsOfFinite
<1>2. Froms \subseteq SUBSET T /\ Froms # {}
  OBVIOUS
<1>3. PICK least \in Froms : \A other \in Froms : ~(<<other, least>> \in R)
  <2> HIDE DEF R, Froms
  <2> QED BY <1>1, <1>2, WFMin
<1>4. PICK top \in T : least = From(top)
  BY <1>3
<1>5. ASSUME NEW age \in T, ~(s[age] <= s[top]) PROVE FALSE
  <2>1. From(age) \subseteq From(top) /\ top \in From(top) /\ top \notin From(age)
    BY <1>5
  <2>2. From(age) \in Froms
    OBVIOUS
  <2>3. <<From(age), From(top)>> \in R
    BY <1>2, <2>1, <2>2, <1>4 DEF StrictSubsetOrdering
  <2> QED BY <1>3, <1>4, <2>2, <2>3
<1> QED BY <1>5

\* The natural numbers are well-ordered.
LEMMA Least ==
    ASSUME NEW T \in SUBSET Nat, T # {}
    PROVE  \E n \in T : \A m \in T : n <= m
<1> DEFINE R == OpToRel(<, Nat)
<1>1. IsWellFoundedOn(R, Nat)
  BY NatLessThanWellFounded
<1>2. PICK n \in T : \A m \in T : ~(<<m, n>> \in R)
  <2> HIDE DEF R
  <2> QED BY <1>1, WFMin
<1>3. R = {ss \in Nat \X Nat : ss[1] < ss[2]}
  BY DEF OpToRel
<1>4. ASSUME NEW m \in T, ~(n <= m) PROVE FALSE
  <2>1. m < n /\ <<m, n>> \in Nat \X Nat
    BY <1>4
  <2>2. <<m, n>> \in R
    BY <1>3, <2>1
  <2> QED BY <1>2, <2>2
<1> QED BY <1>4

AllNumbers(s) == \A age \in Taken(s) : s[age] \in Nat

\* What Ranked chooses exists for every rank.
LEMMA RankedFacts ==
    ASSUME NEW s, AllNumbers(s), NEW k \in Nat, k < Cardinality(Taken(s))
    PROVE  /\ \E age \in Taken(s) : Ranked(s, k) = s[age]
           /\ Cardinality({age \in Taken(s) : s[age] < Ranked(s, k)}) <= k
<1> DEFINE Upto(v) == {age \in Taken(s) : s[age] <= v}
           Below_(v) == {age \in Taken(s) : s[age] < v}
           Values == {s[age] : age \in Taken(s)}
           High == {v \in Values : k < Cardinality(Upto(v))}
<1>1. Taken(s) \in SUBSET Ages /\ Cardinality(Taken(s)) \in Nat /\ Taken(s) # {}
  BY AgesFinite, FS_EmptySet DEF Taken
<1>2. Values \subseteq Nat
  BY DEF AllNumbers
<1>3. High # {}
  <2>1. PICK top \in Taken(s) : \A age \in Taken(s) : s[age] <= s[top]
    BY <1>1, Greatest DEF AllNumbers
  <2>2. Upto(s[top]) = Taken(s)
    BY <2>1
  <2> QED BY <2>2
<1>4. PICK v \in High : \A w \in High : v <= w
  BY <1>2, <1>3, Least
<1>5. Cardinality(Below_(v)) <= k
  <2>1. Below_(v) \in SUBSET Ages /\ Cardinality(Below_(v)) \in Nat
    BY <1>1, AgesFinite
  <2>2. CASE Below_(v) = {}
    BY <2>2, FS_EmptySet
  <2>3. CASE Below_(v) # {}
    <3>1. PICK top \in Below_(v) : \A age \in Below_(v) : s[age] <= s[top]
      BY <2>1, <2>3, Greatest DEF AllNumbers
    <3>2. Below_(v) \subseteq Upto(s[top]) /\ Upto(s[top]) \in SUBSET Ages
      BY <1>1, <3>1
    <3>3. /\ Cardinality(Below_(v)) <= Cardinality(Upto(s[top]))
          /\ Cardinality(Upto(s[top])) \in Nat
      BY <3>2, AgesFinite, FS_Subset
    <3>4. ~(k < Cardinality(Upto(s[top])))
      <4>1. s[top] \in Nat /\ s[top] < v /\ s[top] \in Values /\ v \in Nat
        BY <1>2, <3>1
      <4> QED BY <4>1, <1>4
    <3> QED BY <2>1, <3>3, <3>4
  <2> QED BY <2>2, <2>3
<1>6. \E w \in Values : /\ Cardinality(Below_(w)) <= k
                        /\ k < Cardinality(Upto(w))
  BY <1>4, <1>5
<1>7. /\ Ranked(s, k) \in Values
      /\ Cardinality(Below_(Ranked(s, k))) <= k
  BY <1>6 DEF Ranked
<1> QED BY <1>7

LEMMA Quotient ==
    ASSUME NEW p \in Nat, NEW m \in Nat \ {0}
    PROVE  /\ p \div m \in Nat
           /\ m * (p \div m) <= p /\ p < m * (p \div m) + m
<1>1. p \div m \in Nat
  OBVIOUS
<1>2. ASSUME NEW q \in Nat, q = p \div m PROVE m * q <= p /\ p < m * q + m
  BY <1>2
<1> QED BY <1>1, <1>2

\* The rank of a percentage below 100 is one of the n samples'.
LEMMA RankBounds ==
    ASSUME NEW n \in Nat \ {0}
    PROVE  /\ Rounded(Percent * (n - 1), 100) \in Nat
           /\ Rounded(Percent * (n - 1), 100) < n
<1> DEFINE p == Percent * (n - 1)
<1>1. p \in Nat /\ p <= 95 * (n - 1)
  BY Bounds
<1> HIDE DEF p
<1>2. p \div 100 \in Nat /\ 100 * (p \div 100) <= p
  BY <1>1, Quotient
<1>3. Rounded(p, 100) \in {p \div 100, p \div 100 + 1}
  BY DEF Rounded
<1>4. p = 0 => Rounded(p, 100) = 0
  BY DEF Rounded
<1>5. n = 1 => p = 0
  BY <1>1
<1>6. n > 1 => p \div 100 + 1 < n
  BY <1>1, <1>2
<1>7. Rounded(p, 100) \in Nat /\ Rounded(p, 100) < n
  BY <1>2, <1>3, <1>4, <1>5, <1>6
<1> QED BY <1>7 DEF p

LEMMA PercentileFacts ==
    ASSUME NEW s, AllNumbers(s), Enough(s)
    PROVE  /\ \E age \in Taken(s) : Percentile(s) = s[age]
           /\ Cardinality({age \in Taken(s) : s[age] < Percentile(s)})
                <= Rounded(Percent * (Cardinality(Taken(s)) - 1), 100)
<1>1. Cardinality(Taken(s)) \in Nat \ {0}
  BY AgesFinite, Bounds DEF Enough, Taken
<1> QED BY <1>1, RankBounds, RankedFacts DEF Percentile

-----------------------------------------------------------------------------
(* Ages that lie an off-time apart, less the minute they were recorded in.  *)

Apart(S) == \A a, b \in S : a < b => b - a >= Spacing

LEMMA SpacingFacts == Spacing \in Nat \ {0} /\ Spacing = MinOff + 2 - PerRow
  BY Bounds DEF Spacing

LEMMA QuotientsApart ==
    ASSUME NEW a \in Nat, NEW b \in Nat, NEW m \in Nat \ {0}
    PROVE  /\ a <= b => a \div m <= b \div m
           /\ b - a >= m => a \div m < b \div m
<1> DEFINE q == a \div m
           r == b \div m
<1>1. /\ q \in Nat /\ m * q <= a /\ a < m * q + m
      /\ r \in Nat /\ m * r <= b /\ b < m * r + m
  BY Quotient
<1> HIDE DEF q, r
<1>2. ASSUME ~(q <= r), a <= b PROVE FALSE
  <2>1. q >= r + 1 /\ m * q >= m * (r + 1) /\ m * (r + 1) = m * r + m
    BY <1>1, <1>2
  <2> QED BY <1>1, <1>2, <2>1
<1>3. ASSUME ~(q < r), b - a >= m PROVE FALSE
  <2>1. q >= r /\ m * q >= m * r
    BY <1>1, <1>3
  <2> QED BY <1>1, <1>3, <2>1
<1> QED BY <1>1, <1>2, <1>3 DEF q, r

\* A window holds no more of them than it can see switches.
LEMMA ApartAreFew ==
    ASSUME NEW S \in SUBSET Ages, Apart(S)
    PROVE  Cardinality(S) <= Switches /\ Switches \in Nat
<1> DEFINE m == Spacing
           Slots == 0..(Window \div m)
           f == [age \in S |-> age \div m]
<1>1. m \in Nat \ {0} /\ Window \in Nat /\ Window \div m \in Nat
  BY Bounds, SpacingFacts, Quotient
<1> HIDE DEF m
<1>2. S \subseteq Nat /\ \A age \in S : age <= Window
  BY Bounds DEF Ages
<1>3. f \in [S -> Slots]
  <2> SUFFICES ASSUME NEW age \in S PROVE age \div m \in Slots
    OBVIOUS
  <2>1. age \in Nat /\ age <= Window
    BY <1>2
  <2>2. age \div m \in Nat /\ age \div m <= Window \div m
    BY <1>1, <2>1, QuotientsApart, Quotient
  <2> QED BY <1>1, <2>2
<1>4. ASSUME NEW a \in S, NEW b \in S, a # b PROVE f[a] # f[b]
  <2>1. a - b >= m \/ b - a >= m
    BY <1>2, <1>4 DEF Apart, m
  <2>2. /\ a \div m \in Nat /\ b \div m \in Nat
        /\ a \div m < b \div m \/ b \div m < a \div m
    BY <1>1, <1>2, <2>1, QuotientsApart, Quotient
  <2> QED BY <2>2
<1>5. f \in Injection(S, Slots)
  BY <1>3, <1>4 DEF Injection, IsInjective
<1>6. IsFiniteSet(Slots) /\ Cardinality(Slots) = Window \div m + 1
  <2> DEFINE most == Window \div m
  <2>1. most \in Nat /\ 0 \in Int
    BY <1>1
  <2> HIDE DEF most
  <2>2. IsFiniteSet(0..most) /\ Cardinality(0..most) = most + 1
    BY <2>1, FS_Interval
  <2> QED BY <2>2 DEF most
<1>7. Cardinality(S) <= Cardinality(Slots)
  BY <1>5, <1>6, FS_Injection
<1> QED BY <1>1, <1>6, <1>7 DEF Switches, m

\* They stay apart as they grow older, and so does a new one at age 0.
LEMMA OlderApart ==
    ASSUME NEW S \in SUBSET Ages, Apart(S), NEW T \in SUBSET Ages,
           \A age \in T : age > 0 => age - 1 \in S,
           0 \in T => \A age \in S : age >= Spacing - 1
    PROVE  Apart(T)
<1> SUFFICES ASSUME NEW a \in T, NEW b \in T, a < b PROVE b - a >= Spacing
  BY DEF Apart
<1>1. a \in Nat /\ b \in Nat /\ Spacing \in Nat
  BY SpacingFacts, Bounds DEF Ages
<1>2. b - 1 \in S
  BY <1>1
<1>3. CASE a = 0
  BY <1>1, <1>2, <1>3
<1>4. CASE a > 0
  <2>1. a - 1 \in S
    BY <1>4
  <2> QED BY <1>1, <1>2, <2>1 DEF Apart
<1> QED BY <1>1, <1>3, <1>4

-----------------------------------------------------------------------------
(* The invariant: samples that hold the heat pump's draw come from recorded *)
(* minutes in which the relay opened, which the minimum off-time keeps      *)
(* apart; and nothing is younger than the relay's last cycle off.           *)

\* What the meter reads in a house without the heat pump.
Offs == {u.prod - w.house : u \in Weathers, w \in Weathers}

\* A minute whose readings do not hold the draw: their mean is no less than one of
\* these.
CleanSum(m) == \E low \in Offs : m.sum >= m.n * low

Spoilt(s) == {age \in Taken(s) : ~Clean(s[age])}

Spaced ==
    /\ Apart(Spoilt(samples)) /\ Apart(Spoilt(rows))
    /\ relayOn \/ ~CleanSum(minute) => \A age \in Spoilt(rows) : age >= MinOff + 1 - PerRow
    /\ ~relayOn => \A age \in Spoilt(rows) : age + PerRow >= sinceOff
    /\ ~relayOn /\ ~CleanSum(minute) => sinceOff <= minute.cycles

Aged ==
    /\ ~relayOn => running = 0
    /\ \A age \in Taken(samples) \union Taken(rows) : age + 1 >= running
    /\ heldAge <= MaxStale => running <= Window + 1 + heldAge

HInv == TypeOK /\ Spaced /\ Aged

LEMMA WeatherFacts ==
    ASSUME TypeOK
    PROVE  /\ weather \in Weathers /\ weather.prod \in Nat /\ weather.house \in Nat
           /\ weather.draw \in Nat /\ weather.metered \in BOOLEAN /\ NULL \notin Nat
           /\ shown # NULL => \E w \in Weathers : shown = w.prod /\ shown \in Nat
           /\ Surplus \in Int
<1>1. /\ weather \in Weathers /\ weather.prod \in Nat /\ weather.house \in Nat
      /\ weather.draw \in Nat /\ weather.metered \in BOOLEAN /\ NULL \notin Nat
      /\ shown # NULL => \E w \in Weathers : shown = w.prod /\ shown \in Nat
  BY Bounds, HeadroomAssumption DEF TypeOK, Conditions
<1> QED BY <1>1 DEF Surplus

LEMMA CleanDraw ==
    ASSUME TypeOK, shown # NULL, weather.metered, ~relayOn
    PROVE  Clean(shown - Surplus)
<1>1. PICK v \in Weathers : shown = v.prod /\ shown \in Nat
  BY WeatherFacts
<1>2. shown - Surplus = weather.house + v.prod - weather.prod
  BY <1>1, WeatherFacts DEF Surplus
<1>3. weather.house + v.prod - weather.prod <= weather.house + v.prod - weather.prod
  BY <1>1, WeatherFacts
<1> QED BY <1>2, <1>3, WeatherFacts DEF Clean

LEMMA SampleFacts ==
    ASSUME TypeOK
    PROVE  /\ Sample \in Nat \union {NULL}
           /\ Sample # NULL => Clean(Sample) /\ ~relayOn
<1>1. shown # NULL => shown - Surplus \in Int
  BY WeatherFacts
<1>2. Sample \in Nat \union {NULL}
  BY <1>1 DEF Sample
<1>3. /\ Sample # NULL => ~relayOn /\ Sample = shown - Surplus
      /\ Sample # NULL => shown # NULL /\ weather.metered
  BY DEF Sample
<1> QED BY <1>2, <1>3, CleanDraw

-----------------------------------------------------------------------------
(* The exporter's minute.                                                  *)

\* A product grows with its factor.
LEMMA Times ==
    ASSUME NEW n \in Nat, NEW a \in Int, NEW b \in Int, a <= b
    PROVE  n * a <= n * b /\ n * a \in Int /\ n * b \in Int
  OBVIOUS

LEMMA GatheredFacts ==
    ASSUME TypeOK
    PROVE  /\ Gathered.n \in Nat /\ Gathered.sum \in Int
           /\ Gathered.cycles = minute.cycles + 1
           /\ minute.cycles \in 0..(PerRow - 1)
<1>1. minute \in [n : Nat, sum : Int, cycles : 0..(PerRow - 1)]
  BY DEF TypeOK
<1>2. minute.n \in Nat /\ minute.sum \in Int /\ minute.cycles \in 0..(PerRow - 1)
  BY <1>1
<1>3. Surplus \in Int /\ weather.metered \in BOOLEAN
  BY WeatherFacts
<1>4. Gathered.n = minute.n + (IF weather.metered THEN 1 ELSE 0)
  BY DEF Gathered
<1>5. Gathered.sum = minute.sum + (IF weather.metered THEN Surplus ELSE 0)
  BY DEF Gathered
<1>6. Gathered.cycles = minute.cycles + 1
  BY DEF Gathered
<1>7. Gathered.n \in Nat
  BY <1>2, <1>4
<1>8. Gathered.sum \in Int
  BY <1>2, <1>3, <1>5
<1> QED BY <1>2, <1>6, <1>7, <1>8

\* A reading without the heat pump leaves a clean minute clean.
LEMMA GatheredClean ==
    ASSUME TypeOK, ~relayOn, CleanSum(minute)
    PROVE  CleanSum(Gathered)
<1>1. PICK low \in Offs : minute.sum >= minute.n * low
  BY DEF CleanSum
<1>2. CASE ~weather.metered
  <2>1. minute.n \in Nat /\ minute.sum \in Int
    BY DEF TypeOK
  <2>2. Gathered.n = minute.n /\ Gathered.sum = minute.sum
    BY <1>2, <2>1 DEF Gathered
  <2> QED BY <1>1, <2>2 DEF CleanSum
<1>3. CASE weather.metered
  <2>1. PICK n \in Nat, sum \in Int : minute.n = n /\ minute.sum = sum
    BY DEF TypeOK
  <2>2. PICK d \in Int : Surplus = d /\ d \in Offs
    <3>1. Surplus = weather.prod - weather.house /\ Surplus \in Int
      BY WeatherFacts DEF Surplus
    <3> QED BY <3>1, WeatherFacts DEF Offs
  <2>3. Gathered.n = n + 1 /\ Gathered.sum = sum + d
    BY <1>3, <2>1, <2>2 DEF Gathered
  <2>4. low \in Int
    BY HeadroomAssumption DEF Offs, Conditions
  <2>5. n * low \in Int /\ n * d \in Int /\ sum >= n * low
    BY <1>1, <2>1, <2>2, <2>4, Times
  <2>6. CASE low <= d
    <3>1. (n + 1) * low = n * low + low
      BY <2>4
    <3>2. sum + d >= (n + 1) * low
      BY <2>2, <2>4, <2>5, <2>6, <3>1
    <3> QED BY <2>3, <3>2 DEF CleanSum
  <2>7. CASE d <= low
    <3>1. n * d <= n * low
      BY <2>2, <2>4, <2>7, Times
    <3>2. (n + 1) * d = n * d + d
      BY <2>2
    <3>3. sum + d >= (n + 1) * d
      BY <2>2, <2>5, <3>1, <3>2
    <3> QED BY <2>2, <2>3, <3>3 DEF CleanSum
  <2> QED BY <2>2, <2>4, <2>6, <2>7
<1> QED BY <1>2, <1>3

\* The row of a clean minute is clean.
LEMMA RecordedFacts ==
    ASSUME TypeOK
    PROVE  /\ Recorded \in Nat \union {NULL}
           /\ Recorded # NULL => ~relayOn'
           /\ Recorded # NULL /\ CleanSum(Gathered) => Clean(Recorded)
<1>1. CASE Recorded = NULL
  BY <1>1
<1>2. CASE Recorded # NULL
  <2>1. /\ Gathered.n > 0 /\ shown # NULL /\ ~relayOn' /\ Drawn(Gathered) >= 0
        /\ Recorded = Drawn(Gathered) \div Gathered.n
    BY <1>2 DEF Recorded
  <2>2. PICK v \in Weathers : shown = v.prod /\ v.prod \in Nat
    BY <2>1, WeatherFacts
  <2>3. PICK n \in Nat \ {0}, sum \in Int : Gathered.n = n /\ Gathered.sum = sum
    BY <2>1, GatheredFacts
  <2>4. PICK p \in Int : p = v.prod * n
    BY <2>2, <2>3
  <2>5. Drawn(Gathered) = p - sum
    BY <2>2, <2>3, <2>4 DEF Drawn
  <2>6. PICK q \in Nat : Recorded = q /\ n * q <= p - sum
    <3>1. p - sum \in Nat
      BY <2>1, <2>4, <2>5
    <3> QED BY <2>1, <2>3, <2>5, <3>1, Quotient
  <2>7. ASSUME CleanSum(Gathered) PROVE Clean(Recorded)
    <3>1. PICK low \in Offs : sum >= n * low
      BY <2>3, <2>7 DEF CleanSum
    <3>2. PICK u \in Weathers, w \in Weathers : low = u.prod - w.house
      BY <3>1 DEF Offs
    <3>3. u.prod \in Nat /\ w.house \in Nat /\ low \in Int
      BY <3>2, HeadroomAssumption DEF Conditions
    <3>4. q <= v.prod - low
      <4>1. SUFFICES ASSUME q >= v.prod - low + 1 PROVE FALSE
        BY <2>2, <2>6, <3>3
      <4>2. n * (v.prod - low + 1) <= n * q
        BY <2>2, <2>3, <3>3, <4>1, Times
      <4>3. n * (v.prod - low + 1) = p - n * low + n /\ n * low \in Int
        BY <2>2, <2>3, <2>4, <3>3
      <4>4. n * q \in Int
        BY <2>3
      <4> QED BY <2>3, <2>4, <2>6, <3>1, <4>2, <4>3, <4>4
    <3>5. q <= w.house + v.prod - u.prod
      BY <2>2, <3>2, <3>3, <3>4
    <3> QED BY <2>2, <2>6, <3>2, <3>5 DEF Clean
  <2> QED BY <2>1, <2>6, <2>7
<1> QED BY <1>1, <1>2

LEMMA NoReadingsClean == TypeOK => CleanSum(NoReadings)
<1> SUFFICES ASSUME TypeOK PROVE CleanSum(NoReadings)
  OBVIOUS
<1>1. weather.prod - weather.house \in Offs /\ weather.prod - weather.house \in Int
  BY WeatherFacts DEF Offs
<1>2. NoReadings.sum = 0 /\ NoReadings.n = 0
  BY DEF NoReadings
<1>3. \A low \in Int : 0 >= 0 * low
  OBVIOUS
<1> QED BY <1>1, <1>2, <1>3 DEF CleanSum

\* What a cycle makes of the minute and of the rows.
LEMMA MinuteMoves ==
    ASSUME TypeOK, Cycle
    PROVE  \E row \in Nat \union {NULL} :
             /\ \A age \in Ages : rows'[age] = IF age = 0 THEN row ELSE rows[age - 1]
             /\ row # NULL => ~relayOn'
             /\ row # NULL /\ ~Clean(row) => ~CleanSum(Gathered)
             /\ minute' \in [n : Nat, sum : Int, cycles : 0..(PerRow - 1)]
             /\ \/ minute' = Gathered /\ row = NULL
                \/ minute' = NoReadings
<1>1. CASE MinuteGoesOn
  <2>1. Gathered \in [n : Nat, sum : Int, cycles : 0..(PerRow - 1)]
    <3>1. Gathered.cycles \in 0..(PerRow - 1)
      BY <1>1, GatheredFacts, Bounds DEF MinuteGoesOn
    <3>2. Gathered = [n |-> Gathered.n, sum |-> Gathered.sum, cycles |-> Gathered.cycles]
      BY DEF Gathered
    <3> QED BY <3>1, <3>2, GatheredFacts
  <2>2. \A age \in Ages : rows'[age] = IF age = 0 THEN NULL ELSE rows[age - 1]
    BY <1>1 DEF MinuteGoesOn, RowsWith
  <2>3. minute' = Gathered
    BY <1>1 DEF MinuteGoesOn
  <2> QED BY <2>1, <2>2, <2>3
<1>2. CASE MinuteEnds
  <2>1. PICK row \in {Recorded, NULL} : rows' = RowsWith(row)
    BY <1>2 DEF MinuteEnds
  <2>2. \A age \in Ages : rows'[age] = IF age = 0 THEN row ELSE rows[age - 1]
    BY <2>1 DEF RowsWith
  <2>3. minute' = NoReadings
    BY <1>2 DEF MinuteEnds
  <2>4. NoReadings \in [n : Nat, sum : Int, cycles : 0..(PerRow - 1)]
    BY Bounds DEF NoReadings
  <2> QED BY <2>1, <2>2, <2>3, <2>4, RecordedFacts
<1> QED BY <1>1, <1>2 DEF Cycle

\* What a cycle makes of the relay.
LEMMA DecideFacts ==
    ASSUME NEW c, c.mode = "auto", NEW on \in BOOLEAN, NEW onS, NEW offS,
           NEW sOn, NEW sOff \in Nat, NEW fresh \in BOOLEAN
    PROVE  LET target == Decide(c, on, onS, offS, sOn, sOff, fresh).target
           IN  /\ target \in BOOLEAN
               /\ target /\ ~on => sOff >= MinOff
<1>1. MinOff \in Nat
  BY Bounds
<1>2. CASE ~fresh
  BY <1>2 DEF Decide, Steer
<1>3. CASE fresh /\ on
  BY <1>3 DEF Decide, Steer, AutoWhileOn
<1>4. CASE fresh /\ ~on
  <2>1. Decide(c, on, onS, offS, sOn, sOff, fresh) = AutoWhileOff(onS, sOff)
    BY <1>4 DEF Decide
  <2>2. CASE onS < OnDelay
    BY <2>1, <2>2 DEF AutoWhileOff, Steer
  <2>3. CASE ~(onS < OnDelay) /\ sOff < MinOff
    BY <2>1, <2>3 DEF AutoWhileOff, Steer
  <2>4. CASE ~(onS < OnDelay) /\ ~(sOff < MinOff)
    BY <1>1, <2>1, <2>4 DEF AutoWhileOff, Steer
  <2> QED BY <2>2, <2>3, <2>4
<1> QED BY <1>2, <1>3, <1>4

LEMMA SwitchFacts ==
    ASSUME TypeOK, Cycle
    PROVE  /\ relayOn' \in BOOLEAN
           /\ relayOn' /\ ~relayOn => sinceOff >= MinOff
<1> DEFINE c == [mode |-> settings.mode, manualOn |-> FALSE]
           fresh == FreshForDecide(Reading, staleStreak')
<1>1. c.mode = "auto"
  BY HeadroomAssumption
<1>2. fresh \in BOOLEAN /\ relayOn \in BOOLEAN /\ sinceOff \in Nat
  BY Bounds DEF FreshForDecide, TypeOK
<1>3. relayOn' = Decide(c, relayOn, onStreak', offStreak', sinceOn, sinceOff, fresh).target
  BY DEF Cycle
<1> HIDE DEF c, fresh
<1> QED BY <1>1, <1>2, <1>3, DecideFacts

LEMMA SatFacts ==
    ASSUME NEW cap \in Nat, NEW n \in 0..cap
    PROVE  Sat(n, cap) \in 0..cap /\ Sat(n, cap) <= n + 1
  BY DEF Sat

\* The samples and rows of the next cycle, and what the estimator holds.
LEMMA ObserveTypes ==
    ASSUME TypeOK, Cycle
    PROVE  /\ \A age \in Ages : {samples'[age], rows'[age]} \subseteq Nat \union {NULL}
           /\ held' \in Nat \union {NULL} /\ heldAge' \in 0..(MaxStale + 1)
<1>1. PICK row \in Nat \union {NULL} :
        \A age \in Ages : rows'[age] = IF age = 0 THEN row ELSE rows[age - 1]
  BY MinuteMoves
<1>2. samples' = Shifted(Sample)
  BY DEF Cycle, Observe
<1>3. ASSUME NEW age \in Ages
      PROVE  {samples'[age], rows'[age]} \subseteq Nat \union {NULL}
  <2>1. CASE age = 0
    BY <1>1, <1>2, <2>1, SampleFacts DEF Shifted
  <2>2. CASE age # 0
    <3>1. age - 1 \in Ages
      BY <2>2, Bounds DEF Ages
    <3> QED BY <1>1, <1>2, <2>2, <3>1 DEF Shifted, TypeOK
  <2> QED BY <2>1, <2>2
<1>4. AllNumbers(samples')
  BY <1>3 DEF AllNumbers, Taken
<1>5. CASE Enough(samples')
  <2>1. held' = Percentile(samples') /\ heldAge' = 0
    BY <1>5 DEF Cycle, Observe
  <2>2. held' \in Nat
    BY <1>4, <1>5, <2>1, PercentileFacts DEF AllNumbers
  <2> QED BY <1>3, <2>1, <2>2, Bounds
<1>6. CASE ~Enough(samples')
  <2>1. /\ held' = held
        /\ heldAge' = IF heldAge > MaxStale THEN heldAge ELSE heldAge + 1
    BY <1>6 DEF Cycle, Observe
  <2> QED BY <1>3, <2>1, Bounds DEF TypeOK
<1> QED BY <1>5, <1>6

LEMMA CycleTypes == ASSUME TypeOK, Cycle PROVE TypeOK'
<1> USE Bounds
<1>1. weather' \in Weathers /\ shown' \in {NULL} \union {w.prod : w \in Weathers}
  BY DEF Cycle, TypeOK
<1>2. onStreak' \in 0..OnDelay
  BY SatFacts DEF Cycle, TypeOK, OnStreak
<1>3. offStreak' \in 0..OffDelay
  BY SatFacts DEF Cycle, TypeOK, OffStreak
<1>4. staleStreak' \in 0..Grace
  BY SatFacts DEF Cycle, TypeOK, StaleStreak
<1>5. sinceOn' \in 0..MinRun
  <2>1. sinceOn' \in {Sat(0, MinRun), Sat(sinceOn, MinRun)}
    BY DEF Cycle
  <2>2. MinRun \in Nat /\ 0 \in 0..MinRun /\ sinceOn \in 0..MinRun
    BY DEF TypeOK
  <2>3. Sat(0, MinRun) \in 0..MinRun /\ Sat(sinceOn, MinRun) \in 0..MinRun
    BY <2>2, SatFacts
  <2> QED BY <2>1, <2>3
<1>6. sinceOff' \in 0..MinOff
  <2>1. sinceOff' \in {Sat(0, MinOff), Sat(sinceOff, MinOff)}
    BY DEF Cycle
  <2>2. MinOff \in Nat /\ 0 \in 0..MinOff /\ sinceOff \in 0..MinOff
    BY DEF TypeOK
  <2>3. Sat(0, MinOff) \in 0..MinOff /\ Sat(sinceOff, MinOff) \in 0..MinOff
    BY <2>2, SatFacts
  <2> QED BY <2>1, <2>3
<1>7. running' \in 0..(Longest + 1)
  <2> DEFINE most == Longest
  <2>1. most \in Nat /\ running \in 0..(most + 1)
    BY DEF TypeOK, Longest
  <2> HIDE DEF most
  <2>2. running' = IF ~relayOn' THEN 0 ELSE IF running > most THEN running ELSE running + 1
    BY Zenon DEF Cycle, most
  <2>3. running' \in 0..(most + 1)
    BY <2>1, <2>2
  <2> QED BY <2>3 DEF most
<1>8. minute' \in [n : Nat, sum : Int, cycles : 0..(PerRow - 1)]
  BY MinuteMoves
<1> QED
  BY <1>1, <1>2, <1>3, <1>4, <1>5, <1>6, <1>7, <1>8, ObserveTypes, SwitchFacts DEF TypeOK

LEMMA InitHInv == Init => HInv
<1> SUFFICES ASSUME Init PROVE HInv
  OBVIOUS
<1> USE Bounds
<1>1. TypeOK
  <2>1. relayOn \in BOOLEAN
    BY Zenon DEF Init
  <2>2. \A age \in Ages : {samples[age], rows[age]} \subseteq Nat \union {NULL}
    BY DEF Init, BaseLoadInit
  <2>3. minute \in [n : Nat, sum : Int, cycles : 0..(PerRow - 1)]
    BY DEF Init, NoReadings
  <2> QED BY <2>1, <2>2, <2>3 DEF Init, BaseLoadInit, TypeOK, Longest
<1>2. Taken(samples) = {} /\ Taken(rows) = {}
  BY DEF Init, BaseLoadInit, Taken
<1>3. Spoilt(samples) = {} /\ Spoilt(rows) = {}
  BY <1>2 DEF Spoilt
<1>4. CleanSum(minute)
  BY <1>1, NoReadingsClean DEF Init
<1>5. Spaced
  BY <1>3, <1>4 DEF Spaced, Apart
<1>6. Aged
  BY <1>2 DEF Init, BaseLoadInit, Aged
<1> QED BY <1>1, <1>5, <1>6 DEF HInv

LEMMA CycleSpaced == HInv /\ Cycle => Spaced'
<1> SUFFICES ASSUME HInv, Cycle PROVE Spaced'
  OBVIOUS
<1>1. TypeOK /\ TypeOK' /\ Spaced
  BY CycleTypes DEF HInv
<1>2. /\ relayOn \in BOOLEAN /\ relayOn' \in BOOLEAN
      /\ sinceOff \in 0..MinOff /\ MinOff \in Nat \ {0} /\ PerRow \in 1..MinOff
  BY <1>1, Bounds DEF TypeOK
<1>3. PICK row \in Nat \union {NULL} :
        /\ \A age \in Ages : rows'[age] = IF age = 0 THEN row ELSE rows[age - 1]
        /\ row # NULL => ~relayOn'
        /\ row # NULL /\ ~Clean(row) => ~CleanSum(Gathered)
        /\ \/ minute' = Gathered /\ row = NULL
           \/ minute' = NoReadings
  BY <1>1, MinuteMoves
<1>4. \A age \in Ages : samples'[age] = IF age = 0 THEN Sample ELSE samples[age - 1]
  BY DEF Cycle, Observe, Shifted
<1>5. /\ Spoilt(samples) \in SUBSET Ages /\ Spoilt(rows) \in SUBSET Ages
      /\ Spoilt(samples') \in SUBSET Ages /\ Spoilt(rows') \in SUBSET Ages
  BY DEF Spoilt, Taken
<1>6. \A age \in Ages : age \in Nat /\ (age > 0 => age - 1 \in Ages)
  BY Bounds DEF Ages
<1>7. \A age \in Spoilt(samples') : age > 0 /\ age - 1 \in Spoilt(samples)
  BY <1>1, <1>4, <1>6, SampleFacts DEF Spoilt, Taken
<1>8. \A age \in Spoilt(rows') : age > 0 => age - 1 \in Spoilt(rows)
  BY <1>3, <1>6 DEF Spoilt, Taken
<1>9. 0 \in Spoilt(rows') => ~relayOn' /\ ~CleanSum(Gathered)
  <2>1. 0 \in Spoilt(rows') => row # NULL /\ ~Clean(row)
    BY <1>3 DEF Spoilt, Taken
  <2> QED BY <1>3, <2>1
<1>10. ~CleanSum(Gathered) => relayOn \/ ~CleanSum(minute)
  BY <1>1, GatheredClean
<1>11. ~CleanSum(minute') => ~CleanSum(Gathered) /\ 0 \notin Spoilt(rows') /\ minute' = Gathered
  <2>1. CASE minute' = NoReadings
    BY <1>1, <2>1, NoReadingsClean
  <2>2. CASE minute' = Gathered /\ row = NULL
    BY <1>3, <2>2 DEF Spoilt, Taken
  <2> QED BY <1>3, <2>1, <2>2
<1>12. relayOn' /\ ~relayOn => sinceOff = MinOff
  BY <1>1, <1>2, SwitchFacts
<1>13. Apart(Spoilt(samples'))
  BY <1>1, <1>5, <1>7, OlderApart DEF Spaced
<1>14. relayOn \/ ~CleanSum(minute) => \A age \in Spoilt(rows) : age >= MinOff + 1 - PerRow
  BY <1>1 DEF Spaced
<1>15. Apart(Spoilt(rows'))
  <2>1. 0 \in Spoilt(rows') => \A age \in Spoilt(rows) : age >= Spacing - 1
    <3>1. Spacing - 1 = MinOff + 1 - PerRow
      BY <1>2, SpacingFacts
    <3> QED BY <1>9, <1>10, <1>14, <3>1
  <2> QED BY <1>1, <1>5, <1>8, <2>1, OlderApart DEF Spaced
<1>16. /\ sinceOff' = IF relayOn /\ ~relayOn' THEN Sat(0, MinOff) ELSE Sat(sinceOff, MinOff)
       /\ Sat(0, MinOff) = 1 /\ Sat(sinceOff, MinOff) \in Nat /\ Sat(sinceOff, MinOff) <= sinceOff + 1
  <2>1. sinceOff' = IF relayOn /\ ~relayOn' THEN Sat(0, MinOff) ELSE Sat(sinceOff, MinOff)
    BY DEF Cycle
  <2> QED BY <1>2, <2>1 DEF Sat
<1>17. minute.cycles \in 0..(PerRow - 1) /\ Gathered.cycles = minute.cycles + 1
  BY <1>1, GatheredFacts
<1>18. ~relayOn' /\ ~CleanSum(Gathered) => sinceOff' <= minute.cycles + 1
  <2>1. CASE relayOn
    BY <1>2, <1>16, <1>17, <2>1
  <2>2. CASE ~relayOn
    <3>1. ~CleanSum(Gathered) => sinceOff <= minute.cycles
      BY <1>1, <1>10, <2>2 DEF Spaced
    <3> QED BY <1>2, <1>16, <1>17, <2>2, <3>1
  <2> QED BY <2>1, <2>2
<1>19. ASSUME NEW age \in Spoilt(rows')
       PROVE  /\ relayOn' \/ ~CleanSum(minute') => age >= MinOff + 1 - PerRow
              /\ ~relayOn' => age + PerRow >= sinceOff'
  <2>1. age \in Nat
    BY <1>5, <1>6
  <2>2. CASE age = 0
    <3>1. ~relayOn' /\ CleanSum(minute') /\ sinceOff' <= minute.cycles + 1
      BY <1>9, <1>11, <1>18, <2>2
    <3> QED BY <1>2, <1>16, <1>17, <2>2, <3>1
  <2>3. CASE age > 0
    <3>1. age - 1 \in Spoilt(rows)
      BY <1>8, <2>3
    <3>2. CASE relayOn
      <4>1. age - 1 >= MinOff + 1 - PerRow
        BY <1>14, <3>1, <3>2
      <4> QED BY <1>2, <1>16, <2>1, <3>2, <4>1
    <3>3. CASE ~relayOn
      <4>1. age - 1 + PerRow >= sinceOff
        BY <1>1, <3>1, <3>3 DEF Spaced
      <4>2. ~CleanSum(minute') => age - 1 >= MinOff + 1 - PerRow
        BY <1>10, <1>11, <1>14, <3>1
      <4>3. relayOn' => age >= MinOff + 1 - PerRow
        BY <1>2, <1>12, <2>1, <3>3, <4>1
      <4>4. ~relayOn' => age + PerRow >= sinceOff'
        BY <1>2, <1>16, <2>1, <3>3, <4>1
      <4>5. age - 1 >= MinOff + 1 - PerRow => age >= MinOff + 1 - PerRow
        BY <1>2, <2>1
      <4> QED BY <4>2, <4>3, <4>4, <4>5
    <3> QED BY <3>2, <3>3
  <2> QED BY <2>1, <2>2, <2>3
<1>20. ~relayOn' /\ ~CleanSum(minute') => sinceOff' <= minute'.cycles
  BY <1>11, <1>17, <1>18
<1> QED BY <1>13, <1>15, <1>19, <1>20 DEF Spaced

LEMMA CycleAged == HInv /\ Cycle => Aged'
<1> SUFFICES ASSUME HInv, Cycle PROVE Aged'
  OBVIOUS
<1>1. TypeOK /\ Aged
  BY DEF HInv
<1>2. /\ running \in 0..(Longest + 1) /\ Longest = Window + MaxStale + 1
      /\ heldAge \in 0..(MaxStale + 1) /\ Window \in Nat /\ MaxStale \in Nat
  BY <1>1, Bounds DEF TypeOK, Longest
<1>3. /\ ~relayOn' => running' = 0
      /\ running' \in {0, running, running + 1} /\ (~relayOn => running' <= 1)
  BY <1>1, <1>2 DEF Cycle, Aged
<1>4. running' \in Nat /\ running' <= running + 1
  BY <1>2, <1>3
<1>5. PICK row \in Nat \union {NULL} :
        /\ \A age \in Ages : rows'[age] = IF age = 0 THEN row ELSE rows[age - 1]
        /\ row # NULL => ~relayOn'
  BY <1>1, MinuteMoves
<1>6. \A age \in Ages : samples'[age] = IF age = 0 THEN Sample ELSE samples[age - 1]
  BY DEF Cycle, Observe, Shifted
<1>7. ASSUME NEW age \in Taken(samples') \union Taken(rows') PROVE age + 1 >= running'
  <2>1. age \in Ages /\ age \in Nat /\ (age > 0 => age - 1 \in Ages)
    BY <1>2 DEF Taken, Ages
  <2>2. CASE age = 0
    <3>1. Sample # NULL \/ row # NULL
      BY <1>5, <1>6, <1>7, <2>1, <2>2 DEF Taken
    <3>2. ~relayOn \/ ~relayOn'
      BY <1>1, <1>5, <3>1, SampleFacts
    <3> QED BY <1>3, <1>4, <2>2, <3>2
  <2>3. CASE age > 0
    <3>1. age - 1 \in Taken(samples) \union Taken(rows)
      BY <1>5, <1>6, <1>7, <2>1, <2>3 DEF Taken
    <3>2. age >= running
      BY <1>1, <2>1, <3>1 DEF Aged
    <3> QED BY <1>2, <1>4, <2>1, <3>2
  <2> QED BY <2>1, <2>2, <2>3
<1>8. ASSUME heldAge' <= MaxStale PROVE running' <= Window + 1 + heldAge'
  <2>1. CASE Enough(samples')
    <3>1. heldAge' = 0
      BY <2>1 DEF Cycle, Observe
    <3>2. Taken(samples') # {}
      BY <2>1, FS_EmptySet, Bounds DEF Enough
    <3>3. PICK age \in Taken(samples') : TRUE
      BY <3>2
    <3>4. age \in 0..Window /\ age + 1 >= running'
      BY <1>7 DEF Taken, Ages
    <3> QED BY <1>2, <1>4, <3>1, <3>4
  <2>2. CASE ~Enough(samples')
    <3>1. heldAge' = IF heldAge > MaxStale THEN heldAge ELSE heldAge + 1
      BY <2>2 DEF Cycle, Observe
    <3>2. heldAge <= MaxStale /\ heldAge' = heldAge + 1
      BY <1>2, <1>8, <3>1
    <3>3. running <= Window + 1 + heldAge
      BY <1>1, <3>2 DEF Aged
    <3> QED BY <1>2, <1>4, <3>2, <3>3
  <2> QED BY <2>1, <2>2
<1> QED BY <1>3, <1>7, <1>8 DEF Aged

LEMMA RestartHInv == HInv /\ Restart => HInv'
<1> SUFFICES ASSUME HInv, Restart PROVE HInv'
  OBVIOUS
<1> USE Bounds
<1>1. /\ held' = NULL /\ heldAge' = MaxStale + 1
      /\ onStreak' = 0 /\ offStreak' = 0 /\ staleStreak' = 0
      /\ UNCHANGED <<weather, shown, minute, rows, running, relayOn, sinceOn, sinceOff>>
  BY DEF Restart, rowVars
\* A sample that a restart brings in is a row from a little earlier.
<1>2. PICK since \in Nat :
        \A age \in Ages : samples'[age] # NULL
          => age >= since /\ age - since \in Ages /\ samples'[age] = rows[age - since]
  <2>1. CASE samples' = NoSamples
    BY <2>1 DEF NoSamples
  <2>2. ASSUME NEW since \in 0..(PerRow - 1),
               samples' = [age \in Ages |-> IF age >= since THEN rows[age - since] ELSE NULL]
        PROVE  /\ since \in Nat
               /\ \A age \in Ages : samples'[age] # NULL
                    => age >= since /\ age - since \in Ages /\ samples'[age] = rows[age - since]
    <3>1. since \in Nat
      OBVIOUS
    <3>2. \A age \in Ages : age >= since => age - since \in Ages
      BY <3>1 DEF Ages
    <3> QED BY <2>2, <3>1, <3>2
  <2> QED BY <2>1, <2>2 DEF Restart, Backfill
<1>3. \A age \in Taken(samples') : age - since \in Taken(rows)
  BY <1>2 DEF Taken
<1>4. \A age \in Spoilt(samples') : age - since \in Spoilt(rows)
  BY <1>2 DEF Spoilt, Taken
<1>5. TypeOK'
  <2>1. \A age \in Ages : samples'[age] \in Nat \union {NULL}
    BY <1>2 DEF HInv, TypeOK
  <2> QED BY <1>1, <2>1 DEF HInv, TypeOK
<1>6. Apart(Spoilt(samples'))
  <2> SUFFICES ASSUME NEW a \in Spoilt(samples'), NEW b \in Spoilt(samples'), a < b
               PROVE  b - a >= Spacing
    BY DEF Apart
  <2>1. a \in Nat /\ b \in Nat
    BY DEF Spoilt, Taken, Ages
  <2>2. a - since \in Spoilt(rows) /\ b - since \in Spoilt(rows) /\ Apart(Spoilt(rows))
    BY <1>4 DEF HInv, Spaced
  <2>3. (b - since) - (a - since) >= Spacing
    BY <2>1, <2>2 DEF Apart
  <2> QED BY <2>1, <2>3, SpacingFacts
<1>7. Spoilt(rows') = Spoilt(rows) /\ Taken(rows') = Taken(rows)
  BY <1>1 DEF Spoilt, Taken
<1>8. Spaced'
  BY <1>1, <1>6, <1>7 DEF HInv, Spaced, CleanSum
<1>9. Aged'
  <2>1. ASSUME NEW age \in Taken(samples') PROVE age + 1 >= running
    <3>1. age \in Nat /\ age - since \in Taken(rows)
      BY <1>3 DEF Taken, Ages
    <3>2. age - since + 1 >= running
      BY <3>1 DEF HInv, Aged
    <3> QED BY <3>1, <3>2 DEF HInv, TypeOK, Longest
  <2> QED BY <1>1, <1>7, <2>1 DEF HInv, Aged
<1> QED BY <1>5, <1>8, <1>9 DEF HInv

LEMMA NextHInv == HInv /\ [Next]_vars => HInv'
<1> SUFFICES ASSUME HInv, [Next]_vars PROVE HInv'
  OBVIOUS
<1>1. ASSUME UNCHANGED <<rowVars, running, loopVars, baseLoadVars>>,
             weather' \in Weathers,
             shown' \in {NULL} \union {w.prod : w \in Weathers}
      PROVE  HInv'
  <2>1. TypeOK'
    BY <1>1 DEF HInv, TypeOK, rowVars, loopVars, baseLoadVars
  <2>2. Spaced'
    BY <1>1 DEF HInv, Spaced, Spoilt, CleanSum, Taken, Apart, rowVars, loopVars, baseLoadVars
  <2>3. Aged'
    BY <1>1 DEF HInv, Aged, Taken, rowVars, loopVars, baseLoadVars
  <2> QED BY <2>1, <2>2, <2>3 DEF HInv
<1>2. CASE Cycle
  BY <1>2, CycleTypes, CycleSpaced, CycleAged DEF HInv
<1>3. CASE PollInverter
  BY <1>1, <1>3 DEF PollInverter, HInv, TypeOK
<1>4. CASE Change
  BY <1>1, <1>4 DEF Change, HInv, TypeOK
<1>5. CASE Restart
  BY <1>5, RestartHInv
<1>6. CASE UNCHANGED vars
  BY <1>1, <1>6 DEF vars, HInv, TypeOK
<1> QED BY <1>2, <1>3, <1>4, <1>5, <1>6 DEF Next

\* The types of the loop through the house, how far apart the recorded minutes lie
\* that hold the heat pump's draw, and that no sample, recorded minute or estimate is
\* younger than the relay's last cycle off, whatever the weather does, whichever rows
\* are missed and however often the process is restarted.
THEOREM HeadroomInvariance == Spec => []HInv
  BY InitHInv, NextHInv, PTL DEF Spec

\* The closed loop's counters, estimator and history keep their types.
THEOREM HeadroomTypeCorrect == Spec => []TypeOK
<1>1. HInv => TypeOK
  BY DEF HInv
<1> QED BY <1>1, HeadroomInvariance, PTL

\* A run longer than the window and max_stale_s together ends the estimate, however
\* often _backfill_baseload fills the estimator from recorded minutes meanwhile.
THEOREM EstimatesEnd == Spec => []HoldEnds
<1>1. HInv => HoldEnds
  <2> SUFFICES ASSUME HInv, Estimate # NULL PROVE running <= Longest
    BY DEF HoldEnds
  <2>1. heldAge <= MaxStale
    BY DEF Estimate
  <2>2. running <= Window + 1 + heldAge
    BY <2>1 DEF HInv, Aged
  <2>3. heldAge \in Nat /\ running \in Nat
    BY Bounds DEF HInv, TypeOK, Longest
  <2> QED BY <2>1, <2>2, <2>3, Bounds DEF Longest
<1> QED BY <1>1, HeadroomInvariance, PTL

-----------------------------------------------------------------------------
(* How clean the base load is.                                             *)

\* A percentile with more samples above it than can be spoilt is clean.
LEMMA CleanPercentile ==
    ASSUME Robust, NEW s, AllNumbers(s), Enough(s), Apart(Spoilt(s))
    PROVE  Clean(Percentile(s))
<1> DEFINE v == Percentile(s)
           k == Rounded(Percent * (Cardinality(Taken(s)) - 1), 100)
           Under == {age \in Taken(s) : s[age] < v}
<1>1. /\ Taken(s) \in SUBSET Ages /\ Spoilt(s) \in SUBSET Ages /\ Under \in SUBSET Ages
  BY DEF Taken, Spoilt
<1>2. /\ Cardinality(Taken(s)) \in Nat /\ IsFiniteSet(Under) /\ IsFiniteSet(Spoilt(s))
      /\ Cardinality(Under) \in Nat /\ Cardinality(Spoilt(s)) \in Nat
  BY <1>1, AgesFinite
<1>3. Cardinality(Taken(s)) \in MinSamples..(Window + 1)
  <2>1. IsFiniteSet(Ages) /\ Cardinality(Ages) = Window + 1
    BY Bounds, FS_Interval DEF Ages
  <2> QED BY <1>1, <1>2, <2>1, FS_Subset, Bounds DEF Enough
<1>4. k + Switches < Cardinality(Taken(s)) /\ k \in Nat
  BY <1>3, RankBounds, Bounds DEF Robust
<1>5. v \in Nat /\ Cardinality(Under) <= k
  BY PercentileFacts DEF AllNumbers
<1>6. SUFFICES ASSUME ~Clean(v) PROVE FALSE
  OBVIOUS
<1>7. ASSUME NEW age \in Taken(s), age \notin Under PROVE age \in Spoilt(s)
  <2>1. s[age] \in Nat /\ v <= s[age]
    BY <1>5, <1>7 DEF AllNumbers
  <2>2. ASSUME Clean(s[age]) PROVE FALSE
    <3>1. PICK w \in Weathers, x \in Weathers, u \in Weathers :
            s[age] <= w.house + x.prod - u.prod
      BY <2>2 DEF Clean
    <3>2. w.house + x.prod - u.prod \in Int
      BY HeadroomAssumption DEF Conditions
    <3>3. v <= w.house + x.prod - u.prod
      BY <1>5, <2>1, <3>1, <3>2
    <3> QED BY <1>6, <3>3 DEF Clean
  <2> QED BY <2>2 DEF Spoilt
<1>8. Taken(s) \subseteq Under \union Spoilt(s)
  BY <1>7
<1>9. Cardinality(Taken(s)) <= Cardinality(Under) + Cardinality(Spoilt(s))
  <2> HIDE DEF Under
  <2>1. Under \cap Spoilt(s) \in SUBSET Ages
    BY <1>1
  <2>2. Cardinality(Under \cap Spoilt(s)) \in Nat
    BY <2>1, AgesFinite
  <2>3. /\ IsFiniteSet(Under \cup Spoilt(s))
        /\ Cardinality(Under \cup Spoilt(s))
             = Cardinality(Under) + Cardinality(Spoilt(s)) - Cardinality(Under \cap Spoilt(s))
    BY <1>2, FS_Union
  <2>4. Cardinality(Taken(s)) <= Cardinality(Under \cup Spoilt(s))
    BY <1>8, <2>3, FS_Subset
  <2> QED BY <1>2, <2>2, <2>3, <2>4
<1>10. Cardinality(Spoilt(s)) <= Switches /\ Switches \in Nat
  BY <1>1, ApartAreFew
<1> QED BY <1>2, <1>4, <1>5, <1>9, <1>10

LEMMA NextClean ==
    ASSUME Robust, HInv, HInv', BaselineClean, [Next]_vars
    PROVE  BaselineClean'
<1>1. CASE Cycle
  <2>1. AllNumbers(samples') /\ Apart(Spoilt(samples'))
    BY DEF HInv, TypeOK, Spaced, AllNumbers, Taken
  <2>2. CASE Enough(samples')
    <3>1. held' = Percentile(samples')
      BY <1>1, <2>2 DEF Cycle, Observe
    <3> QED BY <2>1, <2>2, <3>1, CleanPercentile DEF BaselineClean
  <2>3. CASE ~Enough(samples')
    <3>1. held' = held
      BY <1>1, <2>3 DEF Cycle, Observe
    <3> QED BY <3>1 DEF BaselineClean, Clean
  <2> QED BY <2>2, <2>3
<1>2. CASE Restart
  BY <1>2 DEF Restart, BaselineClean
<1>3. CASE UNCHANGED held
  BY <1>3 DEF BaselineClean, Clean
<1> QED BY <1>1, <1>2, <1>3 DEF Next, PollInverter, Change, baseLoadVars, vars

\* The estimate never holds the heat pump's draw, though minutes in which the
\* relay opened are backfilled as the house's: no window has enough of them to
\* fill the percentile's rank.
THEOREM BaseLoadIsTheHouse == ASSUME Robust PROVE Spec => []BaselineClean
<1>1. Init => BaselineClean
  BY DEF Init, BaseLoadInit, BaselineClean
<1>2. HInv /\ HInv' /\ BaselineClean /\ [Next]_vars => BaselineClean'
  BY NextClean
<1> QED BY <1>1, <1>2, HeadroomInvariance, PTL DEF Spec

=============================================================================
