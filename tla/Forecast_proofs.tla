-------------------------- MODULE Forecast_proofs --------------------------
(***************************************************************************)
(* How soon the forecast thread makes up for a failed cycle, what it takes *)
(* for production, and the ratio it makes of it: for every refresh         *)
(* interval, backoff, number of days and history of the plant.             *)
(***************************************************************************)
EXTENDS Forecast, FiniteSetTheorems, WellFoundedInduction, TLAPS

Timers ==
    /\ left \in 0..Refresh /\ age \in 0..(Refresh + 1) /\ calm \in 0..(Refresh + 1)
    /\ parked \in BOOLEAN /\ dbUp \in BOOLEAN

\* Trouble is not calm, nor is a cycle whose connection has died.
NotCalm ==
    /\ dbUp = FALSE \/ sources = "none" => calm = 0
    /\ pc # "sleep" /\ conn # "live" => calm = 0

\* A sleep ends before the forecast is too old, or the calm too long.
InTime ==
    /\ parked = TRUE => calm + left <= Refresh
    /\ parked = FALSE => age + left <= Refresh \/ calm + left <= Backoff
    /\ pc # "sleep" => left = 0
    /\ pc \in {"row", "ratio"} => age = 0

IInv == Timers /\ NotCalm /\ InTime

LEMMA Bounds == Refresh \in Nat /\ Backoff \in Nat /\ Backoff > 0 /\ Backoff <= Refresh
  BY ForecastAssumption

LEMMA InitIInv == Init => IInv
<1> SUFFICES ASSUME Init PROVE IInv
  OBVIOUS
<1>1. parked \in BOOLEAN /\ ~(parked = TRUE)
  BY Zenon DEF Init
<1>2. left = 0 /\ calm = 0 /\ age = Refresh + 1 /\ pc = "sleep" /\ dbUp \in BOOLEAN
  BY DEF Init
<1> QED BY <1>1, <1>2, Bounds DEF IInv, Timers, NotCalm, InTime

\* An exception and the end of a cycle, wherever they happen.
LEMMA FailedInTime ==
    ASSUME IInv, Failed, calm = 0,
           age' = age, calm' = calm, dbUp' = dbUp, sources' = sources
    PROVE  IInv'
<1>1. parked' \in BOOLEAN /\ ~(parked' = TRUE)
  BY Zenon DEF Failed
<1>2. left' = Backoff /\ pc' = "sleep"
  BY DEF Failed, SleepFor
<1> QED BY <1>1, <1>2, Bounds DEF IInv, Timers, NotCalm, InTime

LEMMA AnsweredInTime ==
    ASSUME IInv, age = 0, Finished(FALSE),
           age' = age, calm' = calm, dbUp' = dbUp, sources' = sources
    PROVE  IInv'
<1>1. parked' \in BOOLEAN /\ ~(parked' = TRUE)
  BY Zenon DEF Finished
<1>2. left' = Refresh /\ pc' = "sleep"
  BY DEF Finished, SleepFor
<1> QED BY <1>1, <1>2, Bounds DEF IInv, Timers, NotCalm, InTime

LEMMA PublishedInTime ==
    ASSUME IInv, pc # "sleep", NEW est, Published(est),
           calm' = calm, dbUp' = dbUp, sources' = sources
    PROVE  IInv'
  BY Bounds DEF IInv, Timers, NotCalm, InTime, Published

LEMMA NextIInv == IInv /\ [Next]_vars => IInv'
<1> SUFFICES ASSUME IInv, [Next]_vars PROVE IInv'
  OBVIOUS
<1> USE Bounds DEF IInv, Timers, NotCalm, InTime
<1>1. CASE Begin
  <2>1. CASE Live # "live"
    BY <1>1, <2>1, FailedInTime DEF Begin, Live, worldVars
  <2>2. CASE Live = "live"
    BY <1>1, <2>2 DEF Begin, Live, worldVars
  <2> QED BY <2>1, <2>2
<1>2. CASE Compute
  <2>1. CASE sources = "gti" /\ conn = "live"
    BY <1>2, <2>1 DEF Compute, GtiOfAll, SolarOfSome, worldVars
  <2>2. CASE sources = "gti" /\ conn # "live"
    BY <1>2, <2>2, FailedInTime DEF Compute, GtiOfAll, SolarOfSome, worldVars
  <2>3. CASE sources = "solar"
    BY <1>2, <2>3, PublishedInTime DEF Compute, GtiOfAll, SolarOfSome, worldVars
  <2>4. CASE sources = "none"
    BY <1>2, <2>4 DEF Compute, GtiOfAll, SolarOfSome, Finished, SleepFor, worldVars
  <2> QED BY <1>2, <2>1, <2>2, <2>3, <2>4 DEF Compute, GtiOfAll, SolarOfSome
<1>3. CASE Fit
  <2>1. PICK potential : Published(Calibrated(potential))
    BY <1>3 DEF Fit
  <2> QED BY <1>3, <2>1, PublishedInTime DEF Fit, worldVars
<1>4. CASE WriteForecast
  <2>1. CASE conn # "live"
    BY <1>4, <2>1, FailedInTime DEF WriteForecast, worldVars
  <2>2. CASE conn = "live" /\ estimate = NULL
    BY <1>4, <2>2, AnsweredInTime DEF WriteForecast, worldVars
  <2>3. CASE conn = "live" /\ estimate # NULL
    BY <1>4, <2>3 DEF WriteForecast, worldVars
  <2> QED BY <2>1, <2>2, <2>3
<1>5. CASE UpdatePr
  <2>1. CASE conn # "live"
    BY <1>5, <2>1, FailedInTime DEF UpdatePr, worldVars
  <2>2. CASE conn = "live"
    BY <1>5, <2>2, AnsweredInTime DEF UpdatePr, worldVars
  <2> QED BY <2>1, <2>2
<1>6. CASE Tick
  BY <1>6 DEF Tick, Older, worldVars
<1>7. CASE DatabaseChanges
  BY <1>7 DEF DatabaseChanges
<1>8. CASE SourcesChange
  BY <1>8 DEF SourcesChange, threadVars
<1>9. CASE SetRatio
  BY <1>9 DEF SetRatio, threadVars, worldVars
<1>10. CASE Restart
  <2>1. parked' \in BOOLEAN /\ ~(parked' = TRUE)
    BY <1>10, Zenon DEF Restart
  <2>2. /\ left' = 0 /\ calm' = 0 /\ age' = Refresh + 1 /\ pc' = "sleep"
        /\ UNCHANGED <<dbUp, sources>>
    BY <1>10 DEF Restart, worldVars
  <2> QED BY <2>1, <2>2
<1>11. CASE UNCHANGED vars
  BY <1>11 DEF vars, threadVars, worldVars
<1> QED
  BY <1>1, <1>2, <1>3, <1>4, <1>5, <1>6, <1>7, <1>8, <1>9, <1>10, <1>11 DEF Next, Cycle

\* The timers of the thread, whatever fails and however long: a sleep is over
\* before the forecast is older than the interval, or the calm longer than the
\* backoff.
THEOREM ForecastInvariance == Spec => []IInv
  BY InitIInv, NextIInv, PTL DEF Spec

\* A failed cycle is made up for within the backoff, an unanswered one within
\* the refresh interval (forecast_loop's delay).
THEOREM MadeUpSoon == Spec => []RenewedSoon
<1>1. IInv => RenewedSoon
  BY Bounds DEF IInv, Timers, InTime, RenewedSoon, Current
<1> QED BY <1>1, ForecastInvariance, PTL

-----------------------------------------------------------------------------
(* Sums                                                                    *)

\* The natural numbers are well-ordered.
LEMMA Least ==
    ASSUME NEW T \in SUBSET Nat, T # {}
    PROVE  \E n \in T : \A m \in T : n <= m
<1> DEFINE R == OpToRel(<, Nat)
<1>1. IsWellFoundedOn(R, Nat)
  BY NatLessThanWellFounded
<1>2. PICK n \in T : \A m \in T : ~(<<m, n>> \in R)
  <2> HIDE DEF R
  <2> QED BY <1>1, WFMin
<1>3. R = {ss \in Nat \X Nat : ss[1] < ss[2]}
  BY DEF OpToRel
<1>4. ASSUME NEW m \in T, ~(n <= m) PROVE FALSE
  <2>1. m < n /\ <<m, n>> \in Nat \X Nat
    BY <1>4
  <2>2. <<m, n>> \in R
    BY <1>3, <2>1
  <2> QED BY <1>2, <2>2
<1> QED BY <1>4

\* What holds of 0 and is handed on holds of every natural number.
LEMMA Induction ==
    ASSUME NEW Holds \in SUBSET Nat, 0 \in Holds, \A n \in Holds : n + 1 \in Holds
    PROVE  Holds = Nat
<1> SUFFICES ASSUME Nat \ Holds # {} PROVE FALSE
  OBVIOUS
<1>1. PICK n \in Nat \ Holds : \A m \in Nat \ Holds : n <= m
  BY Least
<1>2. n - 1 \in Nat /\ n - 1 \notin Holds
  <2>1. n # 0 /\ n - 1 + 1 = n
    BY <1>1
  <2> QED BY <1>1, <2>1
<1> QED BY <1>1, <1>2

AnyOf(s) == CHOOSE x \in s : TRUE
Small(S, n) == {s \in SUBSET S : Cardinality(s) <= n}

\* A sum over the subsets of S with at most n elements, as the library's fold has it.
SumUpTo(f, S, n, g) ==
  g = [s \in Small(S, n) |-> IF s = {} THEN 0 ELSE f[AnyOf(s)] + g[s \ {AnyOf(s)}]]

SumsTo(f, S, g) ==
  g = [s \in SUBSET S |-> IF s = {} THEN 0 ELSE f[AnyOf(s)] + g[s \ {AnyOf(s)}]]

LEMMA Subsets ==
    ASSUME NEW S, IsFiniteSet(S), NEW s \in SUBSET S
    PROVE  /\ IsFiniteSet(s) /\ Cardinality(s) \in Nat
           /\ Cardinality(s) <= Cardinality(S) /\ Cardinality(S) \in Nat
           /\ s = {} <=> Cardinality(s) = 0
           /\ s # {} => AnyOf(s) \in s
           /\ \A x \in s : Cardinality(s \ {x}) = Cardinality(s) - 1
<1>1. IsFiniteSet(s) /\ Cardinality(s) <= Cardinality(S)
  BY FS_Subset
<1>2. \A x \in s : Cardinality(s \ {x}) = Cardinality(s) - 1
  BY <1>1, FS_RemoveElement
<1>3. s # {} => AnyOf(s) \in s
  BY DEF AnyOf
<1> QED BY <1>1, <1>2, <1>3, FS_CardinalityType, FS_EmptySet

LEMMA SumUpToExists ==
    ASSUME NEW f, NEW S, IsFiniteSet(S), NEW n \in Nat
    PROVE  \E g : SumUpTo(f, S, n, g)
<1> DEFINE Holds == {k \in Nat : \E g : SumUpTo(f, S, k, g)}
<1>1. 0 \in Holds
  <2> DEFINE g == [s \in Small(S, 0) |-> 0]
  <2>1. \A s \in Small(S, 0) : s = {}
    BY Subsets DEF Small
  <2>2. SumUpTo(f, S, 0, g)
    BY <2>1 DEF SumUpTo
  <2> QED BY <2>2
<1>2. ASSUME NEW k \in Holds PROVE k + 1 \in Holds
  <2>1. PICK g : SumUpTo(f, S, k, g)
    OBVIOUS
  <2> DEFINE h == [s \in Small(S, k + 1) |->
                     IF s = {} THEN 0 ELSE f[AnyOf(s)] + g[s \ {AnyOf(s)}]]
  <2>2. k \in Nat
    OBVIOUS
  <2>3. \A s \in Small(S, k) : s \in Small(S, k + 1) /\ h[s] = g[s]
    <3>1. ASSUME NEW s \in Small(S, k)
          PROVE  s \in Small(S, k + 1) /\ g[s] = IF s = {} THEN 0 ELSE f[AnyOf(s)] + g[s \ {AnyOf(s)}]
      <4>1. s \in Small(S, k + 1)
        BY <2>2, Subsets DEF Small
      <4> QED BY <2>1, <4>1 DEF SumUpTo
    <3> QED BY <3>1
  <2>4. \A s \in Small(S, k + 1) : s # {} => s \ {AnyOf(s)} \in Small(S, k)
    BY <2>2, Subsets DEF Small
  <2>5. \A s \in Small(S, k + 1) :
          h[s] = IF s = {} THEN 0 ELSE f[AnyOf(s)] + h[s \ {AnyOf(s)}]
    BY <2>3, <2>4
  <2>6. SumUpTo(f, S, k + 1, h)
    <3> HIDE DEF h
    <3>1. h = [s \in Small(S, k + 1) |-> h[s]]
      BY DEF h
    <3> QED BY <2>5, <3>1 DEF SumUpTo
  <2> QED BY <2>2, <2>6
<1> HIDE DEF Holds
<1>3. Holds = Nat
  <2>1. Holds \in SUBSET Nat
    BY DEF Holds
  <2> QED BY <1>1, <1>2, <2>1, Induction
<1> QED BY <1>3 DEF Holds

LEMMA SumDefined ==
   ASSUME NEW f, NEW S, IsFiniteSet(S)
   PROVE  \E g : SumsTo(f, S, g) /\ SumFunctionOnSet(f, S) = g[S]
<1>1. Cardinality(S) \in Nat /\ Small(S, Cardinality(S)) = SUBSET S
  BY Subsets DEF Small
<1>2. \E g : SumsTo(f, S, g)
  <2>1. PICK g : SumUpTo(f, S, Cardinality(S), g)
    BY <1>1, SumUpToExists
  <2>2. SumsTo(f, S, g)
    BY <1>1, <2>1 DEF SumUpTo, SumsTo
  <2> QED BY <2>2
<1> DEFINE Fold == CHOOSE g : SumsTo(f, S, g)
<1>3. SumsTo(f, S, Fold)
  BY <1>2
<1>4. SumFunctionOnSet(f, S) = Fold[S]
  BY Zenon DEF SumFunctionOnSet, FoldFunctionOnSet, MapThenFoldSet, SumsTo, AnyOf
<1> QED BY <1>3, <1>4

\* The recursion determines the sum of every subset.
LEMMA SumUnique ==
    ASSUME NEW f, NEW S, IsFiniteSet(S), NEW T, IsFiniteSet(T),
           NEW g, SumsTo(f, S, g), NEW h, SumsTo(f, T, h), NEW s \in SUBSET (S \intersect T)
    PROVE  g[s] = h[s]
<1> DEFINE Wrong == {Cardinality(r) : r \in {r \in SUBSET (S \intersect T) : g[r] # h[r]}}
<1>1. SUFFICES ASSUME Wrong # {} PROVE FALSE
  OBVIOUS
<1>2. Wrong \in SUBSET Nat
  BY Subsets
<1>3. PICK r \in SUBSET (S \intersect T) :
        g[r] # h[r] /\ \A m \in Wrong : Cardinality(r) <= m
  BY <1>1, <1>2, Least
<1>4. CASE r = {}
  BY <1>3, <1>4 DEF SumsTo
<1>5. CASE r # {}
  <2> DEFINE rest == r \ {AnyOf(r)}
  <2>1. rest \in SUBSET (S \intersect T) /\ r \in SUBSET S /\ r \in SUBSET T
    OBVIOUS
  <2>2. Cardinality(rest) = Cardinality(r) - 1 /\ Cardinality(r) \in Nat
    BY <1>5, Subsets
  <2>3. g[rest] = h[rest]
    BY <1>3, <2>1, <2>2
  <2>4. g[r] = f[AnyOf(r)] + g[rest] /\ h[r] = f[AnyOf(r)] + h[rest]
    BY <1>5, <2>1 DEF SumsTo
  <2> QED BY <1>3, <2>3, <2>4
<1> QED BY <1>4, <1>5

LEMMA SumStep ==
    ASSUME NEW f, NEW S, IsFiniteSet(S), S # {}
    PROVE  SumFunctionOnSet(f, S) = f[AnyOf(S)] + SumFunctionOnSet(f, S \ {AnyOf(S)})
<1> DEFINE T == S \ {AnyOf(S)}
<1>1. IsFiniteSet(T) /\ T \in SUBSET (S \intersect T)
  BY Subsets
<1>2. PICK g : SumsTo(f, S, g) /\ SumFunctionOnSet(f, S) = g[S]
  BY SumDefined
<1>3. PICK h : SumsTo(f, T, h) /\ SumFunctionOnSet(f, T) = h[T]
  BY <1>1, SumDefined
<1>4. g[T] = h[T]
  BY <1>1, <1>2, <1>3, SumUnique
<1>5. g[S] = f[AnyOf(S)] + g[T]
  BY <1>2 DEF SumsTo
<1> QED BY <1>2, <1>3, <1>4, <1>5

LEMMA SumEmpty == ASSUME NEW f PROVE SumFunctionOnSet(f, {}) = 0
<1>1. PICK g : SumsTo(f, {}, g) /\ SumFunctionOnSet(f, {}) = g[{}]
  BY FS_EmptySet, SumDefined
<1> QED BY <1>1 DEF SumsTo

\* What holds of a subset whenever it holds of the smaller ones holds of all.
LEMMA SubsetInduction ==
    ASSUME NEW S, IsFiniteSet(S), NEW Good,
           \A s \in SUBSET S :
             (\A r \in SUBSET S : Cardinality(r) < Cardinality(s) => r \in Good) => s \in Good
    PROVE  \A s \in SUBSET S : s \in Good
<1> DEFINE Wrong == {Cardinality(s) : s \in (SUBSET S) \ Good}
<1>1. SUFFICES ASSUME Wrong # {} PROVE FALSE
  OBVIOUS
<1>2. Wrong \in SUBSET Nat
  BY Subsets
<1>3. PICK s \in (SUBSET S) \ Good : \A m \in Wrong : Cardinality(s) <= m
  <2>1. PICK k \in Wrong : \A m \in Wrong : k <= m
    <3> HIDE DEF Wrong
    <3> QED BY <1>1, <1>2, Least
  <2> QED BY <2>1
<1>4. \A r \in SUBSET S : Cardinality(r) < Cardinality(s) => r \in Good
  <2>1. ASSUME NEW r \in SUBSET S, Cardinality(r) < Cardinality(s), r \notin Good PROVE FALSE
    <3>1. Cardinality(r) \in Wrong
      BY <2>1
    <3>2. Cardinality(r) \in Nat /\ Cardinality(s) \in Nat
      BY Subsets
    <3> QED BY <1>3, <2>1, <3>1, <3>2
  <2> QED BY <2>1
<1> QED BY <1>3, <1>4

LEMMA SumType ==
    ASSUME NEW f, NEW S, IsFiniteSet(S), \A x \in S : f[x] \in Nat
    PROVE  SumFunctionOnSet(f, S) \in Nat
<1> DEFINE Good == {s \in SUBSET S : SumFunctionOnSet(f, s) \in Nat}
<1>1. ASSUME NEW s \in SUBSET S,
             \A r \in SUBSET S : Cardinality(r) < Cardinality(s) => r \in Good
      PROVE  s \in Good
  <2>1. CASE s = {}
    BY <2>1, SumEmpty
  <2>2. CASE s # {}
    <3> DEFINE rest == s \ {AnyOf(s)}
    <3>1. IsFiniteSet(s) /\ AnyOf(s) \in s /\ rest \in SUBSET S
      BY <2>2, Subsets
    <3>2. Cardinality(rest) < Cardinality(s)
      BY <2>2, Subsets
    <3>3. SumFunctionOnSet(f, s) = f[AnyOf(s)] + SumFunctionOnSet(f, rest)
      BY <2>2, <3>1, SumStep
    <3>4. SumFunctionOnSet(f, rest) \in Nat
      BY <1>1, <3>1, <3>2
    <3> QED BY <3>1, <3>3, <3>4
  <2> QED BY <2>1, <2>2
<1>2. \A s \in SUBSET S : s \in Good
  <2> HIDE DEF Good
  <2> QED BY <1>1, SubsetInduction
<1> QED BY <1>2

\* A sum does not depend on where it is begun.
LEMMA SumFromAny ==
    ASSUME NEW f, NEW S, IsFiniteSet(S), \A x \in S : f[x] \in Nat
    PROVE  \A x \in S : SumFunctionOnSet(f, S) = f[x] + SumFunctionOnSet(f, S \ {x})
<1> DEFINE Total(s) == SumFunctionOnSet(f, s)
           Good == {s \in SUBSET S : \A x \in s : Total(s) = f[x] + Total(s \ {x})}
<1>0. \A s \in SUBSET S : Total(s) \in Nat /\ (s # {} => Total(s) = f[AnyOf(s)] + Total(s \ {AnyOf(s)}))
  <2>1. ASSUME NEW s \in SUBSET S
        PROVE  Total(s) \in Nat /\ (s # {} => Total(s) = f[AnyOf(s)] + Total(s \ {AnyOf(s)}))
    <3>1. IsFiniteSet(s) /\ \A x \in s : f[x] \in Nat
      BY Subsets
    <3> QED BY <3>1, SumType, SumStep
  <2> QED BY <2>1
<1> HIDE DEF Total
<1>1. ASSUME NEW s \in SUBSET S,
             \A r \in SUBSET S : Cardinality(r) < Cardinality(s) => r \in Good
      PROVE  s \in Good
  <2>1. SUFFICES ASSUME NEW x \in s PROVE Total(s) = f[x] + Total(s \ {x})
    OBVIOUS
  <2> DEFINE c == AnyOf(s)
  <2>2. c \in s /\ Total(s) = f[c] + Total(s \ {c})
    BY <1>0, Subsets
  <2> HIDE DEF c
  <2>3. CASE x = c
    BY <2>2, <2>3
  <2>4. CASE x # c
    <3>1. s \ {c} \in Good /\ s \ {x} \in Good
      <4>1. Cardinality(s) \in Nat /\ Cardinality(s \ {c}) = Cardinality(s) - 1
            /\ Cardinality(s \ {x}) = Cardinality(s) - 1
        BY <2>2, Subsets
      <4>2. s \ {c} \in SUBSET S /\ s \ {x} \in SUBSET S
        OBVIOUS
      <4> HIDE DEF Good
      <4> QED BY <1>1, <4>1, <4>2
    <3>2. Total(s \ {c}) = f[x] + Total((s \ {c}) \ {x})
      BY <2>4, <3>1
    <3>3. Total(s \ {x}) = f[c] + Total((s \ {x}) \ {c})
      BY <2>2, <2>4, <3>1
    <3>4. (s \ {c}) \ {x} = (s \ {x}) \ {c}
      OBVIOUS
    <3>5. /\ Total((s \ {x}) \ {c}) \in Nat /\ f[x] \in Nat /\ f[c] \in Nat
          /\ Total(s) = f[c] + (f[x] + Total((s \ {x}) \ {c}))
      <4>1. Total((s \ {x}) \ {c}) \in Nat /\ f[x] \in Nat /\ f[c] \in Nat
        BY <1>0, <2>2
      <4> QED BY <2>2, <3>2, <3>4, <4>1
    <3> QED BY <3>3, <3>5
  <2> QED BY <2>3, <2>4
<1>2. \A s \in SUBSET S : s \in Good
  <2> HIDE DEF Good
  <2> QED BY <1>1, SubsetInduction
<1> QED BY <1>2 DEF Total
-----------------------------------------------------------------------------
(* The rows of energy_meter                                                *)

\* What one row of the table may be after the one before it.
Follows(i) ==
    LET last == table[i - 1]  row == table[i]
    IN /\ last.day <= row.day /\ last.total <= row.total /\ last.resets <= row.resets
       /\ Gains[i] \in Nat /\ Gains[i] <= row.total - last.total
       /\ last.resets = row.resets => Gains[i] = row.total - last.total

Meter == table \in Seq(MeterRows) /\ \A i \in DOMAIN table \ {1} : Follows(i)

LEMMA MaxOrNothing ==
    ASSUME NEW n \in Int
    PROVE  Max({n, 0}) = IF n > 0 THEN n ELSE 0
<1> DEFINE top == IF n > 0 THEN n ELSE 0
<1>1. top \in {n, 0} /\ \A y \in {n, 0} : top >= y
  OBVIOUS
<1>2. \A x \in {n, 0} : (\A y \in {n, 0} : x >= y) => x = top
  OBVIOUS
<1> HIDE DEF top
<1>3. Max({n, 0}) = top
  BY <1>1, <1>2 DEF Max
<1> QED BY <1>3 DEF top

FirstRow == [day |-> 0, counter |-> 1, total |-> 0, resets |-> 0]

\* The recursive function of History, of any length.
RowsUpTo(steps, n, row) ==
    row = [i \in 1..(n + 1) |->
             IF i = 1 THEN FirstRow ELSE RowAfter(row[i - 1], steps[i - 1])]

LEMMA RowsExist ==
    ASSUME NEW steps, NEW n \in Nat
    PROVE  \E row : RowsUpTo(steps, n, row)
<1> DEFINE Holds == {k \in Nat : \E row : RowsUpTo(steps, k, row)}
<1>1. 0 \in Holds
  <2>1. RowsUpTo(steps, 0, [i \in 1..1 |-> FirstRow])
    BY DEF RowsUpTo
  <2> QED BY <2>1
<1>2. ASSUME NEW k \in Holds PROVE k + 1 \in Holds
  <2>1. k \in Nat
    OBVIOUS
  <2>2. PICK row : RowsUpTo(steps, k, row)
    OBVIOUS
  <2> DEFINE more == [i \in 1..(k + 2) |->
                        IF i = 1 THEN FirstRow ELSE RowAfter(row[i - 1], steps[i - 1])]
  <2>3. \A i \in 1..(k + 1) : more[i] = row[i]
    BY <2>1, <2>2 DEF RowsUpTo
  <2>4. \A i \in 1..(k + 2) :
          more[i] = IF i = 1 THEN FirstRow ELSE RowAfter(more[i - 1], steps[i - 1])
    <3>1. ASSUME NEW i \in 1..(k + 2), i # 1
          PROVE  more[i] = RowAfter(more[i - 1], steps[i - 1])
      <4>1. i - 1 \in 1..(k + 1) /\ more[i] = RowAfter(row[i - 1], steps[i - 1])
        BY <2>1, <3>1
      <4> HIDE DEF more
      <4> QED BY <2>3, <4>1
    <3> QED BY <2>1, <3>1
  <2>5. RowsUpTo(steps, k + 1, more)
    <3>1. more = [i \in 1..(k + 1 + 1) |-> more[i]]
      BY <2>1
    <3>2. 1..(k + 1 + 1) = 1..(k + 2)
      BY <2>1
    <3> HIDE DEF more
    <3> QED BY <2>4, <3>1, <3>2 DEF RowsUpTo
  <2> QED BY <2>1, <2>5
<1>3. Holds = Nat
  <2>1. Holds \in SUBSET Nat
    OBVIOUS
  <2> HIDE DEF Holds
  <2> QED BY <1>1, <1>2, <2>1, Induction
<1> QED BY <1>3

LEMMA HistoryRows ==
    ASSUME NEW steps \in [1..Length -> Intervals]
    PROVE  /\ History(steps) = [i \in 1..(Length + 1) |-> History(steps)[i]]
           /\ DOMAIN History(steps) = 1..(Length + 1)
           /\ History(steps)[1] = FirstRow
           /\ \A i \in 2..(Length + 1) :
                History(steps)[i] = RowAfter(History(steps)[i - 1], steps[i - 1])
<1>0. Length \in Nat
  BY ForecastAssumption
<1> DEFINE rows == CHOOSE row : RowsUpTo(steps, Length, row)
<1>1. RowsUpTo(steps, Length, rows)
  BY <1>0, RowsExist
<1>2. History(steps) = rows
  BY Zenon DEF History, RowsUpTo, FirstRow
<1> HIDE DEF rows
<1>3. \A i \in 1..(Length + 1) :
        rows[i] = IF i = 1 THEN FirstRow ELSE RowAfter(rows[i - 1], steps[i - 1])
  BY <1>0, <1>1 DEF RowsUpTo
<1>4. DOMAIN rows = 1..(Length + 1)
  BY <1>1 DEF RowsUpTo
<1>5. rows = [i \in 1..(Length + 1) |-> rows[i]]
  BY <1>1 DEF RowsUpTo
<1>6. rows[1] = FirstRow /\ \A i \in 2..(Length + 1) : rows[i] = RowAfter(rows[i - 1], steps[i - 1])
  BY <1>0, <1>3
<1> QED BY <1>2, <1>4, <1>5, <1>6, Zenon

LEMMA RowAfterType ==
    ASSUME NEW last \in MeterRows,
           NEW step \in [before : Nat, reset : BOOLEAN, after : Nat, days : Nat]
    PROVE  RowAfter(last, step) \in MeterRows
<1>1. /\ last.day \in Nat /\ last.counter \in Nat /\ last.total \in Nat /\ last.resets \in Nat
      /\ step.before \in Nat /\ step.after \in Nat /\ step.days \in Nat
  BY DEF MeterRows
<1>2. CASE step.reset = TRUE
  BY <1>1, <1>2 DEF RowAfter, MeterRows
<1>3. CASE step.reset = FALSE
  BY <1>1, <1>3 DEF RowAfter, MeterRows
<1> QED BY <1>2, <1>3

LEMMA HistoryType ==
    ASSUME NEW steps \in [1..Length -> Intervals]
    PROVE  History(steps) \in Seq(MeterRows)
<1> DEFINE rows == History(steps)
           Holds == {k \in Nat : k + 1 \in DOMAIN rows => rows[k + 1] \in MeterRows}
<1>0. Length \in Nat
  BY ForecastAssumption
<1>1. 0 \in Holds
  BY HistoryRows DEF FirstRow, MeterRows
<1>2. ASSUME NEW k \in Holds PROVE k + 1 \in Holds
  <2>1. SUFFICES ASSUME k + 2 \in DOMAIN rows PROVE rows[k + 2] \in MeterRows
    <3>1. k \in Nat /\ k + 1 + 1 = k + 2
      OBVIOUS
    <3> QED BY <3>1
  <2>2. k \in Nat /\ k + 2 \in 2..(Length + 1) /\ k + 1 \in 1..Length
        /\ k + 1 \in DOMAIN rows /\ k + 2 - 1 = k + 1
    BY <1>0, <2>1, HistoryRows
  <2>3. rows[k + 2] = RowAfter(rows[k + 1], steps[k + 1])
    <3>1. rows[k + 2] = RowAfter(rows[k + 2 - 1], steps[k + 2 - 1])
      <4>1. \A i \in 2..(Length + 1) : rows[i] = RowAfter(rows[i - 1], steps[i - 1])
        BY HistoryRows
      <4> HIDE DEF rows
      <4> QED BY <2>2, <4>1
    <3> QED BY <2>2, <3>1
  <2>4. rows[k + 1] \in MeterRows
    BY <2>2
  <2>5. steps[k + 1] \in [before : Nat, reset : BOOLEAN, after : Nat, days : Nat]
    BY <2>2, ForecastAssumption
  <2> HIDE DEF rows
  <2> QED BY <2>3, <2>4, <2>5, RowAfterType
<1>3. Holds = Nat
  <2>1. Holds \in SUBSET Nat
    OBVIOUS
  <2> HIDE DEF Holds
  <2> QED BY <1>1, <1>2, <2>1, Induction
<1>4. \A i \in 1..(Length + 1) : rows[i] \in MeterRows
  <2>1. ASSUME NEW i \in 1..(Length + 1) PROVE rows[i] \in MeterRows
    <3>1. i - 1 \in Nat /\ i - 1 + 1 = i /\ i \in DOMAIN rows
      BY <1>0, HistoryRows
    <3>2. i - 1 \in Holds
      BY <1>3, <3>1
    <3> QED BY <3>1, <3>2
  <2> QED BY <2>1
<1>5. rows = [i \in 1..(Length + 1) |-> rows[i]]
  BY HistoryRows
<1> HIDE DEF rows
<1>6. rows \in [1..(Length + 1) -> MeterRows]
  BY <1>4, <1>5
<1> QED BY <1>0, <1>6 DEF rows

\* The counter shows no more than was produced, and all of it unless it was reset.
LEMMA RowFollows ==
    ASSUME NEW last \in MeterRows,
           NEW step \in [before : Nat, reset : BOOLEAN, after : Nat, days : Nat],
           NEW row, row = RowAfter(last, step),
           NEW gain, gain = Max({row.counter - last.counter, 0})
    PROVE  /\ last.day <= row.day /\ last.total <= row.total /\ last.resets <= row.resets
           /\ gain \in Nat /\ gain <= row.total - last.total
           /\ last.resets = row.resets => gain = row.total - last.total
<1>1. /\ last.day \in Nat /\ last.counter \in Nat /\ last.total \in Nat /\ last.resets \in Nat
      /\ step.before \in Nat /\ step.after \in Nat /\ step.days \in Nat
  BY DEF MeterRows
<1>2. row.day = last.day + step.days /\ row.total = last.total + step.before + step.after
  BY DEF RowAfter
<1>3. gain = IF row.counter - last.counter > 0 THEN row.counter - last.counter ELSE 0
  <2>1. row.counter - last.counter \in Int
    BY RowAfterType DEF MeterRows
  <2> QED BY <2>1, MaxOrNothing
<1>4. CASE step.reset = TRUE
  <2>1. row.counter = step.after /\ row.resets = last.resets + 1
    BY <1>4 DEF RowAfter
  <2> QED BY <1>1, <1>2, <1>3, <2>1
<1>5. CASE step.reset = FALSE
  <2>1. row.counter = last.counter + step.before + step.after /\ row.resets = last.resets + 0
    BY <1>5 DEF RowAfter
  <2> QED BY <1>1, <1>2, <1>3, <2>1
<1> QED BY <1>4, <1>5

LEMMA HistoryMeter ==
    ASSUME NEW steps \in [1..Length -> Intervals], table' = History(steps)
    PROVE  Meter'
<1>0. Length \in Nat
  BY ForecastAssumption
<1>1. table' \in Seq(MeterRows) /\ DOMAIN table' = 1..(Length + 1)
  BY HistoryType, HistoryRows
<1>2. ASSUME NEW i \in DOMAIN table' \ {1} PROVE Follows(i)'
  <2>1. i \in 2..(Length + 1) /\ i - 1 \in 1..Length /\ i \in 1..(Length + 1)
    BY <1>0, <1>1
  <2>2. table'[i] = RowAfter(table'[i - 1], steps[i - 1])
    BY <2>1, HistoryRows
  <2>3. steps[i - 1] \in [before : Nat, reset : BOOLEAN, after : Nat, days : Nat]
    BY <2>1, ForecastAssumption
  <2>4. table'[i - 1] \in MeterRows
    BY <1>0, <1>1, <2>1
  <2>5. Gains'[i] = Max({table'[i].counter - table'[i - 1].counter, 0})
    BY <1>2 DEF Gains
  <2> QED BY <2>2, <2>3, <2>4, <2>5, RowFollows, Zenon DEF Follows
<1> QED BY <1>1, <1>2 DEF Meter

LEMMA MeterTypes ==
    ASSUME Meter
    PROVE  /\ DOMAIN table = 1..Len(table) /\ Len(table) \in Nat
           /\ \A i \in DOMAIN table :
                i \in Nat /\ table[i].day \in Nat /\ table[i].total \in Nat /\ table[i].resets \in Nat
           /\ \A i \in DOMAIN table \ {1} : i \in Nat /\ i - 1 \in DOMAIN table /\ i >= 2
<1>1. DOMAIN table = 1..Len(table) /\ Len(table) \in Nat
  BY DEF Meter
<1>2. \A i \in DOMAIN table : table[i] \in MeterRows
  BY DEF Meter
<1>3. \A r \in MeterRows : r.day \in Nat /\ r.total \in Nat /\ r.resets \in Nat
  BY DEF MeterRows
<1> QED BY <1>1, <1>2, <1>3

\* The sum of the gains over a stretch of rows is what was produced from the row
\* before it on.
LEMMA Stretch ==
    ASSUME Meter,
           NEW k \in Nat, NEW a \in DOMAIN table \ {1}, a + k \in DOMAIN table
    PROVE  LET before == table[a - 1]  last == table[a + k]
               sum == SumFunctionOnSet(Gains, a..(a + k))
           IN /\ before.day <= last.day /\ before.resets <= last.resets
              /\ sum <= last.total - before.total
              /\ before.resets = last.resets => sum = last.total - before.total
<1> DEFINE Fits(b, c) ==
              LET before == table[b - 1]  last == table[c]
                  sum == SumFunctionOnSet(Gains, b..c)
              IN /\ before.day <= last.day /\ before.resets <= last.resets
                 /\ sum <= last.total - before.total
                 /\ before.resets = last.resets => sum = last.total - before.total
           Holds == {n \in Nat : \A b \in DOMAIN table \ {1} :
                                    b + n \in DOMAIN table => Fits(b, b + n)}
<1>0. /\ DOMAIN table = 1..Len(table) /\ Len(table) \in Nat
      /\ \A i \in DOMAIN table :
           /\ table[i].day \in Nat /\ table[i].total \in Nat /\ table[i].resets \in Nat
      /\ \A i \in DOMAIN table \ {1} : i \in Nat /\ i - 1 \in DOMAIN table
  BY MeterTypes
<1>1. \A i \in DOMAIN table \ {1} :
        /\ table[i - 1].day <= table[i].day /\ table[i - 1].resets <= table[i].resets
        /\ Gains[i] \in Nat /\ Gains[i] <= table[i].total - table[i - 1].total
        /\ table[i - 1].resets = table[i].resets
             => Gains[i] = table[i].total - table[i - 1].total
  BY DEF Meter, Follows
<1>2. ASSUME NEW b \in DOMAIN table \ {1}, NEW n \in Nat, b + n \in DOMAIN table
      PROVE  /\ IsFiniteSet(b..(b + n)) /\ \A i \in b..(b + n) : Gains[i] \in Nat
             /\ SumFunctionOnSet(Gains, b..(b + n)) \in Nat
  <2>1. b \in Int /\ b + n \in Int /\ b >= 2
    BY <1>0, <1>2
  <2>2. IsFiniteSet(b..(b + n))
    BY <2>1, FS_Interval
  <2>3. \A i \in b..(b + n) : Gains[i] \in Nat
    <3>1. ASSUME NEW i \in b..(b + n) PROVE i \in DOMAIN table \ {1}
      BY <1>0, <1>2, <2>1
    <3> QED BY <1>1, <3>1
  <2> QED BY <2>2, <2>3, SumType
<1>3. 0 \in Holds
  <2>1. SUFFICES ASSUME NEW b \in DOMAIN table \ {1} PROVE Fits(b, b)
    <3>1. \A b \in DOMAIN table \ {1} : b + 0 = b
      BY <1>0
    <3> QED BY <2>1, <3>1
  <2>2. b..b = {b} /\ b + 0 = b /\ b \in Int
    BY <1>0
  <2>3. SumFunctionOnSet(Gains, {b}) = Gains[b] + 0
    <3>1. IsFiniteSet({b}) /\ \A i \in {b} : Gains[i] \in Nat
      BY <1>1, FS_Singleton
    <3>2. SumFunctionOnSet(Gains, {b}) = Gains[b] + SumFunctionOnSet(Gains, {b} \ {b})
      BY <3>1, SumFromAny
    <3>3. {b} \ {b} = {}
      OBVIOUS
    <3> QED BY <3>2, <3>3, SumEmpty
  <2>4. SumFunctionOnSet(Gains, b..b) = Gains[b]
    BY <1>1, <2>2, <2>3
  <2> QED BY <1>1, <2>4
<1>4. ASSUME NEW n \in Holds PROVE n + 1 \in Holds
  <2>1. n \in Nat /\ n + 1 \in Nat
    OBVIOUS
  <2>2. SUFFICES ASSUME NEW b \in DOMAIN table \ {1}, b + (n + 1) \in DOMAIN table
                 PROVE  Fits(b, b + (n + 1))
    BY <2>1
  <2> DEFINE c == b + (n + 1)
             part == SumFunctionOnSet(Gains, b..(b + n))
             sum == SumFunctionOnSet(Gains, b..c)
  <2>3. /\ b \in Nat /\ c \in Nat /\ c \in DOMAIN table \ {1} /\ c - 1 = b + n
        /\ b + n \in DOMAIN table /\ b - 1 \in DOMAIN table
        /\ c \in b..c /\ (b..c) \ {c} = b..(b + n)
    BY <1>0, <2>1, <2>2
  <2>4. Fits(b, b + n)
    BY <2>3
  <2>5. sum = Gains[c] + part
    <3>1. IsFiniteSet(b..c) /\ \A i \in b..c : Gains[i] \in Nat
      BY <1>2, <2>1, <2>2
    <3>2. sum = Gains[c] + SumFunctionOnSet(Gains, (b..c) \ {c})
      <4> HIDE DEF c
      <4> QED BY <2>3, <3>1, SumFromAny
    <3> QED BY <2>3, <3>2
  <2>6. part \in Nat
    BY <1>2, <2>1, <2>3
  <2>7. /\ table[b - 1].day <= table[c - 1].day /\ table[b - 1].resets <= table[c - 1].resets
        /\ part <= table[c - 1].total - table[b - 1].total
        /\ table[b - 1].resets = table[c - 1].resets
             => part = table[c - 1].total - table[b - 1].total
    BY <2>3, <2>4
  <2> HIDE DEF part, sum, c
  <2>8. /\ table[c - 1].day <= table[c].day /\ table[c - 1].resets <= table[c].resets
        /\ Gains[c] \in Nat /\ Gains[c] <= table[c].total - table[c - 1].total
        /\ table[c - 1].resets = table[c].resets
             => Gains[c] = table[c].total - table[c - 1].total
    BY <1>1, <2>3
  <2>9. /\ table[c].day \in Nat /\ table[c].total \in Nat /\ table[c].resets \in Nat
        /\ table[c - 1].day \in Nat /\ table[c - 1].total \in Nat /\ table[c - 1].resets \in Nat
        /\ table[b - 1].day \in Nat /\ table[b - 1].total \in Nat /\ table[b - 1].resets \in Nat
    BY <1>0, <2>3
  <2>10. /\ table[b - 1].day <= table[c].day /\ table[b - 1].resets <= table[c].resets
         /\ sum <= table[c].total - table[b - 1].total
         /\ table[b - 1].resets = table[c].resets
              => sum = table[c].total - table[b - 1].total
    <3> DEFINE d0 == table[b - 1].day     d1 == table[c - 1].day     d2 == table[c].day
               r0 == table[b - 1].resets  r1 == table[c - 1].resets  r2 == table[c].resets
               t0 == table[b - 1].total   t1 == table[c - 1].total   t2 == table[c].total
               gain == Gains[c]
    <3>1. /\ d0 \in Nat /\ d1 \in Nat /\ d2 \in Nat /\ d0 <= d1 /\ d1 <= d2
          /\ r0 \in Nat /\ r1 \in Nat /\ r2 \in Nat /\ r0 <= r1 /\ r1 <= r2
          /\ t0 \in Nat /\ t1 \in Nat /\ t2 \in Nat
      BY <2>7, <2>8, <2>9
    <3>2. /\ part \in Nat /\ part <= t1 - t0 /\ (r0 = r1 => part = t1 - t0)
          /\ gain \in Nat /\ gain <= t2 - t1 /\ (r1 = r2 => gain = t2 - t1)
          /\ sum = gain + part
      BY <2>5, <2>6, <2>7, <2>8
    <3> HIDE DEF d0, d1, d2, r0, r1, r2, t0, t1, t2, gain
    <3>3. d0 <= d2 /\ r0 <= r2 /\ sum <= t2 - t0
      BY <3>1, <3>2
    <3>4. r0 = r2 => sum = t2 - t0
      BY <3>1, <3>2
    <3> QED BY <3>3, <3>4 DEF d0, d2, r0, r2, t0, t2
  <2> QED BY <2>10 DEF sum, c
<1>5. Holds = Nat
  <2>1. Holds \in SUBSET Nat
    OBVIOUS
  <2> HIDE DEF Holds
  <2> QED BY <1>3, <1>4, <2>1, Induction
<1> HIDE DEF Fits
<1>6. Fits(a, a + k)
  BY <1>5
<1> QED BY <1>6 DEF Fits

LEMMA Extremes ==
    ASSUME NEW n \in Nat, NEW S \in SUBSET (1..n), S # {}
    PROVE  /\ Min(S) \in S /\ Max(S) \in S
           /\ \A i \in S : Min(S) <= i /\ i <= Max(S)
<1>1. \E x \in S : \A y \in S : x <= y
  <2>1. S \in SUBSET Nat
    OBVIOUS
  <2> QED BY <2>1, Least
<1>2. \E x \in S : \A y \in S : x >= y
  <2> DEFINE below == {n - i : i \in S}
  <2>1. below \in SUBSET Nat /\ below # {}
    <3>1. \A i \in S : n - i \in Nat
      OBVIOUS
    <3> QED BY <3>1
  <2>2. PICK m \in below : \A k \in below : m <= k
    <3> HIDE DEF below
    <3> QED BY <2>1, Least
  <2>3. PICK x \in S : m = n - x
    OBVIOUS
  <2>4. ASSUME NEW y \in S PROVE x >= y
    <3>1. n - y \in below /\ n - x <= n - y
      BY <2>2, <2>3
    <3> QED BY <3>1
  <2> QED BY <2>4
<1>3. Min(S) \in S /\ \A y \in S : Min(S) <= y
  BY <1>1, Zenon DEF Min
<1>4. Max(S) \in S /\ \A y \in S : Max(S) >= y
  BY <1>2, Zenon DEF Max
<1> QED BY <1>3, <1>4

\* The rows are in the order of their days: those of a day are consecutive.
LEMMA DaysConsecutive ==
    ASSUME Meter, NEW day \in MeasuredDays
    PROVE  LET lo == Min(Deltas(day))  hi == Max(Deltas(day))
           IN /\ lo \in DOMAIN table \ {1} /\ hi \in DOMAIN table /\ hi - lo \in Nat
              /\ Deltas(day) = lo..hi
<1> DEFINE rows == Deltas(day)
           lo == Min(rows)
           hi == Max(rows)
<1>0. /\ DOMAIN table = 1..Len(table) /\ Len(table) \in Nat
      /\ \A i \in DOMAIN table : table[i].day \in Nat
  BY MeterTypes
<1>1. rows \in SUBSET (1..Len(table)) /\ rows # {}
  BY <1>0 DEF Deltas, MeasuredDays
<1>2. lo \in rows /\ hi \in rows /\ \A i \in rows : lo <= i /\ i <= hi
  <2> HIDE DEF rows
  <2> QED BY <1>0, <1>1, Extremes
<1>3. lo \in DOMAIN table \ {1} /\ hi \in DOMAIN table \ {1} /\ hi - lo \in Nat
      /\ table[lo].day = day /\ table[hi].day = day /\ lo \in Nat /\ hi \in Nat
  <2>1. /\ lo \in DOMAIN table \ {1} /\ hi \in DOMAIN table \ {1}
        /\ table[lo].day = day /\ table[hi].day = day
    <3> HIDE DEF lo, hi
    <3> QED BY <1>2 DEF Deltas
  <2> HIDE DEF lo, hi
  <2> QED BY <1>0, <1>2, <2>1
<1> HIDE DEF lo, hi
<1>4. ASSUME NEW i \in lo..hi PROVE i \in rows
  <2>1. i \in DOMAIN table \ {1} /\ i \in Nat
    BY <1>0, <1>3
  <2>2. table[lo].day <= table[i].day
    <3>1. CASE i = lo
      BY <1>0, <1>3, <3>1
    <3>2. CASE i # lo
      <4>1. lo + 1 \in DOMAIN table \ {1} /\ i - (lo + 1) \in Nat
            /\ (lo + 1) + (i - (lo + 1)) = i /\ (lo + 1) - 1 = lo
        BY <1>0, <1>3, <2>1, <3>2
      <4>2. table[(lo + 1) - 1].day <= table[(lo + 1) + (i - (lo + 1))].day
        BY <2>1, <4>1, Stretch
      <4> QED BY <4>1, <4>2
    <3> QED BY <3>1, <3>2
  <2>3. table[i].day <= table[hi].day
    <3>1. CASE i = hi
      BY <1>0, <1>3, <3>1
    <3>2. CASE i # hi
      <4>1. i + 1 \in DOMAIN table \ {1} /\ hi - (i + 1) \in Nat
            /\ (i + 1) + (hi - (i + 1)) = hi /\ (i + 1) - 1 = i
        BY <1>0, <1>3, <2>1, <3>2
      <4>2. table[(i + 1) - 1].day <= table[(i + 1) + (hi - (i + 1))].day
        BY <1>3, <4>1, Stretch
      <4> QED BY <4>1, <4>2
    <3> QED BY <3>1, <3>2
  <2>4. table[i].day = day
    BY <1>0, <1>3, <2>1, <2>2, <2>3
  <2> QED BY <2>1, <2>4 DEF Deltas
<1>5. rows = lo..hi
  <2>1. \A i \in rows : i \in lo..hi
    BY <1>1, <1>2, <1>3
  <2> HIDE DEF rows
  <2> QED BY <1>4, <2>1
<1> QED BY <1>3, <1>5 DEF lo, hi

LEMMA MeterMeasured == Meter => MeasuredIsReal
<1> SUFFICES ASSUME Meter, NEW day \in MeasuredDays
             PROVE  LET last == table[Max(Deltas(day))]
                        before == table[Min(Deltas(day)) - 1]
                    IN /\ DailyProduction(day) <= last.total - before.total
                       /\ last.resets = before.resets
                            => DailyProduction(day) = last.total - before.total
  BY DEF MeasuredIsReal
<1> DEFINE lo == Min(Deltas(day))
           hi == Max(Deltas(day))
           n == hi - lo
<1>1. /\ lo \in DOMAIN table \ {1} /\ hi \in DOMAIN table /\ n \in Nat
      /\ Deltas(day) = lo..hi
  BY DaysConsecutive
<1> HIDE DEF lo, hi
<1>2. lo + n = hi
  <2>1. DOMAIN table = 1..Len(table) /\ Len(table) \in Nat
    BY DEF Meter
  <2> QED BY <1>1, <2>1
<1> HIDE DEF n
<1>3. DailyProduction(day) = SumFunctionOnSet(Gains, lo..(lo + n))
  BY <1>1, <1>2 DEF DailyProduction
<1>4. /\ SumFunctionOnSet(Gains, lo..(lo + n)) <= table[lo + n].total - table[lo - 1].total
      /\ table[lo - 1].resets = table[lo + n].resets
           => SumFunctionOnSet(Gains, lo..(lo + n)) = table[lo + n].total - table[lo - 1].total
  <2>1. lo + n \in DOMAIN table
    BY <1>1, <1>2
  <2> QED BY <1>1, <2>1, Stretch
<1> QED BY <1>2, <1>3, <1>4 DEF lo, hi
-----------------------------------------------------------------------------
(* The ratio                                                               *)

\* What the clamp of the next load leaves alone.
Plausible(r) == 30 * r.d <= 100 * r.n /\ 100 * r.n <= 100 * r.d

LEMMA ClampedPlausible ==
    ASSUME NEW r \in Fractions
    PROVE  /\ Clamped(r) \in Fractions /\ Plausible(Clamped(r))
           /\ Plausible(r) => Clamped(r) = r
<1>1. r.n \in Nat /\ r.d \in Nat /\ r.d # 0
  BY DEF Fractions
<1>2. \A n \in Nat : Percent(n) \in Fractions /\ Percent(n).n = n /\ Percent(n).d = 100
  BY DEF Percent, Fractions
<1>3. CASE ~AtMost(Percent(30), r)
  <2>1. Clamped(r) = Percent(30)
    <3>1. AtMost(r, Percent(100))
      BY <1>1, <1>2, <1>3 DEF AtMost
    <3> QED BY <1>3, <3>1 DEF Clamped
  <2>2. ~Plausible(r)
    BY <1>1, <1>2, <1>3 DEF AtMost, Plausible
  <2> QED BY <1>2, <2>1, <2>2 DEF Plausible
<1>4. CASE AtMost(Percent(30), r) /\ ~AtMost(r, Percent(100))
  <2>1. Clamped(r) = Percent(100)
    BY <1>4 DEF Clamped
  <2>2. ~Plausible(r)
    BY <1>1, <1>2, <1>4 DEF AtMost, Plausible
  <2> QED BY <1>2, <2>1, <2>2 DEF Plausible
<1>5. CASE AtMost(Percent(30), r) /\ AtMost(r, Percent(100))
  <2>1. Clamped(r) = r
    BY <1>5 DEF Clamped
  <2>2. Plausible(r)
    BY <1>1, <1>2, <1>5 DEF AtMost, Plausible
  <2> QED BY <2>1, <2>2
<1> QED BY <1>3, <1>4, <1>5

\* Sums are in a ratio every pair of their terms is in.
LEMMA RatioOfSums ==
    ASSUME NEW p, NEW q, NEW S, IsFiniteSet(S),
           \A x \in S : /\ p[x] \in Nat /\ q[x] \in Nat /\ q[x] > 0
                        /\ 40 * q[x] <= 100 * p[x] /\ 100 * p[x] <= 85 * q[x]
    PROVE  /\ SumFunctionOnSet(p, S) \in Nat /\ SumFunctionOnSet(q, S) \in Nat
           /\ S # {} => SumFunctionOnSet(q, S) > 0
           /\ 40 * SumFunctionOnSet(q, S) <= 100 * SumFunctionOnSet(p, S)
           /\ 100 * SumFunctionOnSet(p, S) <= 85 * SumFunctionOnSet(q, S)
<1> DEFINE A(s) == SumFunctionOnSet(p, s)
           B(s) == SumFunctionOnSet(q, s)
           Good == {s \in SUBSET S : /\ A(s) \in Nat /\ B(s) \in Nat /\ (s # {} => B(s) > 0)
                                     /\ 40 * B(s) <= 100 * A(s) /\ 100 * A(s) <= 85 * B(s)}
<1>1. ASSUME NEW s \in SUBSET S,
             \A r \in SUBSET S : Cardinality(r) < Cardinality(s) => r \in Good
      PROVE  s \in Good
  <2>1. CASE s = {}
    <3>1. A(s) = 0 /\ B(s) = 0
      BY <2>1, SumEmpty
    <3> HIDE DEF A, B
    <3> QED BY <2>1, <3>1
  <2>2. CASE s # {}
    <3> DEFINE x == AnyOf(s)
               rest == s \ {x}
    <3>1. x \in s /\ IsFiniteSet(s) /\ rest \in SUBSET S /\ Cardinality(rest) < Cardinality(s)
      BY <2>2, Subsets
    <3>2. A(s) = p[x] + A(rest) /\ B(s) = q[x] + B(rest)
      BY <2>2, <3>1, SumStep
    <3> HIDE DEF x, rest, A, B
    <3>3. /\ A(rest) \in Nat /\ B(rest) \in Nat
          /\ 40 * B(rest) <= 100 * A(rest) /\ 100 * A(rest) <= 85 * B(rest)
      BY <1>1, <3>1
    <3>4. /\ p[x] \in Nat /\ q[x] \in Nat /\ q[x] > 0
          /\ 40 * q[x] <= 100 * p[x] /\ 100 * p[x] <= 85 * q[x]
      BY <3>1
    <3> DEFINE px == p[x]  qx == q[x]  ar == A(rest)  br == B(rest)
    <3>5. A(s) = px + ar /\ B(s) = qx + br
      BY <3>2
    <3>6. /\ px \in Nat /\ qx \in Nat /\ ar \in Nat /\ br \in Nat /\ qx > 0
          /\ 40 * br <= 100 * ar /\ 100 * ar <= 85 * br
          /\ 40 * qx <= 100 * px /\ 100 * px <= 85 * qx
      BY <3>3, <3>4
    <3> HIDE DEF px, qx, ar, br
    <3>7. /\ A(s) \in Nat /\ B(s) \in Nat /\ B(s) > 0
          /\ 40 * B(s) <= 100 * A(s) /\ 100 * A(s) <= 85 * B(s)
      BY <3>5, <3>6
    <3> QED BY <3>7
  <2> QED BY <2>1, <2>2
<1>2. \A s \in SUBSET S : s \in Good
  <2> HIDE DEF Good
  <2> QED BY <1>1, SubsetInduction
<1> HIDE DEF A, B
<1>3. S \in Good
  BY <1>2
<1> QED BY <1>3 DEF A, B

LEMMA FiniteRows == Meter => IsFiniteSet(DOMAIN table \ {1})
<1> SUFFICES ASSUME Meter PROVE IsFiniteSet(DOMAIN table \ {1})
  OBVIOUS
<1>1. DOMAIN table = 1..Len(table) /\ Len(table) \in Int
  BY MeterTypes
<1>2. IsFiniteSet(1..Len(table))
  BY <1>1, FS_Interval
<1>3. DOMAIN table \ {1} \in SUBSET (1..Len(table))
  BY <1>1
<1> QED BY <1>2, <1>3, FS_Subset

LEMMA DailyType == ASSUME Meter, NEW day PROVE DailyProduction(day) \in Nat
<1>1. IsFiniteSet(Deltas(day))
  <2>1. Deltas(day) \in SUBSET (DOMAIN table \ {1})
    BY DEF Deltas
  <2> QED BY <2>1, FiniteRows, FS_Subset
<1>2. \A i \in Deltas(day) : Gains[i] \in Nat
  BY DEF Meter, Follows, Deltas
<1> QED BY <1>1, <1>2, SumType DEF DailyProduction

LEMMA CalibratedPlausible ==
    ASSUME Meter, current \in Fractions, Plausible(current),
           NEW potential \in [MeasuredDays -> Potentials]
    PROVE  Calibrated(potential) \in Fractions /\ Plausible(Calibrated(potential))
<1> DEFINE clean == CleanDays(potential)
           made == [day \in clean |-> DailyProduction(day)]
           a == SumFunctionOnSet(made, clean)
           b == SumFunctionOnSet(potential, clean)
<1>1. CASE Cardinality(clean) < MinDays
  BY <1>1 DEF Calibrated
<1>2. CASE ~(Cardinality(clean) < MinDays)
  <2>1. Calibrated(potential) = [n |-> a, d |-> b]
    BY <1>2 DEF Calibrated, SumFunction
  <2>2. IsFiniteSet(clean)
    <3> DEFINE dayOf == [i \in DOMAIN table \ {1} |-> table[i].day]
    <3>1. dayOf \in Surjection(DOMAIN table \ {1}, MeasuredDays)
      BY DEF Surjection, MeasuredDays
    <3>2. IsFiniteSet(MeasuredDays)
      <4> HIDE DEF dayOf
      <4> QED BY <3>1, FiniteRows, FS_Surjection
    <3>3. clean \in SUBSET MeasuredDays
      BY DEF CleanDays
    <3> QED BY <3>2, <3>3, FS_Subset
  <2>3. clean # {}
    BY <1>2, FS_EmptySet, ForecastAssumption
  <2>4. \A day \in clean : /\ made[day] \in Nat /\ potential[day] \in Nat /\ potential[day] > 0
                           /\ 40 * potential[day] <= 100 * made[day]
                           /\ 100 * made[day] <= 85 * potential[day]
    <3>1. \A day \in clean : made[day] = DailyProduction(day) /\ made[day] \in Nat
      BY DailyType
    <3>2. \A day \in MeasuredDays : potential[day] \in Nat
      BY ForecastAssumption
    <3> HIDE DEF made
    <3> QED BY <3>1, <3>2 DEF CleanDays
  <2> HIDE DEF made, clean
  <2>5. a \in Nat /\ b \in Nat /\ b > 0 /\ 40 * b <= 100 * a /\ 100 * a <= 85 * b
    <3>1. a \in Nat
      BY <2>2, <2>4, RatioOfSums
    <3>2. b \in Nat
      BY <2>2, <2>4, RatioOfSums
    <3>3. b > 0
      BY <2>2, <2>3, <2>4, RatioOfSums
    <3>4. 40 * b <= 100 * a
      BY <2>2, <2>4, RatioOfSums
    <3>5. 100 * a <= 85 * b
      BY <2>2, <2>4, RatioOfSums
    <3> HIDE DEF a, b
    <3> QED BY <3>1, <3>2, <3>3, <3>4, <3>5
  <2> HIDE DEF a, b
  <2>6. Calibrated(potential) \in Fractions
    BY <2>1, <2>5 DEF Fractions
  <2>7. Calibrated(potential).n = a /\ Calibrated(potential).d = b
    BY <2>1
  <2>8. 30 * b <= 100 * a /\ 100 * a <= 100 * b
    BY <2>5
  <2> QED BY <2>6, <2>7, <2>8 DEF Plausible
<1> QED BY <1>1, <1>2

-----------------------------------------------------------------------------
(* The thread's state                                                      *)

Places ==
    /\ pc \in {"sleep", "compute", "fit", "row", "ratio"}
    /\ conn \in {"none", "live", "dead"}
    /\ sources \in {"gti", "solar", "none"}

RatiosPlausible ==
    /\ ratio \in Fractions
    /\ current \in Fractions /\ Plausible(current)
    /\ estimate # NULL => estimate \in Fractions /\ Plausible(estimate)
    /\ pc = "ratio" => estimate # NULL

DataInv == Places /\ Meter /\ RatiosPlausible

LEMMA EmptyMeter == table' = <<>> => Meter'
  BY DEF Meter

LEMMA InitData == Init => DataInv
<1> SUFFICES ASSUME Init PROVE DataInv
  OBVIOUS
<1>1. Places
  BY DEF Init, Places
<1>2. Meter
  BY DEF Init, Meter
<1>3. RatiosPlausible
  BY DEF Init, RatiosPlausible, Percent, Fractions, Plausible
<1> QED BY <1>1, <1>2, <1>3 DEF DataInv

LEMMA NextData == DataInv /\ [Next]_vars => DataInv'
<1> SUFFICES ASSUME DataInv, [Next]_vars PROVE DataInv'
  OBVIOUS
<1>0. UNCHANGED table => Meter'
  BY DEF DataInv, Meter, Follows, Gains
<1> USE DEF DataInv
<1>1. CASE Begin
  <2>1. Places'
    BY <1>1 DEF Places, Begin, Failed, SleepFor, Live, worldVars
  <2>2. RatiosPlausible'
    BY <1>1, ClampedPlausible DEF RatiosPlausible, Begin, Failed, SleepFor, worldVars, Plausible
  <2> QED BY <1>0, <1>1, <2>1, <2>2 DEF Begin
<1>2. CASE Compute
  <2>1. Places'
    BY <1>2 DEF Places, Compute, Published, Failed, Finished, SleepFor, worldVars
  <2>2. RatiosPlausible'
    BY <1>2 DEF RatiosPlausible, Compute, Published, Failed, Finished, SleepFor, worldVars, Plausible
  <2>3. Meter'
    BY <1>0, <1>2, HistoryMeter DEF Compute
  <2> QED BY <2>1, <2>2, <2>3
<1>3. CASE Fit
  <2>1. PICK potential \in [MeasuredDays -> Potentials] : Published(Calibrated(potential))
    BY <1>3 DEF Fit
  <2>2. Places'
    BY <1>3, <2>1 DEF Places, Fit, Published, worldVars
  <2>3. RatiosPlausible'
    <3>1. Calibrated(potential) \in Fractions /\ Plausible(Calibrated(potential))
      BY CalibratedPlausible DEF RatiosPlausible
    <3> QED BY <1>3, <2>1, <3>1 DEF RatiosPlausible, Fit, Published, worldVars, Plausible
  <2> QED BY <1>3, <2>2, <2>3, EmptyMeter DEF Fit
<1>4. CASE WriteForecast
  <2>1. Places'
    BY <1>4 DEF Places, WriteForecast, Failed, Finished, SleepFor, worldVars
  <2>2. RatiosPlausible'
    BY <1>4 DEF RatiosPlausible, WriteForecast, Failed, Finished, SleepFor, worldVars, Plausible
  <2> QED BY <1>0, <1>4, <2>1, <2>2 DEF WriteForecast
<1>5. CASE UpdatePr
  <2>1. Places'
    BY <1>5 DEF Places, UpdatePr, Failed, Finished, SleepFor, worldVars
  <2>2. RatiosPlausible'
    BY <1>5 DEF RatiosPlausible, UpdatePr, Failed, Finished, SleepFor, worldVars, Plausible
  <2> QED BY <1>0, <1>5, <2>1, <2>2 DEF UpdatePr
<1>6. CASE Tick
  BY <1>0, <1>6 DEF Tick, Places, RatiosPlausible, worldVars, Plausible
<1>7. CASE DatabaseChanges
  BY <1>0, <1>7 DEF DatabaseChanges, Places, RatiosPlausible, Plausible
<1>8. CASE SourcesChange
  BY <1>0, <1>8 DEF SourcesChange, Places, RatiosPlausible, threadVars, Plausible
<1>9. CASE SetRatio
  <2>1. ratio' \in Fractions
    BY <1>9, ForecastAssumption DEF SetRatio, Fractions
  <2> QED BY <1>0, <1>9, <2>1 DEF SetRatio, Places, RatiosPlausible, threadVars, worldVars, Plausible
<1>10. CASE Restart
  <2>1. Places'
    BY <1>10 DEF Places, Restart, worldVars
  <2>2. RatiosPlausible'
    BY <1>10 DEF RatiosPlausible, Restart, worldVars, Plausible
  <2> QED BY <1>10, <2>1, <2>2, EmptyMeter DEF Restart
<1>11. CASE UNCHANGED vars
  BY <1>0, <1>11 DEF vars, threadVars, worldVars, Places, RatiosPlausible, Plausible
<1> QED
  BY <1>1, <1>2, <1>3, <1>4, <1>5, <1>6, <1>7, <1>8, <1>9, <1>10, <1>11 DEF Next, Cycle

\* The data of the thread: rows as plant and exporter leave them, and ratios no
\* calibration and no administrator can make implausible.
THEOREM ForecastData == Spec => []DataInv
  BY InitData, NextData, PTL DEF Spec

\* Every ratio, timer and row is of its type; no ratio is written that was not
\* calibrated (forecast_loop).
THEOREM ForecastTypeCorrect == Spec => []TypeOK
<1>1. IInv /\ DataInv => TypeOK
  <2> SUFFICES ASSUME IInv, DataInv PROVE TypeOK
    OBVIOUS
  <2>1. dbUp \in BOOLEAN /\ parked \in BOOLEAN
    BY Zenon DEF IInv, Timers
  <2>2. /\ left \in 0..Refresh /\ (pc # "sleep" => left = 0)
        /\ age \in 0..(Refresh + 1) /\ calm \in 0..(Refresh + 1)
    BY DEF IInv, Timers, InTime
  <2>3. estimate \in Fractions \union {NULL}
    BY DEF DataInv, RatiosPlausible
  <2> QED BY <2>1, <2>2, <2>3, Zenon DEF TypeOK, DataInv, Places, Meter, RatiosPlausible
<1> QED BY <1>1, ForecastInvariance, ForecastData, PTL

\* Whatever the counter does, and however many rows a day has, what
\* daily_production finds was produced, all of it if the counter was not reset.
THEOREM MeasurementIsReal == Spec => []MeasuredIsReal
<1>1. DataInv => MeasuredIsReal
  BY MeterMeasured DEF DataInv
<1> QED BY <1>1, ForecastData, PTL

\* fit_pr over any number of clean days gives a ratio that clamp_config leaves
\* alone, and so does the ratio in force when there are too few.
THEOREM WrittenRatioPlausible == Spec => PlausibleRatio
<1>1. DataInv /\ [Next]_vars => [UpdatePr /\ conn = "live" => Clamped(ratio') = ratio']_vars
  <2> SUFFICES ASSUME DataInv, UpdatePr, conn = "live" PROVE Clamped(ratio') = ratio'
    OBVIOUS
  <2>1. ratio' = estimate /\ estimate \in Fractions /\ Plausible(estimate)
    BY DEF UpdatePr, DataInv, RatiosPlausible
  <2> QED BY <2>1, ClampedPlausible
<1> QED BY <1>1, ForecastData, PTL DEF Spec, PlausibleRatio

=============================================================================
