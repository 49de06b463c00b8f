--------------------------- MODULE Vicare_proofs ---------------------------
(***************************************************************************)
(* The heatpump-exporter keeps quiet after an HTTP 429, and within its     *)
(* budget of calls, for every cooldown, backoff, window and cap, however   *)
(* the vendor, the database and the process behave.                        *)
(***************************************************************************)
EXTENDS Vicare, FiniteSetTheorems, TLAPS

Counters ==
    /\ left \in Nat /\ backoff \in Nat /\ retry \in Nat /\ waited \in Nat
    /\ cooldown \in 0..Cooldown /\ quiet \in 0..Cooldown /\ late \in 0..Cooldown

\* What is left of the quiet time is covered by the cooldown, but for what a poll
\* had waited, or by the sleep between two attempts to connect.
Covered ==
    /\ pc = "sleep" => quiet + late + cooldown >= Cooldown /\ quiet + left >= 1
    /\ pc = "connect" => quiet + late + left >= Cooldown /\ quiet + left >= 1
    /\ pc \in {"request", "record"} => quiet + late >= Cooldown /\ quiet >= 1

QInv == Counters /\ Covered

LEMMA Bounds ==
    /\ Cooldown \in Nat \ {0} /\ MaxBackoff \in Nat /\ Window \in Nat
    /\ Cooldown <= MaxBackoff + 1
  BY VicareAssumption, BudgetAssumption

LEMMA AtMostIsNat ==
    ASSUME NEW n \in Nat, NEW cap \in Nat
    PROVE  AtMost(n, cap) \in 0..cap
  BY DEF AtMost

LEMMA InitQInv == Init => QInv
  BY Bounds DEF Init, QInv, Counters, Covered

\* The end of a cycle, from a state in which the cooldown covers.
LEMMA DoneCovered ==
    ASSUME QInv, NEW cleanly, Done(cleanly),
           retry' = retry, waited' \in Nat,
           cooldown' \in 0..Cooldown, quiet' \in 0..Cooldown, late' \in 0..Cooldown,
           quiet' + late' + cooldown' >= Cooldown
    PROVE  QInv'
<1>1. backoff' \in Nat
  BY Bounds, AtMostIsNat DEF Done, Ramped, QInv, Counters
<1>2. left' \in Nat /\ left' >= 1 /\ pc' = "sleep"
  BY <1>1 DEF Done
<1>3. Covered'
  <2>1. PICK q \in 0..Cooldown : quiet' = q
    OBVIOUS
  <2>2. PICK l \in Nat : left' = l /\ l >= 1
    BY <1>2
  <2>3. quiet' + left' >= 1
    BY <2>1, <2>2, Bounds
  <2> QED BY <1>2, <2>3 DEF Covered
<1> QED BY <1>1, <1>2, <1>3 DEF QInv, Counters

\* One more attempt to connect, after a sleep that covers a 429.
LEMMA SleepCovered ==
    ASSUME QInv, pc' = "connect", UNCHANGED <<waited, backoff, cooldown>>,
           NEW next \in Nat, retry' = next, left' = 1 + next,
           \/ quiet' = 0 /\ late' = 0 /\ next = MaxBackoff
           \/ /\ quiet + late >= Cooldown /\ quiet' = quiet /\ late' = late
    PROVE  QInv'
<1>1. /\ left' \in Nat /\ quiet' \in 0..Cooldown /\ late' \in 0..Cooldown
      /\ quiet' + late' + left' >= Cooldown /\ quiet' + left' >= 1
  BY Bounds DEF QInv, Counters
<1> QED BY <1>1 DEF QInv, Counters, Covered

LEMMA ConnectQInv == QInv /\ Connect => QInv'
<1> SUFFICES ASSUME QInv, Connect PROVE QInv'
  OBVIOUS
<1>1. /\ pc = "connect" /\ left = 0
      /\ UNCHANGED <<backoff, cooldown>>
  BY DEF Connect
<1>2. Ramped(retry) \in Nat /\ quiet + late >= Cooldown /\ quiet >= 1
  BY <1>1, Bounds, AtMostIsNat DEF Ramped, QInv, Counters, Covered
<1>3. CASE Connected
  BY <1>1, <1>3, Bounds DEF Connected, quietVars, QInv, Counters, Covered
<1>4. CASE NotConnected
  <2>1. CASE vendor = "limits"
    <3>1. /\ retry' = MaxBackoff /\ left' = 1 + MaxBackoff /\ quiet' = 0 /\ late' = 0
          /\ UNCHANGED <<pc, waited>>
      BY <1>4, <2>1 DEF NotConnected, TryAgain, NextBackoff, quietVars
    <3> QED BY <1>1, <1>2, <3>1, Bounds, SleepCovered
  <2>2. CASE vendor # "limits"
    <3>1. /\ retry' = Ramped(retry) /\ left' = 1 + Ramped(retry)
          /\ UNCHANGED <<pc, waited, quiet, late>>
      BY <1>4, <2>2 DEF NotConnected, TryAgain, NextBackoff, quietVars
    <3> QED BY <1>1, <1>2, <3>1, SleepCovered
  <2> QED BY <2>1, <2>2
<1>5. CASE Rejected
  <2>1. CASE invalid + 1 < MaxInvalid
    <3>1. /\ retry' = Ramped(retry) /\ left' = 1 + Ramped(retry)
          /\ UNCHANGED <<pc, waited, quiet, late>>
      BY <1>5, <2>1 DEF Rejected, TryAgain, NextBackoff, quietVars
    <3> QED BY <1>1, <1>2, <3>1, SleepCovered
  <2>2. CASE ~(invalid + 1 < MaxInvalid)
    BY <1>1, <1>5, <2>2 DEF Rejected, quietVars, QInv, Counters, Covered
  <2> QED BY <2>1, <2>2
<1> QED BY <1>3, <1>4, <1>5 DEF Connect

LEMMA RequestQInv == QInv /\ Request => QInv'
<1> SUFFICES ASSUME QInv, Request PROVE QInv'
  OBVIOUS
<1>1. quiet + late >= Cooldown /\ quiet >= 1 /\ Counters
  BY DEF Request, QInv, Covered
<1>2. CASE pc' = "record" /\ UNCHANGED <<left, backoff, driverVars, quietVars>>
  BY <1>1, <1>2 DEF driverVars, quietVars, Request, QInv, Counters, Covered
<1>3. CASE /\ late' = AtMost(waited, Cooldown)
           /\ cooldown' = Cooldown - late' /\ quiet' = 0
           /\ Nothing
  <2>1. PICK l \in 0..Cooldown : late' = l
    BY <1>1, <1>3, Bounds, AtMostIsNat DEF Counters
  <2>2. /\ cooldown' \in 0..Cooldown /\ quiet' \in 0..Cooldown /\ late' \in 0..Cooldown
        /\ quiet' + late' + cooldown' >= Cooldown
    BY <1>3, <2>1, Bounds
  <2>3. Done(TRUE) /\ retry' = retry /\ waited' \in Nat
    BY <1>3 DEF Nothing
  <2> QED BY <2>2, <2>3, DoneCovered
<1>4. CASE Nothing /\ UNCHANGED <<cooldown, quietVars>>
  <2>1. /\ Done(TRUE) /\ retry' = retry /\ waited' \in Nat
        /\ cooldown' = cooldown /\ quiet' = quiet /\ late' = late
    BY <1>4 DEF Nothing, quietVars
  <2>2. /\ cooldown' \in 0..Cooldown /\ quiet' \in 0..Cooldown /\ late' \in 0..Cooldown
        /\ quiet' + late' + cooldown' >= Cooldown
    BY <1>1, <2>1, Bounds DEF Counters
  <2> QED BY <2>1, <2>2, DoneCovered
<1> QED BY <1>2, <1>3, <1>4 DEF Request

LEMMA NextQInv == QInv /\ [Next]_vars => QInv'
<1> SUFFICES ASSUME QInv, [Next]_vars PROVE QInv'
  OBVIOUS
<1> USE Bounds
<1>1. CASE Start
  BY <1>1 DEF Start, QInv, Counters, Covered
<1>2. CASE NoDatabase
  BY <1>2, DoneCovered DEF NoDatabase, driverVars, quietVars, QInv, Counters, Covered
<1>3. CASE Poll
  <2>1. CASE cooldown > 0
    <3>1. Done(TRUE) /\ UNCHANGED <<retry, waited, cooldown, quiet, late>>
      BY <1>3, <2>1 DEF Poll, quietVars
    <3>2. pc = "sleep"
      BY <1>3 DEF Poll
    <3> QED BY <3>1, <3>2, DoneCovered DEF QInv, Counters, Covered
  <2>2. CASE ~(cooldown > 0)
    <3>1. /\ pc = "sleep" /\ pc' \in {"request", "connect"} /\ retry' = 0 /\ left = 0
          /\ UNCHANGED <<left, backoff, waited, cooldown, quiet, late>>
      BY <1>3, <2>2 DEF Poll, quietVars
    <3> QED BY <2>2, <3>1 DEF QInv, Counters, Covered
  <2> QED BY <2>1, <2>2
<1>4. CASE Connect
  BY <1>4, ConnectQInv
<1>5. CASE Exhausted
  <2>1. /\ Done(TRUE) /\ retry' = retry /\ waited' \in Nat
        /\ cooldown' = cooldown /\ quiet' = quiet /\ late' = late /\ pc = "request"
    BY <1>5 DEF Exhausted, Nothing, quietVars
  <2>2. /\ cooldown' \in 0..Cooldown /\ quiet' \in 0..Cooldown /\ late' \in 0..Cooldown
        /\ quiet' + late' + cooldown' >= Cooldown
    BY <2>1 DEF QInv, Counters, Covered
  <2> QED BY <2>1, <2>2, DoneCovered
<1>6. CASE Request
  BY <1>6, RequestQInv
<1>7. CASE Record
  BY <1>7, DoneCovered DEF Record, Write, quietVars, QInv, Counters, Covered
<1>8. CASE Crash
  BY <1>8 DEF Crash, quietVars, QInv, Counters, Covered
<1>9. CASE VendorChanges
  BY <1>9 DEF VendorChanges, loopVars, driverVars, quietVars, QInv, Counters, Covered
<1>10. CASE DatabaseChanges
  BY <1>10 DEF DatabaseChanges, driverVars, quietVars, QInv, Counters, Covered
<1>11. CASE Tick
  <2>1. left' \in Nat /\ (pc # "down" => left' = left - 1)
    BY <1>11 DEF Tick, QInv, Counters
  <2>2. waited' \in Nat
    <3>1. waited \in Nat /\ AtMost(waited + 1, Window) \in Nat
      BY AtMostIsNat DEF QInv, Counters
    <3> QED BY <1>11, <3>1 DEF Tick
  <2>3. /\ quiet' = (IF quiet + 1 < Cooldown THEN quiet + 1 ELSE Cooldown)
        /\ cooldown' = (IF cooldown > 0 THEN cooldown - 1 ELSE 0)
        /\ UNCHANGED <<pc, backoff, retry, late>>
    BY <1>11 DEF Tick, AtMost
  <2>4. cooldown' \in 0..Cooldown /\ quiet' \in 0..Cooldown
    BY <2>3 DEF QInv, Counters
  <2>5. Covered'
    <3>1. pc = "connect" => quiet' + late' + left' >= Cooldown /\ quiet' + left' >= 1
      BY <2>1, <2>3 DEF QInv, Counters, Covered
    <3>2. pc = "sleep" => quiet' + late' + cooldown' >= Cooldown /\ quiet' + left' >= 1
      BY <2>1, <2>3 DEF QInv, Counters, Covered
    <3>3. pc \in {"request", "record"} => quiet' + late' >= Cooldown /\ quiet' >= 1
      BY <2>3 DEF QInv, Counters, Covered
    <3> QED BY <2>3, <3>1, <3>2, <3>3 DEF Covered
  <2> QED BY <2>1, <2>2, <2>3, <2>4, <2>5 DEF QInv, Counters
<1>12. CASE UNCHANGED vars
  BY <1>12 DEF vars, loopVars, driverVars, quietVars, QInv, Counters, Covered
<1> QED
  BY <1>1, <1>2, <1>3, <1>4, <1>5, <1>6, <1>7, <1>8, <1>9, <1>10, <1>11, <1>12
     DEF Next, Step

\* Between a 429 and the next request lies a cooldown or a sleep that covers it,
\* but for what the poll that met it had waited.
THEOREM QuietInvariance == Spec => []QInv
  BY InitQInv, NextQInv, PTL DEF Spec

\* After a 429, met by a poll or by an attempt to connect, the vendor is asked
\* nothing for a poll period, and until the cooldown is over that counts from the
\* beginning of the poll or from the attempt (VicareDriver.poll, _next_backoff).
THEOREM StaysQuiet == Spec => QuietAfterLimit
<1>1. QInv /\ (Connect \/ Request) => quiet >= 1 /\ quiet + late >= Cooldown
  BY Bounds DEF QInv, Counters, Covered, Connect, Request
<1>2. QInv /\ [Next]_vars => [Connect \/ Request => quiet >= 1 /\ quiet + late >= Cooldown]_vars
  BY <1>1
<1> QED BY <1>2, QuietInvariance, PTL DEF Spec, QuietAfterLimit

-----------------------------------------------------------------------------
(* Types                                                                   *)

\* What becomes of a budget is a budget.
LEMMA BudgetsKept ==
    ASSUME NEW a \in Budgets, NEW b \in Budgets, NEW ticks \in Nat
    PROVE  /\ Empty \in Budgets /\ Older(a, ticks) \in Budgets /\ OneMore(a) \in Budgets
           /\ Plus(a, b) \in Budgets /\ Beyond(a, b) \in Budgets
<1>1. Ages \subseteq Int /\ 0 \in Ages
  BY BudgetAssumption DEF Ages
<1>2. Empty \in Budgets /\ Plus(a, b) \in Budgets /\ Beyond(a, b) \in Budgets
  BY DEF Budgets, Empty, Plus, Beyond
<1>3. OneMore(a) \in Budgets
  BY <1>1 DEF Budgets, OneMore
<1>4. ASSUME NEW age \in Ages, age >= ticks PROVE a[age - ticks] \in Nat
  <2>1. age - ticks \in Ages
    BY <1>4, BudgetAssumption DEF Ages
  <2> QED BY <2>1 DEF Budgets
<1>5. Older(a, ticks) \in Budgets
  BY <1>4 DEF Budgets, Older
<1> QED BY <1>2, <1>3, <1>5

LEMMA PartsTyped ==
    ASSUME NEW b \in Budgets, NEW part \in Parts(b)
    PROVE  part \in Budgets
<1>1. Cap \in Nat
  BY BudgetAssumption
<1>2. part \in [Ages -> 0..Cap]
  BY DEF Parts
<1>3. 0..Cap \subseteq Nat
  BY <1>1
<1> QED BY <1>2, <1>3 DEF Budgets

BudgetsTyped == calls \in Budgets /\ file \in Budgets /\ made \in Budgets /\ slipped \in Budgets

LEMMA BudgetsStep == QInv /\ BudgetsTyped /\ [Next]_vars => BudgetsTyped'
<1> SUFFICES ASSUME QInv, BudgetsTyped, [Next]_vars PROVE BudgetsTyped'
  OBVIOUS
<1> USE DEF BudgetsTyped
<1>1. waited \in Nat /\ Empty \in Budgets
  BY BudgetsKept DEF QInv, Counters
<1>2. CASE Start
  <2>1. PICK part \in Parts(file) : calls' = part
    BY <1>2 DEF Start, Loaded
  <2>2. part \in Budgets
    BY PartsTyped
  <2>3. Beyond(file, part) \in Budgets
    BY <2>2, BudgetsKept
  <2>4. Plus(slipped, Beyond(file, part)) \in Budgets
    BY <2>3, BudgetsKept
  <2>5. UNCHANGED <<file, made>> /\ slipped' = Plus(slipped, Beyond(file, calls'))
    BY <1>2 DEF Start
  <2> QED BY <2>1, <2>2, <2>4, <2>5
<1>3. CASE NoDatabase \/ Poll \/ VendorChanges \/ DatabaseChanges
  BY <1>3 DEF NoDatabase, Poll, VendorChanges, DatabaseChanges, madeVars
<1>4. CASE Connect
  BY <1>1, <1>4 DEF Connect, Connected, NotConnected, Rejected, TryAgain, madeVars
<1>5. CASE Exhausted
  BY <1>1, <1>5, BudgetsKept DEF Exhausted, Nothing, madeVars
<1>6. CASE Request
  <2>1. CASE calls' = calls /\ file' = file /\ made' = OneMore(made) /\ slipped' = slipped
    BY <2>1, BudgetsKept
  <2>2. CASE Nothing
    BY <1>1, <2>2, BudgetsKept DEF Nothing, madeVars
  <2> QED BY <1>6, <2>1, <2>2 DEF Request
<1>7. CASE Record
  <2>1. OneMore(calls) \in Budgets /\ OneMore(slipped) \in Budgets
    BY BudgetsKept
  <2>2. calls' \in Budgets /\ file' \in {calls', file}
    BY <1>1, <1>7, <2>1, BudgetsKept DEF Record, RecordCall
  <2> QED BY <1>7, <2>1, <2>2 DEF Record
<1>8. CASE Crash
  <2>1. Older(calls, waited) \in Budgets /\ OneMore(Empty) \in Budgets
    BY <1>1, BudgetsKept
  <2>2. Plus(slipped, Beyond(Older(calls, waited), file)) \in Budgets
    BY <2>1, BudgetsKept
  <2>3. slipped' \in Budgets
    BY <1>1, <1>8, <2>1, <2>2, BudgetsKept DEF Crash
  <2> QED BY <1>1, <1>8, <2>3 DEF Crash
<1>9. CASE Tick
  <2>1. \A b \in Budgets : Older(b, 1) \in Budgets
    BY BudgetsKept
  <2>2. calls' \in {calls, Older(calls, 1)}
    BY <1>9 DEF Tick
  <2> QED BY <1>9, <2>1, <2>2 DEF Tick
<1>10. CASE UNCHANGED vars
  BY <1>10 DEF vars, madeVars
<1> QED
  BY <1>2, <1>3, <1>4, <1>5, <1>6, <1>7, <1>8, <1>9, <1>10 DEF Next, Step

Modes ==
    /\ pc \in {"down", "sleep", "connect", "request", "record"}
    /\ device \in BOOLEAN /\ conn \in BOOLEAN /\ dbUp \in BOOLEAN
    /\ vendor \in {"fine", "limits", "fails", "rejects"}

LEMMA ModesStep == Modes /\ [Next]_vars => Modes'
<1> SUFFICES ASSUME Modes, [Next]_vars PROVE Modes'
  OBVIOUS
<1>1. CASE Start
  BY <1>1 DEF Start, worldVars, Modes
<1>2. CASE NoDatabase \/ Poll
  BY <1>2 DEF NoDatabase, Poll, Done, driverVars, worldVars, Modes
<1>3. CASE Connect
  BY <1>3 DEF Connect, Connected, NotConnected, Rejected, TryAgain, worldVars, Modes
<1>4. CASE Exhausted \/ Request \/ Record
  BY <1>4 DEF Exhausted, Request, Record, Write, Nothing, Done, driverVars, worldVars, Modes
<1>5. CASE Crash \/ VendorChanges \/ DatabaseChanges \/ Tick
  BY <1>5 DEF Crash, VendorChanges, DatabaseChanges, Tick, loopVars, driverVars, worldVars, Modes
<1>6. CASE UNCHANGED vars
  BY <1>6 DEF vars, loopVars, driverVars, worldVars, Modes
<1> QED BY <1>1, <1>2, <1>3, <1>4, <1>5, <1>6 DEF Next, Step

Backoffs == 0..MaxBackoff
Sleeps == 0..(1 + MaxBackoff)
Rejections == 0..(MaxInvalid - 1)
Delays == 0..Window

\* Where the counters may go in one step.
LEMMA CountersMove ==
    /\ 0 \in Backoffs /\ MaxBackoff \in Backoffs /\ 0 \in Sleeps /\ 0 \in Rejections /\ 0 \in Delays
    /\ \A n \in Backoffs : Ramped(n) \in Backoffs /\ 1 + n \in Sleeps
    /\ \A n \in Sleeps : n > 0 => n - 1 \in Sleeps
    /\ \A n \in Rejections : n + 1 < MaxInvalid => n + 1 \in Rejections
    /\ \A n \in Delays : AtMost(n + 1, Window) \in Delays
  BY Bounds, VicareAssumption DEF Backoffs, Sleeps, Rejections, Delays, Ramped, AtMost

Counts == left \in Sleeps /\ backoff \in Backoffs /\ retry \in Backoffs /\ invalid \in Rejections /\ waited \in Delays

LEMMA CountsStep == QInv /\ Counts /\ [Next]_vars => Counts'
<1> SUFFICES ASSUME QInv, Counts, [Next]_vars PROVE Counts'
  OBVIOUS
<1> USE CountersMove DEF Counts
<1>1. CASE Start
  BY <1>1 DEF Start
<1>2. ASSUME NEW cleanly, Done(cleanly) PROVE left' \in Sleeps /\ backoff' \in Backoffs
  <2>1. backoff' \in Backoffs
    BY <1>2 DEF Done
  <2> QED BY <1>2, <2>1 DEF Done
<1>3. CASE NoDatabase
  BY <1>2, <1>3 DEF NoDatabase, driverVars
<1>4. CASE Poll
  <2>1. UNCHANGED waited
    BY <1>4 DEF Poll
  <2>2. CASE Done(TRUE) /\ UNCHANGED <<retry, invalid>>
    BY <1>2, <2>1, <2>2
  <2>3. CASE retry' = 0 /\ invalid' = 0 /\ UNCHANGED <<left, backoff>>
    BY <2>1, <2>3
  <2> QED BY <1>4, <2>2, <2>3 DEF Poll
<1>5. CASE Connect
  <2>1. UNCHANGED backoff
    BY <1>5 DEF Connect
  <2>2. ASSUME NEW limited \in BOOLEAN, TryAgain(limited)
        PROVE  left' \in Sleeps /\ retry' \in Backoffs /\ waited' = waited
    <3>1. retry' \in Backoffs
      BY <2>2 DEF TryAgain, NextBackoff
    <3> QED BY <2>2, <3>1 DEF TryAgain
  <2>3. CASE Connected
    BY <2>1, <2>3 DEF Connected
  <2>4. CASE NotConnected
    <3>1. TryAgain(vendor = "limits") /\ invalid' = 0 /\ (vendor = "limits") \in BOOLEAN
      BY <2>4 DEF NotConnected
    <3> QED BY <2>1, <2>2, <3>1
  <2>5. CASE Rejected
    <3>1. CASE invalid + 1 < MaxInvalid
      <4>1. invalid' = invalid + 1 /\ TryAgain(FALSE)
        BY <2>5, <3>1 DEF Rejected
      <4> QED BY <2>1, <2>2, <3>1, <4>1
    <3>2. CASE ~(invalid + 1 < MaxInvalid)
      BY <2>1, <2>5, <3>2 DEF Rejected
    <3> QED BY <3>1, <3>2
  <2> QED BY <1>5, <2>3, <2>4, <2>5 DEF Connect
<1>6. CASE Nothing
  BY <1>2, <1>6 DEF Nothing
<1>7. CASE Exhausted
  BY <1>6, <1>7 DEF Exhausted
<1>8. CASE Request
  <2>1. CASE UNCHANGED <<left, backoff, driverVars>>
    BY <2>1 DEF driverVars
  <2> QED BY <1>6, <1>8, <2>1 DEF Request
<1>9. CASE Record
  BY <1>2, <1>9 DEF Record, Write
<1>10. CASE Crash
  BY <1>10 DEF Crash
<1>11. CASE VendorChanges \/ DatabaseChanges
  BY <1>11 DEF VendorChanges, DatabaseChanges, loopVars, driverVars
<1>12. CASE Tick
  <2>1. waited' \in {waited, AtMost(waited + 1, Window)} /\ UNCHANGED <<backoff, retry, invalid>>
    BY <1>12 DEF Tick
  <2>2. left' = 0 \/ (left > 0 /\ left' = left - 1)
    BY <1>12 DEF Tick
  <2> QED BY <2>1, <2>2
<1>13. CASE UNCHANGED vars
  BY <1>13 DEF vars, loopVars, driverVars
<1> QED
  BY <1>1, <1>3, <1>4, <1>5, <1>7, <1>8, <1>9, <1>10, <1>11, <1>12, <1>13 DEF Next, Step

\* Budgets are budgets, and sleeps and backoffs within their caps, over any number
\* of crashes and rejections (ratebudget.py, connect_with_retry, main).
THEOREM VicareTypeCorrect == Spec => []TypeOK
<1>1. QInv /\ BudgetsTyped /\ Modes /\ Counts => TypeOK
  BY DEF QInv, Counters, BudgetsTyped, Modes, Counts, TypeOK, Backoffs, Sleeps, Rejections, Delays
<1>2. Init => BudgetsTyped /\ Modes /\ Counts
  <2>1. Empty \in Budgets
    BY DEF Empty, Budgets
  <2> QED BY <2>1, CountersMove DEF Init, BudgetInit, BudgetsTyped, Modes, Counts
<1> QED
  BY <1>1, <1>2, InitQInv, NextQInv, BudgetsStep, ModesStep, CountsStep, PTL DEF Spec

-----------------------------------------------------------------------------
(* How many stamps a budget holds.                                         *)

LEMMA AgeFacts ==
    /\ Window \in Nat \ {0} /\ Cap \in Nat \ {0}
    /\ Ages = 0..(Window - 1) /\ IsFiniteSet(Ages) /\ 0 \in Ages
  BY BudgetAssumption, FS_Interval DEF Ages

LEMMA StampFacts ==
    ASSUME NEW b \in Budgets, NEW age, NEW n
    PROVE  <<age, n>> \in Stamps(b) <=> age \in Ages /\ n \in 1..b[age]
  BY DEF Stamps

LEMMA StampsArePairs ==
    ASSUME NEW b \in Budgets, NEW stamp \in Stamps(b)
    PROVE  \E age \in Ages, n \in Nat : n \in 1..b[age] /\ stamp = <<age, n>>
  BY DEF Stamps, Budgets

LEMMA StampsFinite ==
    ASSUME NEW b \in Budgets
    PROVE  IsFiniteSet(Stamps(b)) /\ Total(b) \in Nat
<1> DEFINE f == [age \in Ages |-> {age} \X (1..b[age])]
           Columns == {{age} \X (1..b[age]) : age \in Ages}
<1>1. f \in Surjection(Ages, Columns)
  BY DEF Surjection
<1>2. IsFiniteSet(Columns)
  BY <1>1, AgeFacts, FS_Surjection
<1>3. ASSUME NEW age \in Ages PROVE IsFiniteSet({age} \X (1..b[age]))
  <2>1. b[age] \in Nat
    BY DEF Budgets
  <2>2. IsFiniteSet({age}) /\ IsFiniteSet(1..b[age])
    <3>1. IsFiniteSet({age})
      BY FS_Singleton
    <3>2. IsFiniteSet(1..b[age])
      BY <2>1, FS_Interval
    <3> QED BY <3>1, <3>2
  <2>3. ASSUME NEW S, NEW T, IsFiniteSet(S), IsFiniteSet(T) PROVE IsFiniteSet(S \X T)
    BY <2>3, FS_Product
  <2> QED BY <2>2, <2>3
<1>4. IsFiniteSet(UNION Columns)
  BY <1>2, <1>3, FS_UNION
<1> QED BY <1>4, FS_CardinalityType DEF Stamps, Total

\* More at every age is more.
LEMMA TotalMonotone ==
    ASSUME NEW a \in Budgets, NEW b \in Budgets, \A age \in Ages : a[age] <= b[age]
    PROVE  Total(a) <= Total(b)
<1>1. \A age \in Ages : a[age] \in Nat /\ b[age] \in Nat
  BY DEF Budgets
<1>2. Stamps(a) \subseteq Stamps(b)
  BY <1>1, StampFacts, StampsArePairs
<1> QED BY <1>2, StampsFinite, FS_Subset DEF Total

LEMMA TotalEmpty == Total(Empty) = 0
<1>1. Empty \in Budgets /\ \A age \in Ages : Empty[age] = 0
  BY DEF Empty, Budgets
<1>2. Stamps(Empty) = {}
  BY <1>1, StampsArePairs
<1> QED BY <1>2, FS_EmptySet DEF Total

\* Ageing adds nothing.
LEMMA TotalOlder ==
    ASSUME NEW b \in Budgets, NEW ticks \in Nat
    PROVE  Total(Older(b, ticks)) <= Total(b)
<1> DEFINE old == Older(b, ticks)
           f == [stamp \in Stamps(old) |-> <<stamp[1] - ticks, stamp[2]>>]
<1>1. old \in Budgets
  BY BudgetsKept
<1>2. ASSUME NEW stamp \in Stamps(old)
      PROVE  /\ <<stamp[1] - ticks, stamp[2]>> \in Stamps(b)
             /\ stamp = <<stamp[1], stamp[2]>> /\ stamp[1] \in Nat
  <2>1. PICK age \in Ages, n \in Nat : n \in 1..old[age] /\ stamp = <<age, n>>
    BY <1>1, StampsArePairs
  <2>2. age >= ticks /\ old[age] = b[age - ticks]
    BY <2>1 DEF Older
  <2>3. age - ticks \in Ages /\ age \in Nat
    BY <2>2, AgeFacts
  <2>4. <<age - ticks, n>> \in Stamps(b)
    BY <2>1, <2>2, <2>3, StampFacts
  <2> QED BY <2>1, <2>3, <2>4
<1>3. f \in Injection(Stamps(old), Stamps(b))
  <2>1. f \in [Stamps(old) -> Stamps(b)]
    BY <1>2
  <2>2. ASSUME NEW s \in Stamps(old), NEW t \in Stamps(old), f[s] = f[t] PROVE s = t
    <3>1. s[1] - ticks = t[1] - ticks /\ s[2] = t[2]
      BY <2>2
    <3>2. s[1] = t[1]
      <4>1. s[1] \in Nat /\ t[1] \in Nat
        BY <1>2
      <4> QED BY <3>1, <4>1
    <3> QED BY <1>2, <3>1, <3>2
  <2> QED BY <2>1, <2>2 DEF Injection, IsInjective
<1>4. Cardinality(Stamps(old)) <= Cardinality(Stamps(b))
  BY <1>3, StampsFinite, FS_Injection
<1> QED BY <1>4 DEF Total

\* One more call is one more stamp.
LEMMA TotalOneMore ==
    ASSUME NEW b \in Budgets
    PROVE  Total(OneMore(b)) <= Total(b) + 1
<1> DEFINE new == <<0, b[0] + 1>>
<1>1. OneMore(b) \in Budgets /\ 0 \in Ages /\ b[0] \in Nat
  BY BudgetsKept, AgeFacts DEF Budgets
<1>2. /\ OneMore(b)[0] = b[0] + 1
      /\ \A age \in Ages \ {0} : OneMore(b)[age] = b[age]
  BY <1>1 DEF OneMore, Budgets
<1>3. ASSUME NEW stamp \in Stamps(OneMore(b)), stamp # new PROVE stamp \in Stamps(b)
  <2>1. PICK age \in Ages, n \in Nat : n \in 1..OneMore(b)[age] /\ stamp = <<age, n>>
    BY <1>1, StampsArePairs
  <2>2. n \in 1..b[age]
    <3>1. CASE age = 0
      BY <1>1, <1>2, <1>3, <2>1, <3>1
    <3>2. CASE age # 0
      BY <1>2, <2>1, <3>2
    <3> QED BY <3>1, <3>2
  <2> QED BY <2>1, <2>2, StampFacts
<1>4. /\ IsFiniteSet(Stamps(b) \cup {new})
      /\ Cardinality(Stamps(b) \cup {new}) <= Cardinality(Stamps(b)) + 1
  <2>1. IsFiniteSet(Stamps(b)) /\ Cardinality(Stamps(b)) \in Nat
    BY StampsFinite DEF Total
  <2> HIDE DEF new
  <2>2. /\ IsFiniteSet(Stamps(b) \cup {new})
        /\ Cardinality(Stamps(b) \cup {new})
             = IF new \in Stamps(b) THEN Cardinality(Stamps(b)) ELSE Cardinality(Stamps(b)) + 1
    BY <2>1, FS_AddElement
  <2> QED BY <2>1, <2>2
<1>5. Cardinality(Stamps(OneMore(b))) <= Cardinality(Stamps(b) \cup {new})
  BY <1>3, <1>4, FS_Subset
<1>6. Cardinality(Stamps(OneMore(b))) \in Nat /\ Cardinality(Stamps(b)) \in Nat
      /\ Cardinality(Stamps(b) \cup {new}) \in Nat
  BY <1>1, <1>4, StampsFinite, FS_CardinalityType DEF Total
<1> QED BY <1>4, <1>5, <1>6 DEF Total

\* Two budgets together hold no more than both.
LEMMA TotalPlus ==
    ASSUME NEW a \in Budgets, NEW b \in Budgets
    PROVE  Total(Plus(a, b)) <= Total(a) + Total(b)
<1> DEFINE both == Plus(a, b)
           More == Stamps(both) \ Stamps(a)
           f == [stamp \in More |-> <<stamp[1], stamp[2] - a[stamp[1]]>>]
<1>1. both \in Budgets /\ \A age \in Ages : both[age] = a[age] + b[age]
  BY BudgetsKept, AgeFacts DEF Plus
<1>2. \A age \in Ages : a[age] \in Nat /\ b[age] \in Nat
  BY DEF Budgets
<1>3. ASSUME NEW stamp \in More
      PROVE  /\ stamp = <<stamp[1], stamp[2]>> /\ stamp[1] \in Ages /\ stamp[2] \in Nat
             /\ <<stamp[1], stamp[2] - a[stamp[1]]>> \in Stamps(b)
  <2>1. PICK age \in Ages, n \in Nat : n \in 1..both[age] /\ stamp = <<age, n>>
    BY <1>1, StampsArePairs
  <2>2. ~(n \in 1..a[age])
    BY <2>1, StampFacts
  <2>3. n - a[age] \in 1..b[age] /\ n \in Nat
    BY <1>1, <1>2, <2>1, <2>2
  <2>4. <<age, n - a[age]>> \in Stamps(b)
    BY <2>3, StampFacts
  <2> QED BY <2>1, <2>3, <2>4
<1>4. f \in Injection(More, Stamps(b))
  <2>1. f \in [More -> Stamps(b)]
    BY <1>3
  <2>2. ASSUME NEW s \in More, NEW t \in More, f[s] = f[t] PROVE s = t
    <3>1. s[1] = t[1] /\ s[2] - a[s[1]] = t[2] - a[s[1]]
      BY <2>2
    <3>2. s[2] = t[2]
      <4>1. a[s[1]] \in Nat /\ s[2] \in Nat /\ t[2] \in Nat
        BY <1>2, <1>3
      <4> QED BY <3>1, <4>1
    <3> QED BY <1>3, <3>1, <3>2
  <2> QED BY <2>1, <2>2 DEF Injection, IsInjective
<1>5. IsFiniteSet(More) /\ Cardinality(More) <= Cardinality(Stamps(b)) /\ Cardinality(More) \in Nat
  BY <1>4, StampsFinite, FS_Injection, FS_CardinalityType
<1>6. /\ IsFiniteSet(Stamps(a)) /\ Cardinality(Stamps(a)) \in Nat
      /\ Cardinality(Stamps(b)) \in Nat /\ Cardinality(Stamps(both)) \in Nat
  BY <1>1, StampsFinite DEF Total
<1>7. Cardinality(Stamps(both)) <= Cardinality(Stamps(a)) + Cardinality(More)
  <2> HIDE DEF More
  <2>1. Cardinality(Stamps(a) \cap More) \in Nat
    BY <1>5, FS_Subset, FS_CardinalityType
  <2>2. /\ IsFiniteSet(Stamps(a) \cup More)
        /\ Cardinality(Stamps(a) \cup More)
             = Cardinality(Stamps(a)) + Cardinality(More) - Cardinality(Stamps(a) \cap More)
    BY <1>5, <1>6, FS_Union
  <2>3. Stamps(both) \subseteq Stamps(a) \cup More
    BY DEF More
  <2>4. Cardinality(Stamps(both)) <= Cardinality(Stamps(a) \cup More)
    BY <2>2, <2>3, FS_Subset
  <2> QED BY <1>5, <1>6, <2>1, <2>2, <2>4
<1> QED BY <1>5, <1>6, <1>7 DEF Total

-----------------------------------------------------------------------------
(* The budget over the life of a process, and of the next.                 *)

\* Age by age the calls made are in the budget, or have slipped it.
CoveredBy(m, b, s) == \A age \in Ages : m[age] <= b[age] + s[age]

\* The budget as of now: calls is what it was when the poll began.
Now == Older(calls, waited)

Accounted ==
    /\ pc = "down" => CoveredBy(made, file, slipped)
    /\ pc \in {"sleep", "connect", "request"} => CoveredBy(made, Now, slipped)
    /\ pc = "record" => CoveredBy(made, OneMore(Now), slipped)

\* Until it is connected a process knows no more than the file does.
Within(a, b) == \A age \in Ages : a[age] <= b[age]
Unused == pc # "down" /\ ~device => Within(Now, file)

Phases ==
    /\ pc \in {"sleep", "down"} => waited = 0
    /\ pc \in {"request", "record"} => left = 0 /\ device
    /\ pc = "connect" => ~device

InCap ==
    /\ Total(calls) <= Cap /\ Total(file) <= Cap
    /\ pc = "record" => Total(calls) < Cap

BInv == Phases /\ Unused /\ Accounted /\ InCap

LEMMA OlderFacts ==
    ASSUME NEW b \in Budgets, NEW m \in Nat, NEW n \in Nat
    PROVE  /\ Older(b, 0) = b
           /\ Older(Older(b, m), n) = Older(b, m + n)
           /\ m >= Window => Older(b, m) = Empty
<1> USE AgeFacts
<1>1. Older(b, 0) = b
  <2>1. \A age \in Ages : age - 0 = age /\ age >= 0
    OBVIOUS
  <2>2. Older(b, 0) = [age \in Ages |-> b[age]]
    BY <2>1 DEF Older
  <2> QED BY <2>2 DEF Budgets
<1>2. Older(Older(b, m), n) = Older(b, m + n)
  <2>1. ASSUME NEW age \in Ages
        PROVE  (IF age >= n THEN Older(b, m)[age - n] ELSE 0)
                 = IF age >= m + n THEN b[age - (m + n)] ELSE 0
    <3>1. CASE age >= n
      <4>1. age - n \in Ages
        BY <3>1
      <4>2. Older(b, m)[age - n] = IF age - n >= m THEN b[age - n - m] ELSE 0
        BY <4>1 DEF Older
      <4>3. age - n - m = age - (m + n) /\ (age - n >= m <=> age >= m + n)
        OBVIOUS
      <4> QED BY <3>1, <4>2, <4>3
    <3>2. CASE ~(age >= n)
      <4>1. ~(age >= m + n)
        BY <3>2
      <4> QED BY <3>2, <4>1
    <3> QED BY <3>1, <3>2
  <2>2. Older(b, m + n) = [age \in Ages |-> IF age >= m + n THEN b[age - (m + n)] ELSE 0]
    BY DEF Older
  <2>3. Older(Older(b, m), n)
          = [age \in Ages |-> IF age >= n THEN Older(b, m)[age - n] ELSE 0]
    BY DEF Older
  <2> HIDE DEF Older
  <2> QED BY <2>1, <2>2, <2>3
<1>3. m >= Window => Older(b, m) = Empty
  BY DEF Older, Empty
<1> QED BY <1>1, <1>2, <1>3

LEMMA PointFacts ==
    ASSUME NEW b \in Budgets, NEW age \in Ages
    PROVE  /\ b[age] \in Nat /\ Empty[age] = 0
           /\ OneMore(b)[age] = b[age] + (IF age = 0 THEN 1 ELSE 0)
  BY AgeFacts DEF Budgets, OneMore, Empty

\* What covers the calls still does when all grow older.
LEMMA OlderCovers ==
    ASSUME NEW m \in Budgets, NEW b \in Budgets, NEW s \in Budgets, CoveredBy(m, b, s)
    PROVE  CoveredBy(Older(m, 1), Older(b, 1), Older(s, 1))
<1> SUFFICES ASSUME NEW age \in Ages
             PROVE  Older(m, 1)[age] <= Older(b, 1)[age] + Older(s, 1)[age]
  BY DEF CoveredBy
<1>1. CASE age >= 1
  <2>1. age - 1 \in Ages
    BY <1>1, AgeFacts
  <2> QED BY <1>1, <2>1 DEF Older, CoveredBy
<1>2. CASE ~(age >= 1)
  BY <1>2 DEF Older
<1> QED BY <1>1, <1>2

LEMMA OlderWithin ==
    ASSUME NEW a \in Budgets, NEW b \in Budgets, Within(a, b)
    PROVE  Within(Older(a, 1), Older(b, 1))
<1> SUFFICES ASSUME NEW age \in Ages PROVE Older(a, 1)[age] <= Older(b, 1)[age]
  BY DEF Within
<1>1. CASE age >= 1
  <2>1. age - 1 \in Ages
    BY <1>1, AgeFacts
  <2> QED BY <1>1, <2>1 DEF Older, Within
<1>2. CASE ~(age >= 1)
  BY <1>2 DEF Older
<1> QED BY <1>1, <1>2

\* The end of a poll that made no call, and every step that leaves the budget alone.
LEMMA SettledBInv ==
    ASSUME BInv, BudgetsTyped, waited \in Nat, pc \in {"sleep", "connect", "request"},
           calls' = Older(calls, waited), waited' = 0, pc' = "sleep",
           file' = file, made' = made, slipped' = slipped, device' = device
    PROVE  BInv'
<1>1. Now \in Budgets /\ calls' = Now
  BY BudgetsKept DEF Now, BudgetsTyped
<1>2. Now' = Now
  BY <1>1, OlderFacts DEF Now
<1>3. Total(calls') <= Cap
  <2>1. /\ Total(Now) <= Total(calls) /\ Total(Now) \in Nat /\ Total(calls) \in Nat
        /\ Cap \in Nat
    BY <1>1, TotalOlder, StampsFinite, AgeFacts DEF Now, BudgetsTyped
  <2> QED BY <1>1, <2>1 DEF BInv, InCap
<1> QED BY <1>2, <1>3 DEF BInv, Phases, Unused, Within, Accounted, InCap

LEMMA SameBInv ==
    ASSUME BInv, pc' \in {"sleep", "connect", "request"}, pc \in {"sleep", "connect", "request"},
           UNCHANGED <<calls, waited, file, made, slipped>>,
           Phases', device' \/ ~device
    PROVE  BInv'
<1>1. Now' = Now
  BY DEF Now
<1> QED BY <1>1 DEF BInv, Unused, Within, Accounted, InCap

LEMMA InitBInv == Init => BInv
<1> SUFFICES ASSUME Init PROVE BInv
  OBVIOUS
<1>1. /\ pc = "down" /\ waited = 0 /\ made = Empty /\ file = Empty /\ slipped = Empty
      /\ calls = Empty
  BY DEF Init, BudgetInit
<1>2. CoveredBy(Empty, Empty, Empty)
  BY DEF CoveredBy, Empty
<1>3. Total(Empty) = 0 /\ Cap \in Nat \ {0}
  BY TotalEmpty, AgeFacts
<1> QED BY <1>1, <1>2, <1>3 DEF BInv, Phases, Unused, Accounted, InCap

LEMMA StartBInv == BInv /\ BudgetsTyped /\ Start => BInv'
<1> SUFFICES ASSUME BInv, BudgetsTyped, Start PROVE BInv'
  OBVIOUS
<1>1. PICK part \in Parts(file) : calls' = part
  BY DEF Start, Loaded
<1>2. /\ pc = "down" /\ pc' = "sleep" /\ waited' = 0 /\ UNCHANGED <<file, made>>
      /\ slipped' = Plus(slipped, Beyond(file, part))
  BY <1>1 DEF Start
<1>3. part \in Budgets
  BY PartsTyped DEF BudgetsTyped
<1>4. Now' = part
  BY <1>1, <1>2, <1>3, OlderFacts DEF Now
<1>5. Within(part, file)
  BY DEF Parts, Within
<1>6. CoveredBy(made, part, slipped')
  <2> SUFFICES ASSUME NEW age \in Ages PROVE made[age] <= part[age] + slipped'[age]
    BY DEF CoveredBy
  <2>1. made[age] <= file[age] + slipped[age]
    BY <1>2 DEF BInv, Accounted, CoveredBy
  <2>2. /\ made[age] \in Nat /\ file[age] \in Nat /\ slipped[age] \in Nat
        /\ part[age] \in Nat /\ part[age] <= file[age]
    BY <1>3, <1>5, PointFacts DEF BudgetsTyped, Within
  <2>3. Beyond(file, part)[age] = file[age] - part[age]
    BY <2>2 DEF Beyond
  <2>4. slipped'[age] = slipped[age] + Beyond(file, part)[age]
    BY <1>2 DEF Plus
  <2> QED BY <2>1, <2>2, <2>3, <2>4
<1>7. Total(part) <= Cap
  <2>1. Total(part) <= Total(file)
    BY <1>3, <1>5, TotalMonotone DEF BudgetsTyped, Within
  <2> QED BY <1>3, <2>1, StampsFinite, AgeFacts DEF BInv, InCap, BudgetsTyped
<1> QED BY <1>1, <1>2, <1>4, <1>5, <1>6, <1>7 DEF BInv, Phases, Unused, Within, Accounted, InCap

LEMMA ConnectBInv == BInv /\ BudgetsTyped /\ waited \in Nat /\ Connect => BInv'
<1> SUFFICES ASSUME BInv, BudgetsTyped, waited \in Nat, Connect PROVE BInv'
  OBVIOUS
<1>1. pc = "connect" /\ left = 0 /\ ~device /\ UNCHANGED <<file, made, slipped>>
  BY DEF Connect, madeVars, BInv, Phases
<1>2. CASE Connected
  <2>1. Phases' /\ device'
    BY <1>1, <1>2 DEF Connected, Phases
  <2> QED BY <1>1, <1>2, <2>1, SameBInv DEF Connected
<1>3. ASSUME NEW limited, TryAgain(limited) PROVE BInv'
  <2>1. Phases'
    BY <1>1, <1>3 DEF TryAgain, Phases
  <2> QED BY <1>1, <1>3, <2>1, SameBInv DEF TryAgain
<1>4. CASE NotConnected
  BY <1>3, <1>4 DEF NotConnected
<1>5. CASE Rejected
  <2>1. CASE invalid + 1 < MaxInvalid
    BY <1>3, <1>5, <2>1 DEF Rejected
  <2>2. CASE ~(invalid + 1 < MaxInvalid)
    <3>1. pc' = "down" /\ calls' = Empty /\ waited' = 0
      BY <1>5, <2>2 DEF Rejected
    <3>2. CoveredBy(made, file, slipped)
      <4> SUFFICES ASSUME NEW age \in Ages PROVE made[age] <= file[age] + slipped[age]
        BY DEF CoveredBy
      <4>1. Now \in Budgets
        BY BudgetsKept DEF Now, BudgetsTyped
      <4>2. Now[age] <= file[age] /\ made[age] <= Now[age] + slipped[age]
        BY <1>1 DEF BInv, Unused, Within, Accounted, CoveredBy
      <4> QED BY <4>1, <4>2, PointFacts DEF BudgetsTyped
    <3>3. Total(Empty) = 0 /\ Cap \in Nat \ {0}
      BY TotalEmpty, AgeFacts
    <3> QED BY <1>1, <3>1, <3>2, <3>3 DEF BInv, Phases, Unused, Accounted, InCap
  <2> QED BY <2>1, <2>2
<1> QED BY <1>2, <1>4, <1>5 DEF Connect

LEMMA RequestBInv == BInv /\ BudgetsTyped /\ waited \in Nat /\ Request => BInv'
<1> SUFFICES ASSUME BInv, BudgetsTyped, waited \in Nat, Request PROVE BInv'
  OBVIOUS
<1>1. pc = "request" /\ Total(calls) < Cap
  BY DEF Request, Allow
<1>2. CASE Nothing
  BY <1>1, <1>2, SettledBInv DEF Nothing, Done, madeVars
<1>3. CASE /\ pc' = "record" /\ made' = OneMore(made)
           /\ UNCHANGED <<calls, file, left, backoff, conn, driverVars, worldVars, slipped, quietVars>>
  <2>1. UNCHANGED <<calls, file, left, device, waited, slipped>> /\ Now' = Now
    BY <1>3 DEF driverVars, Now
  <2>2. Now \in Budgets /\ OneMore(Now) \in Budgets
    BY BudgetsKept DEF Now, BudgetsTyped
  <2>3. CoveredBy(OneMore(made), OneMore(Now), slipped)
    <3>1. ASSUME NEW age \in Ages
          PROVE  OneMore(made)[age] <= OneMore(Now)[age] + slipped[age]
      <4>1. made[age] <= Now[age] + slipped[age]
        BY <1>1 DEF BInv, Accounted, CoveredBy
      <4>2. /\ made[age] \in Nat /\ Now[age] \in Nat /\ slipped[age] \in Nat
            /\ OneMore(made)[age] = made[age] + (IF age = 0 THEN 1 ELSE 0)
            /\ OneMore(Now)[age] = Now[age] + (IF age = 0 THEN 1 ELSE 0)
        BY <2>2, PointFacts DEF BudgetsTyped
      <4> QED BY <4>1, <4>2
    <3> QED BY <3>1 DEF CoveredBy
  <2> QED BY <1>1, <1>3, <2>1, <2>3 DEF BInv, Phases, Unused, Accounted, InCap
<1> QED BY <1>2, <1>3 DEF Request

LEMMA RecordBInv == BInv /\ BudgetsTyped /\ waited \in Nat /\ Record => BInv'
<1> SUFFICES ASSUME BInv, BudgetsTyped, waited \in Nat, Record PROVE BInv'
  OBVIOUS
<1>1. /\ pc = "record" /\ pc' = "sleep" /\ waited' = 0 /\ made' = made /\ device' = device
      /\ calls' = Older(OneMore(calls), waited) /\ file' \in {calls', file}
      /\ slipped' = IF waited > 0 THEN OneMore(slipped) ELSE slipped
      /\ device
  BY DEF Record, RecordCall, Write, Done, BInv, Phases
<1>2. OneMore(calls) \in Budgets /\ calls' \in Budgets /\ Now \in Budgets
  <2>1. OneMore(calls) \in Budgets
    BY BudgetsKept DEF BudgetsTyped
  <2> QED BY <1>1, <2>1, BudgetsKept DEF BudgetsTyped, Now
<1>3. Now' = calls'
  BY <1>1, <1>2, OlderFacts DEF Now
<1>4. Total(calls') <= Cap
  <2>1. Total(calls') <= Total(OneMore(calls)) /\ Total(OneMore(calls)) <= Total(calls) + 1
    BY <1>1, <1>2, TotalOlder, TotalOneMore DEF BudgetsTyped
  <2>2. /\ Total(calls') \in Nat /\ Total(OneMore(calls)) \in Nat /\ Total(calls) \in Nat
        /\ Cap \in Nat
    BY <1>2, StampsFinite, AgeFacts DEF BudgetsTyped
  <2>3. Total(calls) < Cap
    BY <1>1 DEF BInv, InCap
  <2> QED BY <2>1, <2>2, <2>3
<1>5. Total(file') <= Cap
  BY <1>1, <1>4 DEF BInv, InCap
<1>6. CoveredBy(made, calls', slipped')
  <2> SUFFICES ASSUME NEW age \in Ages PROVE made[age] <= calls'[age] + slipped'[age]
    BY DEF CoveredBy
  <2>1. made[age] <= OneMore(Now)[age] + slipped[age]
    BY <1>1 DEF BInv, Accounted, CoveredBy
  <2>2. /\ made[age] \in Nat /\ Now[age] \in Nat /\ slipped[age] \in Nat /\ calls[age] \in Nat
        /\ OneMore(Now)[age] = Now[age] + (IF age = 0 THEN 1 ELSE 0)
        /\ OneMore(slipped)[age] = slipped[age] + (IF age = 0 THEN 1 ELSE 0)
    BY <1>2, PointFacts DEF BudgetsTyped
  <2>3. CASE waited = 0
    <3>1. Now = calls /\ calls' = OneMore(calls) /\ slipped' = slipped
      BY <1>1, <1>2, <2>3, OlderFacts DEF Now, BudgetsTyped
    <3> QED BY <2>1, <3>1
  <2>4. CASE waited # 0
    <3>1. slipped' = OneMore(slipped)
      BY <1>1, <2>4
    <3>2. Now[age] <= calls'[age] /\ calls'[age] \in Nat
      <4>1. CASE age >= waited
        <5>1. age - waited \in Ages
          BY <4>1, AgeFacts
        <5>2. Now[age] = calls[age - waited] /\ calls'[age] = OneMore(calls)[age - waited]
          BY <1>1, <4>1 DEF Now, Older
        <5> QED BY <5>1, <5>2, PointFacts DEF BudgetsTyped
      <4>2. CASE ~(age >= waited)
        BY <1>1, <4>2 DEF Now, Older
      <4> QED BY <4>1, <4>2
    <3> QED BY <2>1, <2>2, <3>1, <3>2
  <2> QED BY <2>3, <2>4
<1> QED BY <1>1, <1>3, <1>4, <1>5, <1>6 DEF BInv, Phases, Unused, Accounted, InCap

LEMMA CrashBInv == BInv /\ BudgetsTyped /\ waited \in Nat /\ Modes /\ Crash => BInv'
<1> SUFFICES ASSUME BInv, BudgetsTyped, waited \in Nat, Modes, Crash PROVE BInv'
  OBVIOUS
<1> DEFINE lost == Beyond(Now, file)
           unsaved == IF pc = "record" THEN OneMore(Empty) ELSE Empty
<1>1. /\ pc # "down" /\ pc' = "down" /\ calls' = Empty /\ waited' = 0
      /\ slipped' = Plus(Plus(slipped, lost), unsaved)
      /\ UNCHANGED <<file, made, device>>
  BY DEF Crash, Now
<1>2. Now \in Budgets /\ Empty \in Budgets
  BY BudgetsKept DEF Now, BudgetsTyped
<1>3. lost \in Budgets /\ unsaved \in Budgets
  BY <1>2, BudgetsKept DEF BudgetsTyped
<1>4. CoveredBy(made, file, slipped')
  <2> SUFFICES ASSUME NEW age \in Ages PROVE made[age] <= file[age] + slipped'[age]
    BY DEF CoveredBy
  <2>1. /\ made[age] \in Nat /\ Now[age] \in Nat /\ slipped[age] \in Nat /\ file[age] \in Nat
        /\ OneMore(Now)[age] = Now[age] + (IF age = 0 THEN 1 ELSE 0)
        /\ OneMore(Empty)[age] = (IF age = 0 THEN 1 ELSE 0) /\ Empty[age] = 0
    BY <1>2, PointFacts DEF BudgetsTyped
  <2>2. lost[age] \in Nat /\ Now[age] <= file[age] + lost[age]
    BY <2>1 DEF Beyond
  <2>3. slipped'[age] = slipped[age] + lost[age] + unsaved[age]
    BY <1>1 DEF Plus
  <2>4. CASE pc = "record"
    <3>1. made[age] <= OneMore(Now)[age] + slipped[age]
      BY <2>4 DEF BInv, Accounted, CoveredBy
    <3>2. unsaved[age] = (IF age = 0 THEN 1 ELSE 0)
      BY <2>1, <2>4
    <3> HIDE DEF lost, unsaved
    <3> QED BY <2>1, <2>2, <2>3, <3>1, <3>2
  <2>5. CASE pc # "record"
    <3>1. made[age] <= Now[age] + slipped[age]
      BY <1>1, <2>5 DEF BInv, Accounted, CoveredBy, Modes
    <3>2. unsaved[age] = 0
      BY <2>1, <2>5
    <3> HIDE DEF lost, unsaved
    <3> QED BY <2>1, <2>2, <2>3, <3>1, <3>2
  <2> QED BY <2>4, <2>5
<1>5. Total(Empty) = 0 /\ Cap \in Nat \ {0}
  BY TotalEmpty, AgeFacts
<1> QED BY <1>1, <1>4, <1>5 DEF BInv, Phases, Unused, Accounted, InCap

LEMMA TickBInv == BInv /\ BudgetsTyped /\ waited \in Delays /\ Modes /\ Tick => BInv'
<1> SUFFICES ASSUME BInv, BudgetsTyped, waited \in Delays, Modes, Tick PROVE BInv'
  OBVIOUS
<1>1. /\ UNCHANGED <<pc, device>> /\ pc \in {"down", "sleep", "connect"}
      /\ file' = Older(file, 1) /\ made' = Older(made, 1) /\ slipped' = Older(slipped, 1)
  <2>1. pc = "down" \/ left > 0
    BY DEF Tick
  <2>2. left = 0 => ~(left > 0)
    OBVIOUS
  <2> QED BY <2>1, <2>2 DEF Tick, BInv, Phases, Modes
<1>2. Now \in Budgets /\ waited \in Nat
  <2>1. waited \in Nat
    BY Bounds DEF Delays
  <2> QED BY <2>1, BudgetsKept DEF Now, BudgetsTyped
<1>3. pc # "down" => Now' = Older(Now, 1)
  <2>1. CASE pc = "connect"
    <3>1. calls' = calls /\ waited' = AtMost(waited + 1, Window)
      BY <2>1 DEF Tick
    <3>2. Older(Now, 1) = Older(calls, waited + 1)
      BY <1>2, OlderFacts DEF Now, BudgetsTyped
    <3>3. CASE waited + 1 < Window
      BY <3>1, <3>2, <3>3 DEF Now, AtMost
    <3>4. CASE ~(waited + 1 < Window)
      <4>1. waited' = Window /\ Window \in Nat /\ waited + 1 \in Nat /\ waited + 1 >= Window
        BY <1>2, <3>1, <3>4, Bounds DEF AtMost
      <4>2. Older(calls, Window) = Empty /\ Older(calls, waited + 1) = Empty
        BY <4>1, OlderFacts DEF BudgetsTyped
      <4> QED BY <3>1, <3>2, <4>1, <4>2 DEF Now
    <3> QED BY <3>3, <3>4
  <2>2. CASE pc = "sleep"
    <3>1. waited = 0 /\ waited' = waited /\ calls' = Older(calls, 1)
      BY <2>2 DEF Tick, BInv, Phases
    <3>2. Older(calls, 1) \in Budgets
      BY BudgetsKept DEF BudgetsTyped
    <3> QED BY <3>1, <3>2, OlderFacts DEF Now, BudgetsTyped
  <2> QED BY <1>1, <2>1, <2>2
<1>4. Accounted'
  <2>1. CASE pc = "down"
    <3>1. CoveredBy(made, file, slipped)
      BY <2>1 DEF BInv, Accounted
    <3>2. CoveredBy(made', file', slipped')
      BY <1>1, <3>1, OlderCovers DEF BudgetsTyped
    <3> QED BY <1>1, <2>1, <3>2 DEF Accounted
  <2>2. CASE pc \in {"sleep", "connect"}
    <3>1. CoveredBy(made, Now, slipped)
      BY <2>2 DEF BInv, Accounted
    <3>2. CoveredBy(made', Now', slipped')
      BY <1>1, <1>2, <1>3, <2>2, <3>1, OlderCovers DEF BudgetsTyped
    <3> QED BY <1>1, <2>2, <3>2 DEF Accounted
  <2> QED BY <1>1, <2>1, <2>2
<1>5. Unused'
  <2> SUFFICES ASSUME pc # "down", ~device PROVE Within(Older(Now, 1), Older(file, 1))
    BY <1>1, <1>3 DEF Unused, Within
  <2>1. Within(Now, file)
    BY DEF BInv, Unused
  <2> QED BY <1>2, <2>1, OlderWithin DEF BudgetsTyped
<1>6. Phases'
  BY <1>1 DEF Tick, BInv, Phases
<1>7. ASSUME NEW b \in Budgets, Total(b) <= Cap PROVE Total(Older(b, 1)) <= Cap
  <2>1. Older(b, 1) \in Budgets
    BY BudgetsKept
  <2> QED BY <1>7, <2>1, TotalOlder, StampsFinite, AgeFacts
<1>8. InCap'
  <2>1. calls' \in {calls, Older(calls, 1)}
    BY DEF Tick
  <2> QED BY <1>1, <1>7, <2>1 DEF BInv, InCap, BudgetsTyped
<1> QED BY <1>4, <1>5, <1>6, <1>8 DEF BInv

LEMMA NextBInv == BInv /\ BudgetsTyped /\ Modes /\ Counts /\ [Next]_vars => BInv'
<1> SUFFICES ASSUME BInv, BudgetsTyped, Modes, Counts, [Next]_vars PROVE BInv'
  OBVIOUS
<1>1. waited \in Delays /\ waited \in Nat
  BY Bounds DEF Counts, Delays
<1>2. ASSUME UNCHANGED <<pc, left, device, calls, waited, file, made, slipped>> PROVE BInv'
  <2>1. Now' = Now
    BY <1>2 DEF Now
  <2> QED BY <1>2, <2>1 DEF BInv, Phases, Unused, Within, Accounted, InCap
<1>3. CASE Start
  BY <1>3, StartBInv
<1>4. CASE NoDatabase
  <2>1. /\ pc = "sleep" /\ pc' = "sleep"
        /\ UNCHANGED <<calls, waited, file, made, slipped, device>>
    BY <1>4 DEF NoDatabase, Done, driverVars, madeVars
  <2>2. Phases'
    BY <2>1 DEF BInv, Phases
  <2> QED BY <2>1, <2>2, SameBInv
<1>5. CASE Poll
  <2>1. pc = "sleep" /\ left = 0 /\ UNCHANGED <<calls, waited, file, made, slipped, device>>
    BY <1>5 DEF Poll, madeVars
  <2>2. pc' \in {"sleep", "connect", "request"} /\ Phases'
    <3>1. CASE cooldown > 0
      BY <1>5, <2>1, <3>1 DEF Poll, Done, BInv, Phases
    <3>2. CASE ~(cooldown > 0)
      BY <1>5, <2>1, <3>2 DEF Poll, BInv, Phases
    <3> QED BY <3>1, <3>2
  <2> QED BY <2>1, <2>2, SameBInv
<1>6. CASE Connect
  BY <1>1, <1>6, ConnectBInv
<1>7. CASE Exhausted
  BY <1>1, <1>7, SettledBInv DEF Exhausted, Nothing, Done, madeVars
<1>8. CASE Request
  BY <1>1, <1>8, RequestBInv
<1>9. CASE Record
  BY <1>1, <1>9, RecordBInv
<1>10. CASE Crash
  BY <1>1, <1>10, CrashBInv
<1>11. CASE VendorChanges
  BY <1>2, <1>11 DEF VendorChanges, loopVars, driverVars, madeVars
<1>12. CASE DatabaseChanges
  BY <1>2, <1>12 DEF DatabaseChanges, driverVars, madeVars
<1>13. CASE Tick
  BY <1>1, <1>13, TickBInv
<1>14. CASE UNCHANGED vars
  BY <1>2, <1>14 DEF vars, loopVars, driverVars, madeVars
<1> QED
  BY <1>3, <1>4, <1>5, <1>6, <1>7, <1>8, <1>9, <1>10, <1>11, <1>12, <1>13, <1>14 DEF Next, Step

LEMMA BInvWithinCap == BInv /\ BudgetsTyped /\ Modes /\ waited \in Nat => WithinCap
<1> SUFFICES ASSUME BInv, BudgetsTyped, Modes, waited \in Nat PROVE WithinCap
  OBVIOUS
<1>1. ASSUME NEW b \in Budgets, CoveredBy(made, b, slipped), Total(b) <= Cap
      PROVE  WithinCap
  <2>1. Plus(b, slipped) \in Budgets
    BY BudgetsKept DEF BudgetsTyped
  <2>2. \A age \in Ages : made[age] <= Plus(b, slipped)[age]
    BY <1>1 DEF CoveredBy, Plus
  <2>3. /\ Total(made) <= Total(Plus(b, slipped))
        /\ Total(Plus(b, slipped)) <= Total(b) + Total(slipped)
    BY <2>1, <2>2, TotalMonotone, TotalPlus DEF BudgetsTyped
  <2>4. /\ Total(made) \in Nat /\ Total(b) \in Nat /\ Total(slipped) \in Nat /\ Cap \in Nat
        /\ Total(Plus(b, slipped)) \in Nat
    BY <2>1, StampsFinite, AgeFacts DEF BudgetsTyped
  <2> QED BY <1>1, <2>3, <2>4 DEF WithinCap
<1>2. Now \in Budgets /\ Total(Now) <= Total(calls)
  BY BudgetsKept, TotalOlder DEF Now, BudgetsTyped
<1>3. /\ Total(Now) \in Nat /\ Total(calls) \in Nat /\ Cap \in Nat
  BY <1>2, StampsFinite, AgeFacts DEF BudgetsTyped
<1>4. CASE pc = "down"
  BY <1>1, <1>4 DEF BInv, Accounted, InCap, BudgetsTyped
<1>5. CASE pc \in {"sleep", "connect", "request"}
  <2>1. Total(Now) <= Cap
    BY <1>2, <1>3 DEF BInv, InCap
  <2> QED BY <1>1, <1>2, <1>5, <2>1 DEF BInv, Accounted
<1>6. CASE pc = "record"
  <2>1. OneMore(Now) \in Budgets
    BY <1>2, BudgetsKept
  <2>2. Total(OneMore(Now)) <= Cap
    <3>1. Total(OneMore(Now)) \in Nat
      BY <2>1, StampsFinite
    <3>2. Total(calls) < Cap
      BY <1>6 DEF BInv, InCap
    <3> QED BY <1>2, <1>3, <3>1, <3>2, TotalOneMore
  <2> QED BY <1>1, <1>6, <2>1, <2>2 DEF BInv, Accounted
<1> QED BY <1>4, <1>5, <1>6 DEF Modes

\* No window holds more answered calls than the cap over any number of processes,
\* but for those that slipped the persisted budget (ratebudget.py, VicareDriver.poll).
THEOREM BudgetIsKept == Spec => []WithinCap
<1>1. Init => QInv /\ BudgetsTyped /\ Modes /\ Counts /\ BInv
  <2>1. Empty \in Budgets
    BY DEF Empty, Budgets
  <2> QED BY <2>1, CountersMove, InitQInv, InitBInv
          DEF Init, BudgetInit, BudgetsTyped, Modes, Counts
<1>2. Counts => waited \in Nat
  BY Bounds DEF Counts, Delays
<1> QED
  BY <1>1, <1>2, NextQInv, BudgetsStep, ModesStep, CountsStep, NextBInv, BInvWithinCap, PTL
     DEF Spec

=============================================================================
