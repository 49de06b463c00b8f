---------------------------- MODULE Views_proofs ----------------------------
(***************************************************************************)
(* What the journal says, and what runtime, savings and balance add up to, *)
(* for every flush interval, day and number of disturbances.               *)
(***************************************************************************)
EXTENDS Views, FiniteSetTheorems, WellFoundedInduction, TLAPS

-----------------------------------------------------------------------------
(* Types                                                                   *)

Switches == relay \in BOOLEAN /\ polled \in BOOLEAN /\ belief \in BOOLEAN

Numbers ==
    /\ clock \in 0..Horizon /\ flushS \in 1..Minute /\ since \in 0..clock
    /\ late \in 0..Lateness /\ overrun \in 0..late
    /\ headroom \in Headrooms /\ upsets \in 0..Disturbances

Stamped(rows) == \A r \in rows : r.at \in 0..clock

Types == Switches /\ Numbers /\ Stamped(meter) /\ Stamped(pump) /\ Stamped(decisions)

LEMMA Constants ==
    /\ Minute \in Nat /\ Match \in Nat /\ Minute <= Match /\ Default \in 1..Minute
    /\ Nominal \in Nat /\ Midnight \in Nat /\ Horizon \in Nat
    /\ Lateness \in Nat /\ Disturbances \in Nat
  BY ViewsAssumption

LEMMA InitTypes == Init => Types
<1> SUFFICES ASSUME Init PROVE Types
  OBVIOUS
<1>1. Switches
  BY Zenon DEF Init, Switches
<1>2. PICK raw \in Raws : flushS = FlushSeconds(raw)
  BY DEF Init
<1>3. Numbers
  <2>1. flushS \in 1..Minute
    BY <1>2, Constants, ViewsAssumption DEF FlushSeconds, Hour
  <2> QED BY <2>1, Constants DEF Init, Numbers
<1>4. Stamped(meter) /\ Stamped(pump) /\ Stamped(decisions)
  BY DEF Init, Stamped
<1> QED BY <1>1, <1>3, <1>4 DEF Types

\* A row written now, among rows that are not from the future.
LEMMA StampedNow ==
    ASSUME NEW rows, Stamped(rows), clock \in Nat, clock' = clock,
           NEW more, \A r \in more : r \in rows \/ r.at = clock
    PROVE  Stamped(more)'
  BY DEF Stamped

LEMMA LogStamped ==
    ASSUME Stamped(decisions), clock \in Nat, clock' = clock, NEW target, NEW reason,
           Log(target, reason) \/ UNCHANGED decisions
    PROVE  Stamped(decisions)'
<1>1. CASE Log(target, reason)
  <2>1. \A r \in decisions' : r \in decisions \/ r.at = clock
    BY <1>1 DEF Log
  <2> QED BY <2>1, StampedNow
<1>2. CASE UNCHANGED decisions
  BY <1>2, StampedNow
<1> QED BY <1>1, <1>2

LEMMA NextTypes == Types /\ [Next]_vars => Types'
<1> SUFFICES ASSUME Types, [Next]_vars PROVE Types'
  OBVIOUS
<1>0. clock \in Nat
  BY Constants DEF Types, Numbers
<1>1. Switches'
  <2> USE Zenon DEF Types, Switches
  <2>1. CASE Switch
    BY <2>1 DEF Switch
  <2>2. CASE SwitchFails
    BY <2>2 DEF SwitchFails
  <2>3. CASE Flip
    BY <2>3 DEF Flip
  <2>4. CASE Reconcile
    BY <2>4 DEF Reconcile
  <2>5. CASE Poll
    BY <2>5 DEF Poll, moveVars
  <2>6. CASE Weather
    BY <2>6 DEF Weather, moveVars
  <2>7. CASE CounterReset
    BY <2>7 DEF CounterReset, moveVars
  <2>8. CASE Elapse
    BY <2>8 DEF Elapse, moveVars
  <2>9. CASE Flush
    BY <2>9 DEF Flush
  <2>10. CASE UNCHANGED vars
    BY <2>10 DEF vars, moveVars
  <2> QED
    BY <2>1, <2>2, <2>3, <2>4, <2>5, <2>6, <2>7, <2>8, <2>9, <2>10 DEF Next
<1>2. Numbers'
  <2> USE Constants DEF Types, Numbers
  <2>1. CASE UNCHANGED timeVars
    <3>1. headroom' \in Headrooms /\ upsets' \in 0..Disturbances
      BY <2>1 DEF Next, Switch, SwitchFails, Flip, Reconcile, Poll, Weather, CounterReset, Elapse,
                  Flush, Upset, timeVars, plantVars, vars
    <3> QED BY <2>1, <3>1 DEF timeVars
  <2>2. CASE Elapse
    <3>1. clock' \in 0..Horizon /\ since' \in 0..clock' /\ UNCHANGED <<flushS, headroom, upsets>>
      BY <2>2 DEF Elapse
    <3>2. late' \in 0..Lateness /\ overrun' \in 0..late'
      <4>1. CASE Asleep
        BY <4>1 DEF Asleep
      <4>2. CASE Late
        BY <4>2 DEF Late
      <4> QED BY <2>2, <4>1, <4>2 DEF Elapse
    <3> QED BY <3>1, <3>2
  <2>3. CASE Flush
    BY <2>3 DEF Flush, Upset
  <2> QED
    BY <2>1, <2>2, <2>3 DEF Next, Switch, SwitchFails, Flip, Reconcile, Poll, Weather, CounterReset, vars
<1>3. Stamped(meter)' /\ Stamped(pump)' /\ Stamped(decisions)'
  <2>1. ASSUME clock' = clock, UNCHANGED <<meter, pump>>,
               \E target, reason : Log(target, reason) \/ UNCHANGED decisions
        PROVE  Stamped(meter)' /\ Stamped(pump)' /\ Stamped(decisions)'
    BY <1>0, <2>1, LogStamped, StampedNow DEF Types
  <2>2. CASE Switch \/ SwitchFails \/ Flip \/ Reconcile \/ Poll \/ Weather \/ CounterReset
    BY <2>1, <2>2 DEF Switch, SwitchFails, Flip, Reconcile, Poll, Weather, CounterReset, timeVars, tables
  <2>3. CASE Elapse
    <3>1. clock' = clock + 1 /\ UNCHANGED <<meter, pump, decisions>>
      BY <2>3 DEF Elapse, tables
    <3> QED BY <1>0, <3>1 DEF Types, Stamped
  <2>4. CASE Flush
    <3>1. /\ \A r \in meter' : r \in meter \/ r.at = clock
          /\ \A r \in pump' : r \in pump \/ r.at = clock
          /\ UNCHANGED decisions /\ clock' = clock
      BY <2>4 DEF Flush, MeterRow, PumpRow
    <3> QED BY <1>0, <3>1, StampedNow DEF Types
  <2>5. CASE UNCHANGED vars
    BY <2>1, <2>5 DEF vars, timeVars, tables
  <2> QED BY <2>2, <2>3, <2>4, <2>5 DEF Next
<1> QED BY <1>1, <1>2, <1>3 DEF Types

\* Rows are never from the future, and the flush interval the pages divide by is
\* one the exporter can keep (_flush_seconds).
THEOREM ViewsTypeCorrect == Spec => []TypeOK
<1>1. Types => TypeOK
  BY Zenon DEF Types, Switches, Numbers, Stamped, TypeOK
<1>2. Spec => []Types
  BY InitTypes, NextTypes, PTL DEF Spec
<1> QED BY <1>1, <1>2, PTL

-----------------------------------------------------------------------------
(* The flusher's minute                                                    *)

\* When the flusher last came round.
LastFlush == clock - since

LEMMA Quotient ==
    ASSUME NEW f \in Nat, f > 0, NEW c \in Nat, NEW q, q = c \div f
    PROVE  q \in Nat /\ f * q \in Nat /\ f * q <= c /\ c < f * q + f
<1>1. q \in Nat
  BY SMT
<1>2. f * q <= c /\ c < f * q + f
  BY <1>1, SMT
<1> QED BY <1>1, <1>2

LEMMA Multiples ==
    ASSUME NEW f \in Nat, NEW m \in Nat, NEW n \in Nat, m < n
    PROVE  f * m + f <= f * n
<1>1. n = m + 1 + (n - m - 1) /\ n - m - 1 \in Nat
  OBVIOUS
<1>2. f * n = f * m + f + f * (n - m - 1)
  BY <1>1, SMT
<1>3. f * (n - m - 1) \in Nat /\ f * m \in Nat
  BY <1>1, SMT
<1> QED BY <1>2, <1>3

LEMMA PeriodsNow ==
    ASSUME Types
    PROVE  /\ clock \in Nat /\ flushS \in Nat /\ flushS > 0 /\ flushS <= Minute
           /\ since \in Nat /\ LastFlush \in Nat /\ LastFlush <= clock /\ clock = LastFlush + since
           /\ late \in Nat /\ overrun \in Nat
  BY Constants DEF Types, Numbers, LastFlush

LEMMA ElapseOnTime ==
    ASSUME Types, Elapse
    PROVE  LastFlush' = LastFlush
  BY PeriodsNow DEF Elapse, LastFlush

LEMMA FlushOnTime ==
    ASSUME Types, Flush
    PROVE  LastFlush + since = clock /\ LastFlush + flushS <= clock /\ LastFlush' = clock
  BY PeriodsNow DEF Flush, LastFlush

LEMMA SameFlush ==
    ASSUME UNCHANGED <<clock, since>>
    PROVE  LastFlush' = LastFlush
  BY DEF LastFlush

-----------------------------------------------------------------------------
(* The journal                                                             *)

OwnDecision == [at |-> own.at, target |-> own.on, reason |-> "decided"]

\* The last move is the controller's: nobody has moved the relay since, and no
\* later decision is for the same position.
OwnMove ==
    own # NULL =>
       /\ own.at \in 0..clock /\ own.on \in BOOLEAN
       /\ relay = own.on /\ belief = own.on
       /\ own.at < clock => polled = own.on
       /\ OwnDecision \in decisions
       /\ \A d \in decisions : d.target = own.on /\ d.at >= own.at => d = OwnDecision

\* The heatpump table has every row since, and all of them say so.
Recorded ==
    own # NULL /\ ~missed =>
       /\ \A r \in pump : r.at > own.at => r.on = own.on
       /\ LastFlush > own.at => \E s \in pump : s.at = LastFlush
       /\ \A r \in pump : r.at > own.at + Match => \E s \in pump : own.at < s.at /\ s.at < r.at

JournalInv == Types /\ OwnMove /\ Recorded

LEMMA InitJournal == Init => JournalInv
<1> SUFFICES ASSUME Init PROVE JournalInv
  OBVIOUS
<1>1. own = NULL
  BY Zenon DEF Init
<1> QED BY <1>1, InitTypes DEF JournalInv, OwnMove, Recorded

LEMMA NextOwnMove == JournalInv /\ [Next]_vars => OwnMove'
<1> SUFFICES ASSUME JournalInv, [Next]_vars, own' # NULL PROVE OwnMove'
  BY DEF OwnMove
<1>0. Types /\ clock \in Nat /\ OwnMove
  BY Constants DEF JournalInv, Types, Numbers
<1>1. CASE Switch
  <2>1. /\ own' = [at |-> clock, on |-> relay'] /\ Log(relay', "decided")
        /\ relay' = ~relay /\ belief' = relay' /\ clock' = clock /\ LoopIsFree
    BY <1>1, Zenon DEF Switch, timeVars
  <2>2. own'.at = clock /\ own'.on = relay' /\ relay' \in BOOLEAN
    BY <2>1, Zenon DEF Types, Switches
  <2>3. OwnDecision' = [at |-> clock, target |-> relay', reason |-> "decided"]
    BY <2>2 DEF OwnDecision
  <2>4. decisions' = decisions \union {OwnDecision'}
    BY <2>1, <2>3 DEF Log
  <2>5. \A d \in decisions : d.at < clock
    <3>1. \A d \in decisions : d.at # clock /\ d.at \in 0..clock
      BY <1>0, <2>1 DEF LoopIsFree, Types, Stamped
    <3> QED BY <1>0, <3>1
  <2>6. \A d \in decisions' : d.at >= clock => d = OwnDecision'
    <3>1. \A d \in decisions : ~(d.at >= clock)
      <4>1. \A d \in decisions : d.at \in Nat
        BY <1>0 DEF Types, Stamped
      <4> QED BY <1>0, <2>5, <4>1
    <3> QED BY <2>4, <3>1
  <2>7. own'.at \in 0..clock' /\ ~(own'.at < clock')
    BY <1>0, <2>1, <2>2
  <2> QED BY <2>1, <2>2, <2>4, <2>6, <2>7, Zenon DEF OwnMove
<1>2. CASE SwitchFails
  <2>1. /\ UNCHANGED <<relay, own>> /\ Log(~relay, "shelly_write_failed")
        /\ UNCHANGED <<clock, polled, belief>>
    BY <1>2, Zenon DEF SwitchFails, timeVars
  <2>2. /\ relay = own.on /\ relay \in BOOLEAN
    BY <1>0, <2>1, Zenon DEF OwnMove, Types, Switches
  <2>3. \A d \in decisions' : d \in decisions \/ d.target # own.on
    <3>1. \A d \in decisions' : d \in decisions \/ d.target = ~relay
      BY <2>1 DEF Log
    <3> QED BY <2>2, <3>1, Zenon
  <2>4. OwnDecision' = OwnDecision /\ decisions \subseteq decisions'
    BY <2>1 DEF OwnDecision, Log
  <2> QED BY <1>0, <2>1, <2>3, <2>4, Zenon DEF OwnMove
<1>3. CASE Flip
  BY <1>3 DEF Flip
<1>4. CASE Reconcile
  <2>1. own' = own /\ belief # polled /\ LoopIsFree
    BY <1>4 DEF Reconcile
  <2>2. own.at = clock /\ OwnDecision \in decisions
    BY <1>0, <2>1 DEF OwnMove
  <2>3. FALSE
    BY <2>1, <2>2 DEF LoopIsFree, OwnDecision
  <2> QED BY <2>3
<1>5. CASE Poll
  <2>1. polled' = relay /\ UNCHANGED <<clock, relay, belief, own, decisions>>
    BY <1>5 DEF Poll, timeVars, moveVars, tables
  <2> QED BY <1>0, <2>1, Zenon DEF OwnMove, OwnDecision
<1>6. CASE Elapse
  <2>1. /\ polled = relay /\ clock' = clock + 1
        /\ UNCHANGED <<polled, relay, belief, own, decisions>>
    BY <1>6 DEF Elapse, moveVars, tables
  <2>2. own.at \in 0..clock'
    BY <1>0, <2>1 DEF OwnMove
  <2> QED BY <1>0, <2>1, <2>2, Zenon DEF OwnMove, OwnDecision
<1>7. CASE Weather \/ CounterReset \/ Flush \/ UNCHANGED vars
  <2>1. UNCHANGED <<clock, polled, relay, belief, own, decisions>>
    BY <1>7 DEF Weather, CounterReset, Flush, vars, timeVars, moveVars, tables
  <2> QED BY <1>0, <2>1, Zenon DEF OwnMove, OwnDecision
<1> QED BY <1>1, <1>2, <1>3, <1>4, <1>5, <1>6, <1>7 DEF Next

LEMMA NextRecorded == JournalInv /\ [Next]_vars => Recorded'
<1> SUFFICES ASSUME JournalInv, [Next]_vars, own' # NULL, ~missed' PROVE Recorded'
  BY DEF Recorded
<1>0. /\ Types /\ OwnMove /\ Recorded /\ Match \in Nat
      /\ clock \in Nat /\ flushS \in Nat /\ flushS > 0 /\ Stamped(pump)
  BY PeriodsNow, Constants DEF JournalInv, Types
<1>1. CASE Switch
  <2>1. own'.at = clock /\ UNCHANGED <<clock, flushS, since, pump>>
    BY <1>1 DEF Switch, timeVars
  <2>2. LastFlush' = LastFlush /\ LastFlush <= clock /\ LastFlush \in Int
    BY <1>0, <2>1, SameFlush, PeriodsNow
  <2>3. \A r \in pump : r.at \in Nat /\ r.at <= clock
    BY <1>0 DEF Stamped
  <2> QED BY <1>0, <2>1, <2>2, <2>3 DEF Recorded
<1>2. CASE Flip
  BY <1>2 DEF Flip
<1>3. CASE SwitchFails \/ Reconcile \/ Poll \/ Weather \/ CounterReset \/ UNCHANGED vars
  <2>1. UNCHANGED <<own, missed, clock, flushS, since, pump>>
    BY <1>3, Zenon DEF SwitchFails, Reconcile, Poll, Weather, CounterReset, vars, timeVars, moveVars, tables
  <2>2. LastFlush' = LastFlush
    BY <1>0, <2>1, SameFlush
  <2> QED BY <1>0, <2>1, <2>2 DEF Recorded
<1>4. CASE Elapse
  <2>1. UNCHANGED <<own, missed, flushS, pump>>
    BY <1>4 DEF Elapse, moveVars, tables
  <2>2. LastFlush' = LastFlush
    BY <1>0, <1>4, ElapseOnTime
  <2> QED BY <1>0, <2>1, <2>2 DEF Recorded
<1>5. CASE Flush
  <2>1. UNCHANGED <<own, clock, flushS, polled>> /\ ~missed /\ ~(since > Match)
    <3>1. missed' = TRUE \/ missed' = (missed \/ since > Match)
      BY <1>5, Zenon DEF Flush
    <3>2. ~(missed \/ since > Match)
      BY <3>1, Zenon
    <3>3. UNCHANGED <<own, clock, flushS, polled>>
      BY <1>5, Zenon DEF Flush
    <3> QED BY <3>2, <3>3, Zenon
  <2>2. LastFlush = clock - since /\ LastFlush' = clock /\ since \in Nat /\ since <= Match
    BY <1>0, <1>5, <2>1, FlushOnTime, PeriodsNow
  <2>3. pump' = pump \union {[at |-> clock, on |-> polled]}
    BY <1>5 DEF Flush, PumpRow
  <2>4. /\ own # NULL /\ own.at \in Nat
        /\ own.at < clock => polled = own.on
        /\ \A r \in pump : r.at > own.at => r.on = own.on
        /\ LastFlush > own.at => \E s \in pump : s.at = LastFlush
        /\ \A r \in pump : r.at > own.at + Match => \E s \in pump : own.at < s.at /\ s.at < r.at
    BY <1>0, <2>1 DEF OwnMove, Recorded
  <2>5. \A r \in pump' : r.at > own.at => r.on = own.on
    BY <1>0, <2>3, <2>4
  <2>6. \E s \in pump' : s.at = clock
    <3>1. [at |-> clock, on |-> polled] \in pump' /\ [at |-> clock, on |-> polled].at = clock
      BY <2>3
    <3> QED BY <3>1
  <2>7. clock > own.at + Match => \E s \in pump' : own.at < s.at /\ s.at < clock
    BY <1>0, <2>2, <2>3, <2>4
  <2>8. \A r \in pump' : r.at > own.at + Match => \E s \in pump' : own.at < s.at /\ s.at < r.at
    BY <2>3, <2>4, <2>7
  <2> QED BY <2>1, <2>2, <2>5, <2>6, <2>8 DEF Recorded
<1> QED BY <1>1, <1>2, <1>3, <1>4, <1>5 DEF Next

LEMMA NextJournal == JournalInv /\ [Next]_vars => JournalInv'
<1> SUFFICES ASSUME JournalInv, [Next]_vars PROVE JournalInv'
  OBVIOUS
<1> QED BY NextTypes, NextOwnMove, NextRecorded DEF JournalInv

LEMMA JournalRight == JournalInv => JournalTells
<1> SUFFICES ASSUME JournalInv, NEW r \in Transitions,
                    own # NULL, ~missed, own.on = r.on, own.at <= r.at
             PROVE  Reasons(r) = {"decided"}
  BY DEF JournalTells
<1> DEFINE d == OwnDecision
<1>1. /\ d \in decisions /\ d.target = r.on /\ d.at = own.at /\ d.reason = "decided"
      /\ \A e \in decisions : e.target = r.on /\ e.at >= own.at => e = d
  BY DEF JournalInv, OwnMove, OwnDecision
<1> HIDE DEF d
<1>2. /\ own.at \in Nat /\ r \in pump /\ Match \in Nat
      /\ \A s \in pump : s.at \in Nat
      /\ \A e \in decisions : e.at \in Nat
  BY Constants DEF JournalInv, Types, Numbers, Stamped, OwnMove, Transitions
<1>3. r.at - own.at <= Match
  <2>1. Recorded
    BY DEF JournalInv
  <2>2. /\ \A s \in pump : s.at > own.at => s.on = own.on
        /\ r.at > own.at + Match => \E t \in pump : own.at < t.at /\ t.at < r.at
    BY <1>2, <2>1, Zenon DEF Recorded
  <2>3. PICK s \in Before(r, pump) : s.on # r.on
    BY DEF Transitions
  <2>4. s \in pump /\ \A t \in pump : t.at < r.at => t.at <= s.at
    BY DEF Before
  <2>5. s.at <= own.at
    BY <1>2, <2>2, <2>3, <2>4
  <2> QED BY <1>2, <2>2, <2>4, <2>5
<1> DEFINE near == {e \in decisions : e.target = r.on /\ Gap(e, r) <= Match}
<1>4. Gap(d, r) = r.at - own.at /\ Gap(d, r) \in Nat /\ Gap(d, r) <= Match
  BY <1>1, <1>2, <1>3 DEF Gap
<1>5. \A e \in near : e # d => Gap(e, r) \in Nat /\ Gap(e, r) > Gap(d, r)
  <2> SUFFICES ASSUME NEW e \in near, e # d PROVE Gap(e, r) \in Nat /\ Gap(e, r) > Gap(d, r)
    OBVIOUS
  <2>1. e.at < own.at
    BY <1>1, <1>2
  <2> QED BY <1>2, <1>4, <2>1 DEF Gap
<1>6. Nearest(r) = {d}
  <2>1. d \in near /\ \A e \in near : Gap(d, r) <= Gap(e, r)
    BY <1>1, <1>4, <1>5
  <2>2. \A e \in near : (\A f \in near : Gap(e, r) <= Gap(f, r)) => e = d
    BY <1>4, <1>5, <2>1
  <2>3. Nearest(r) = {e \in near : \A f \in near : Gap(e, r) <= Gap(f, r)}
    BY DEF Nearest
  <2> HIDE DEF near
  <2> QED BY <2>1, <2>2, <2>3
<1> QED BY <1>1, <1>6 DEF Reasons

\* A decided move that was logged, and that the heatpump table did not miss, has
\* its reason in the journal, however late the relay was polled and whatever else
\* was decided, tried or switched before (recent_decisions).
THEOREM JournalIsRight == Spec => []JournalTells
<1>1. Spec => []JournalInv
  BY InitJournal, NextJournal, PTL DEF Spec
<1> QED BY <1>1, JournalRight, PTL

-----------------------------------------------------------------------------
(* The runtime                                                             *)

On(d) == real[d].on
Count(d) == Cardinality({r \in pump : Day(r.at) = d /\ r.on = TRUE})
\* What the rows of a day stand for.
Rows(d) == flushS * Count(d)

\* By how much the next flush is late already.
Over == IF since > flushS THEN since - flushS ELSE 0

\* Up to the last flush every row is right but for one in a flush with a
\* disturbance, and for the time l by which flushes were late; of the one that midnight
\* falls into, part belongs to the day before.
Settled(u, l, s0, s1) ==
    LET w == flushS * u + l
    IN /\ Near(Rows(0) + Rows(1), s0 + s1, w)
       /\ LastFlush < Midnight => Rows(1) = 0 /\ s1 = 0 /\ Near(Rows(0), s0, w)
       /\ LastFlush >= Midnight => /\ Near(Rows(0), s0, w + flushS)
                                   /\ s1 - Rows(1) <= w /\ Rows(1) - s1 <= w + flushS

\* Since then the relay has stayed where it is, or there was a disturbance.
Running(u, c0, c1) ==
    /\ c0 + c1 <= clock - LastFlush
    /\ u = upsets => /\ clock > LastFlush => polled = relay
                     /\ relay = TRUE => c0 + c1 = clock - LastFlush
                     /\ relay = FALSE => c0 + c1 = 0
    /\ clock <= Midnight => c1 = 0
    /\ LastFlush >= Midnight => c0 = 0

Balanced(u, l, s0, s1, c0, c1) ==
    /\ u <= upsets /\ late = l + Over /\ On(0) = s0 + c0 /\ On(1) = s1 + c1
    /\ Settled(u, l, s0, s1) /\ Running(u, c0, c1)

Ledger == \E u, l, s0, s1, c0, c1 \in Nat : Balanced(u, l, s0, s1, c0, c1)

PumpRows ==
    /\ IsFiniteSet(pump)
    /\ \A r \in pump : r.at <= LastFlush /\ r.on \in BOOLEAN

OnTicks == DOMAIN real = Days /\ \A d \in Days : On(d) \in Nat

RuntimeInv == Types /\ PumpRows /\ OnTicks /\ Ledger

LEMMA Product ==
    ASSUME NEW f \in Nat, NEW n \in Nat
    PROVE  /\ f * n \in Nat /\ f * (n + 1) = f * n + f /\ f * 0 = 0
           /\ \A m \in Nat : m <= n => f * m <= f * n
<1>1. f * n \in Nat /\ f * (n + 1) = f * n + f /\ f * 0 = 0
  BY SMT
<1>2. \A m \in Nat : m <= n => f * m <= f * n
  <2> SUFFICES ASSUME NEW m \in Nat, m <= n PROVE f * m <= f * n
    OBVIOUS
  <2>1. n = m + (n - m) /\ n - m \in Nat
    OBVIOUS
  <2>2. f * n = f * m + f * (n - m) /\ f * (n - m) \in Nat /\ f * m \in Nat
    BY <2>1, SMT
  <2> QED BY <2>2
<1> QED BY <1>1, <1>2

LEMMA OverNow ==
    ASSUME Types
    PROVE  Over \in Nat /\ since <= flushS + Over
  BY PeriodsNow DEF Over

LEMMA OverElapses ==
    ASSUME Types, Elapse
    PROVE  late' - Over' = late - Over /\ Over' \in Nat /\ Over' <= Over + 1
<1>1. since' = since + 1 /\ flushS' = flushS
  BY DEF Elapse
<1>2. /\ since \in Nat /\ flushS \in Nat /\ late \in Nat
      /\ \/ since < flushS /\ late' = late
         \/ since >= flushS /\ late' = late + 1
  BY PeriodsNow DEF Elapse, Asleep, Late
<1>3. PICK n \in Nat, f \in Nat : n = since /\ f = flushS
  BY <1>2
<1>4. Over = (IF n > f THEN n - f ELSE 0) /\ Over' = (IF n + 1 > f THEN n + 1 - f ELSE 0)
  BY <1>1, <1>3 DEF Over
<1> QED BY <1>2, <1>3, <1>4

LEMMA CountType ==
    ASSUME Types, PumpRows, NEW d
    PROVE  Count(d) \in Nat /\ Rows(d) \in Nat /\ flushS \in Nat /\ flushS > 0
<1>1. IsFiniteSet({r \in pump : Day(r.at) = d /\ r.on = TRUE})
  <2>1. {r \in pump : Day(r.at) = d /\ r.on = TRUE} \in SUBSET pump
    OBVIOUS
  <2> QED BY <2>1, FS_Subset DEF PumpRows
<1>2. Count(d) \in Nat
  BY <1>1, FS_CardinalityType DEF Count
<1> QED BY <1>2, PeriodsNow, Product DEF Rows

LEMMA InitRuntime == Init => RuntimeInv
<1> SUFFICES ASSUME Init PROVE RuntimeInv
  OBVIOUS
<1>1. Types
  BY InitTypes
<1>2. clock = 0 /\ since = 0 /\ late = 0 /\ upsets = 0 /\ pump = {}
  BY Zenon DEF Init
<1>3. LastFlush = 0 /\ Over = 0
  <2>1. flushS \in Nat
    BY <1>1, PeriodsNow
  <2> QED BY <1>2, <2>1 DEF LastFlush, Over
<1>4. PumpRows
  BY <1>2, FS_EmptySet DEF PumpRows
<1>5. OnTicks /\ On(0) = 0 /\ On(1) = 0
  BY DEF Init, OnTicks, On, Days
<1>6. Rows(0) = 0 /\ Rows(1) = 0 /\ flushS \in Nat
  <2>1. \A d : {r \in pump : Day(r.at) = d /\ r.on = TRUE} = {}
    BY <1>2
  <2>2. Count(0) = 0 /\ Count(1) = 0
    BY <2>1, FS_EmptySet DEF Count
  <2> QED BY <1>1, <2>2, PeriodsNow, Product DEF Rows
<1>7. Settled(0, 0, 0, 0)
  <2>1. flushS * 0 = 0 /\ Midnight \in Nat
    BY <1>6, Product, Constants
  <2> QED BY <1>3, <1>6, <2>1 DEF Settled, Near
<1>8. Running(0, 0, 0)
  BY <1>2, <1>3, Constants DEF Running
<1>9. Balanced(0, 0, 0, 0, 0, 0)
  BY <1>2, <1>3, <1>5, <1>7, <1>8 DEF Balanced
<1>10. Ledger
  BY <1>9 DEF Ledger
<1> QED BY <1>1, <1>4, <1>5, <1>10 DEF RuntimeInv

\* A step that leaves time and tables alone, and counts as a disturbance if it
\* moves the relay.
LEMMA LedgerKept ==
    ASSUME RuntimeInv, UNCHANGED <<timeVars, pump, real>>,
           \/ upsets' = upsets + 1
           \/ UNCHANGED <<upsets, relay>> /\ polled' \in {polled, relay}
    PROVE  PumpRows' /\ OnTicks' /\ Ledger'
<1>0. UNCHANGED <<clock, flushS, since, late, pump, real>>
  BY DEF timeVars
<1>1. LastFlush' = LastFlush /\ Over' = Over
  BY <1>0, SameFlush DEF Over
<1>2. PumpRows' /\ OnTicks'
  BY <1>0, <1>1 DEF RuntimeInv, PumpRows, OnTicks, On
<1>3. PICK u \in Nat, l \in Nat, s0 \in Nat, s1 \in Nat, c0 \in Nat, c1 \in Nat :
         Balanced(u, l, s0, s1, c0, c1)
  BY DEF RuntimeInv, Ledger
<1> USE DEF Balanced
<1>4. On(0)' = On(0) /\ On(1)' = On(1) /\ Rows(0)' = Rows(0) /\ Rows(1)' = Rows(1)
  BY <1>0 DEF On, Rows, Count, Day
<1>5. Settled(u, l, s0, s1)'
  BY <1>0, <1>1, <1>3, <1>4 DEF Settled, Near
<1>6. upsets \in Nat
  BY Constants DEF RuntimeInv, Types, Numbers
<1>7. u <= upsets' /\ Running(u, c0, c1)'
  <2>1. CASE upsets' = upsets + 1
    <3>1. u # upsets' /\ u <= upsets'
      BY <1>3, <1>6, <2>1
    <3> QED BY <1>0, <1>1, <1>3, <3>1 DEF Running
  <2>2. CASE UNCHANGED <<upsets, relay>> /\ polled' \in {polled, relay}
    BY <1>0, <1>1, <1>3, <2>2 DEF Running
  <2> QED BY <2>1, <2>2
<1>8. Balanced(u, l, s0, s1, c0, c1)'
  BY <1>0, <1>1, <1>3, <1>4, <1>5, <1>7
<1> HIDE DEF Balanced
<1> QED BY <1>2, <1>8 DEF Ledger

LEMMA LedgerElapses ==
    ASSUME RuntimeInv, Elapse
    PROVE  PumpRows' /\ OnTicks' /\ Ledger'
<1>0. Types /\ PumpRows /\ OnTicks
  BY DEF RuntimeInv
<1>1. /\ clock' = clock + 1 /\ polled = relay
      /\ UNCHANGED <<flushS, pump, relay, polled, upsets>>
  BY DEF Elapse, moveVars, tables
<1>2. LastFlush' = LastFlush /\ LastFlush \in Int /\ LastFlush <= clock /\ clock \in Nat
  BY <1>0, ElapseOnTime, PeriodsNow
<1> DEFINE tick == IF relay THEN 1 ELSE 0
<1>3. relay \in BOOLEAN /\ (relay = TRUE => tick = 1) /\ (relay = FALSE => tick = 0)
  BY <1>0, Zenon DEF Types, Switches
<1>4. tick \in Nat
  BY <1>3
<1>5. DOMAIN real' = Days /\ \A d \in Days : On(d)' = On(d) + (IF d = Day(clock) THEN tick ELSE 0)
  <2>1. Day(clock) \in Days
    BY DEF Day, Days
  <2>2. \A d \in Days : On(d) + 0 = On(d)
    BY <1>0 DEF OnTicks
  <2> HIDE DEF tick
  <2>3. /\ DOMAIN real' = DOMAIN real
        /\ \A d \in Days : real'[d].on = IF d = Day(clock) THEN real[d].on + tick ELSE real[d].on
    BY <1>0, <2>1 DEF Elapse, OnTicks, tick
  <2> QED BY <1>0, <2>2, <2>3 DEF OnTicks, On
<1> HIDE DEF tick
<1>6. PumpRows' /\ OnTicks'
  BY <1>0, <1>1, <1>2, <1>4, <1>5 DEF PumpRows, OnTicks
<1>7. PICK u \in Nat, l \in Nat, s0 \in Nat, s1 \in Nat, c0 \in Nat, c1 \in Nat :
         Balanced(u, l, s0, s1, c0, c1)
  BY DEF RuntimeInv, Ledger
<1> USE DEF Balanced
<1>8. Rows(0)' = Rows(0) /\ Rows(1)' = Rows(1)
  BY <1>1 DEF Rows, Count, Day
<1>9. Settled(u, l, s0, s1)'
  BY <1>1, <1>2, <1>7, <1>8 DEF Settled, Near
<1>10. Midnight \in Nat
  BY Constants
<1> DEFINE e0 == IF clock < Midnight THEN tick ELSE 0
           e1 == IF clock < Midnight THEN 0 ELSE tick
<1>11. /\ e0 \in Nat /\ e1 \in Nat /\ e0 + e1 = tick
       /\ clock < Midnight => e1 = 0
       /\ clock >= Midnight => e0 = 0
  BY <1>2, <1>4, <1>10
<1> HIDE DEF e0, e1
<1>12. PICK d0 \in Nat, d1 \in Nat : d0 = c0 + e0 /\ d1 = c1 + e1
  BY <1>11
<1> USE DEF e0, e1
<1>13. d0 \in Nat /\ d1 \in Nat /\ On(0)' = s0 + d0 /\ On(1)' = s1 + d1
  <2>1. On(0)' = On(0) + e0 /\ On(1)' = On(1) + e1
    BY <1>2, <1>5, <1>10 DEF Days, Day
  <2> HIDE DEF e0, e1
  <2> QED BY <1>7, <1>11, <1>12, <2>1
<1> HIDE DEF e0, e1
<1>14. Running(u, d0, d1)'
  <2>1. /\ c0 + c1 <= clock - LastFlush
        /\ clock <= Midnight => c1 = 0
        /\ LastFlush >= Midnight => c0 = 0
    BY <1>7 DEF Running
  <2>2. u = upsets => /\ relay = TRUE => c0 + c1 = clock - LastFlush
                      /\ relay = FALSE => c0 + c1 = 0
    BY <1>7 DEF Running
  <2>3. clock' = clock + 1 /\ LastFlush' = LastFlush
    BY <1>1, <1>2
  <2>4. /\ d0 + d1 <= clock' - LastFlush'
        /\ clock' <= Midnight => d1 = 0
        /\ LastFlush' >= Midnight => d0 = 0
    BY <1>2, <1>3, <1>10, <1>11, <1>12, <2>1, <2>3
  <2>5. u = upsets /\ relay = TRUE => d0 + d1 = clock' - LastFlush'
    BY <1>2, <1>3, <1>11, <1>12, <2>2, <2>3
  <2>6. u = upsets /\ relay = FALSE => d0 + d1 = 0
    BY <1>2, <1>3, <1>11, <1>12, <2>2
  <2>7. /\ polled' = relay'
        /\ u = upsets' /\ relay' = TRUE => d0 + d1 = clock' - LastFlush'
        /\ u = upsets' /\ relay' = FALSE => d0 + d1 = 0
    BY <1>1, <2>5, <2>6
  <2> QED BY <2>4, <2>7, Zenon DEF Running
<1>15. u <= upsets' /\ late' = l + Over'
  <2>1. late \in Nat /\ Over \in Nat /\ late = l + Over
    BY <1>0, <1>7, PeriodsNow, OverNow
  <2>2. late' - Over' = late - Over /\ Over' \in Nat
    BY <1>0, OverElapses
  <2>3. late' \in Nat
    <3>1. late' = late \/ late' = late + 1
      BY DEF Elapse, Asleep, Late
    <3> QED BY <2>1, <3>1
  <2>4. PICK a \in Nat, b \in Nat, c \in Nat, o \in Nat :
           a = late' /\ b = Over' /\ c = late /\ o = Over
    BY <2>1, <2>2, <2>3, Zenon
  <2>5. a - b = c - o /\ c = l + o
    BY <2>1, <2>2, <2>4, Zenon
  <2>6. a = l + b
    BY <2>5
  <2> QED BY <1>1, <1>7, <2>4, <2>6
<1>16. Balanced(u, l, s0, s1, d0, d1)'
  BY <1>9, <1>13, <1>14, <1>15
<1> HIDE DEF Balanced
<1> QED BY <1>6, <1>13, <1>16 DEF Ledger

LEMMA CountWritten ==
    ASSUME Types, PumpRows, LastFlush < clock, UNCHANGED <<clock, flushS>>,
           pump' = pump \union {[at |-> clock, on |-> polled]}
    PROVE  /\ IsFiniteSet(pump')
           /\ \A d : Count(d)' = Count(d) + (IF d = Day(clock) /\ polled = TRUE THEN 1 ELSE 0)
<1> DEFINE row == [at |-> clock, on |-> polled]
           Counted(d) == {r \in pump : Day(r.at) = d /\ r.on = TRUE}
<1>1. row \notin pump
  <2>1. row.at = clock /\ clock \in Nat
    BY PeriodsNow
  <2>2. \A r \in pump : r.at \in Nat /\ r.at <= LastFlush
    BY DEF Types, Stamped, PumpRows
  <2>3. LastFlush \in Int \/ pump = {}
    BY PeriodsNow DEF LastFlush
  <2> HIDE DEF row
  <2> QED BY <2>1, <2>2, <2>3
<1>2. IsFiniteSet(pump')
  BY FS_AddElement DEF PumpRows
<1>3. ASSUME NEW d
      PROVE  Count(d)' = Count(d) + (IF d = Day(clock) /\ polled = TRUE THEN 1 ELSE 0)
  <2>1. IsFiniteSet(Counted(d)) /\ row \notin Counted(d) /\ Cardinality(Counted(d)) \in Nat
    <3>1. Counted(d) \in SUBSET pump
      OBVIOUS
    <3> QED BY <1>1, <3>1, FS_Subset, FS_CardinalityType DEF PumpRows
  <2>2. \A r : Day(r.at)' = Day(r.at)
    BY DEF Day
  <2>3. Count(d)' = Cardinality({r \in pump \union {row} : Day(r.at) = d /\ r.on = TRUE})
    BY DEF Count, Day
  <2>4. CASE d = Day(clock) /\ polled = TRUE
    <3>1. Day(row.at) = d /\ row.on = TRUE
      BY <2>4
    <3> HIDE DEF row
    <3>2. {r \in pump \union {row} : Day(r.at) = d /\ r.on = TRUE} = Counted(d) \union {row}
      BY <3>1
    <3>3. Count(d) = Cardinality(Counted(d))
      BY DEF Count
    <3> HIDE DEF Counted
    <3>4. Cardinality(Counted(d) \union {row}) = Cardinality(Counted(d)) + 1
      BY <2>1, FS_AddElement
    <3> QED BY <2>3, <2>4, <3>2, <3>3, <3>4
  <2>5. CASE ~(d = Day(clock) /\ polled = TRUE)
    <3>1. ~(Day(row.at) = d /\ row.on = TRUE)
      BY <2>5
    <3> HIDE DEF row
    <3>2. {r \in pump \union {row} : Day(r.at) = d /\ r.on = TRUE} = Counted(d)
      BY <3>1
    <3>3. Count(d) = Cardinality(Counted(d))
      BY DEF Count
    <3> HIDE DEF Counted
    <3>4. Cardinality(Counted(d)) + 0 = Cardinality(Counted(d))
      BY <2>1
    <3> QED BY <2>3, <2>5, <3>2, <3>3, <3>4
  <2> QED BY <2>4, <2>5
<1> QED BY <1>2, <1>3

LEMMA LedgerFlushes ==
    ASSUME RuntimeInv, Flush
    PROVE  PumpRows' /\ OnTicks' /\ Ledger'
<1>0. Types /\ PumpRows /\ OnTicks /\ Midnight \in Nat
  BY Constants DEF RuntimeInv
<1>1. /\ UNCHANGED <<clock, flushS, polled, real, relay>>
      /\ \/ upsets' = upsets /\ pump' = pump \union {[at |-> clock, on |-> polled]}
         \/ upsets' = upsets + 1 /\ pump' \in {pump, pump \union {[at |-> clock, on |-> polled]}}
  <2>1. UNCHANGED <<clock, flushS, polled, real, relay>>
    BY Zenon DEF Flush
  <2>2. \/ upsets' = upsets /\ pump' = pump \union {PumpRow}
        \/ upsets' = upsets + 1 /\ pump' = pump \union {PumpRow}
        \/ upsets' = upsets + 1 /\ pump' = pump
    BY Zenon DEF Flush, Upset
  <2> QED BY <2>1, <2>2 DEF PumpRow
<1>2. /\ LastFlush = clock - since /\ LastFlush' = clock
      /\ clock \in Nat /\ flushS \in Nat /\ flushS > 0 /\ upsets \in Nat /\ since \in Nat
      /\ since >= flushS
  BY <1>0, FlushOnTime, PeriodsNow, Constants DEF Types, Numbers
<1>o. PICK o \in Nat : o = Over /\ since = flushS + o /\ Over' = 0 /\ late' = late
  <2>1. since' = 0 /\ flushS' = flushS /\ late' = late
    BY DEF Flush
  <2>2. Over' = 0
    BY <1>2, <2>1 DEF Over
  <2>3. Over \in Nat /\ since = flushS + Over
    BY <1>2 DEF Over
  <2> QED BY <2>1, <2>2, <2>3
<1>3. LastFlush < clock /\ LastFlush = clock - (flushS + o)
  BY <1>2, <1>o
<1>4. PumpRows'
  <2>1. IsFiniteSet(pump')
    BY <1>0, <1>1, <1>3, CountWritten DEF PumpRows
  <2>2. \A r \in pump' : r.at <= clock
    <3>1. \A r \in pump : r.at <= clock
      BY <1>0, <1>2 DEF Types, Stamped
    <3> QED BY <1>1, <1>2, <3>1
  <2>3. \A r \in pump' : r.on \in BOOLEAN
    <3>1. polled \in BOOLEAN /\ \A r \in pump : r.on \in BOOLEAN
      BY <1>0, Zenon DEF Types, Switches, PumpRows
    <3>2. \A r \in pump' : r \in pump \/ r.on = polled
      BY <1>1
    <3> QED BY <3>1, <3>2, Zenon
  <2> QED BY <1>2, <2>1, <2>2, <2>3 DEF PumpRows
<1>5. OnTicks' /\ On(0)' = On(0) /\ On(1)' = On(1)
  BY <1>0, <1>1 DEF OnTicks, On
<1>6. PICK u \in Nat, l \in Nat, s0 \in Nat, s1 \in Nat, c0 \in Nat, c1 \in Nat :
         Balanced(u, l, s0, s1, c0, c1)
  BY DEF RuntimeInv, Ledger
<1> USE DEF Balanced
<1>7. /\ c0 + c1 <= flushS + o
      /\ u = upsets => /\ polled = TRUE => c0 + c1 = flushS + o
                       /\ polled = FALSE => c0 + c1 = 0
  <2>1. polled \in BOOLEAN /\ relay \in BOOLEAN
    BY <1>0, Zenon DEF Types, Switches
  <2> QED BY <1>2, <1>3, <1>6, <2>1 DEF Running
<1>8. PICK e \in Nat :
        /\ e <= flushS
        /\ Rows(0)' = Rows(0) + (IF clock < Midnight THEN e ELSE 0)
        /\ Rows(1)' = Rows(1) + (IF clock < Midnight THEN 0 ELSE e)
        /\ \/ upsets' = upsets /\ (polled = TRUE => e = flushS) /\ (polled = FALSE => e = 0)
           \/ upsets' = upsets + 1
  <2>1. polled \in BOOLEAN /\ Rows(0) \in Nat /\ Rows(1) \in Nat
    BY <1>0, CountType, Zenon DEF Types, Switches
  <2>2. CASE pump' = pump \union {[at |-> clock, on |-> polled]}
    <3>1. PICK e \in Nat :
            /\ polled = TRUE => e = flushS
            /\ polled = FALSE => e = 0
      <4>1. CASE polled = TRUE
        BY <1>2, <4>1
      <4>2. CASE polled = FALSE
        BY <4>2
      <4> QED BY <2>1, <4>1, <4>2
    <3>2. /\ Rows(0)' = Rows(0) + (IF clock < Midnight THEN e ELSE 0)
          /\ Rows(1)' = Rows(1) + (IF clock < Midnight THEN 0 ELSE e)
      <4>1. ASSUME NEW d
            PROVE  Rows(d)' = Rows(d) + (IF d = Day(clock) THEN e ELSE 0)
        <5>1. Count(d)' = Count(d) + (IF d = Day(clock) /\ polled = TRUE THEN 1 ELSE 0)
          BY <1>0, <1>1, <1>3, <2>2, CountWritten
        <5>2. Count(d) \in Nat /\ Rows(d) \in Nat
          BY <1>0, CountType
        <5>3. Rows(d)' = flushS * Count(d)'
          BY <1>1 DEF Rows
        <5>4. CASE d = Day(clock) /\ polled = TRUE
          BY <1>2, <3>1, <5>1, <5>2, <5>3, <5>4, Product DEF Rows
        <5>5. CASE ~(d = Day(clock) /\ polled = TRUE)
          <6>1. Rows(d)' = Rows(d)
            BY <5>1, <5>2, <5>3, <5>5 DEF Rows
          <6>2. d = Day(clock) => e = 0
            BY <2>1, <3>1, <5>5
          <6> QED BY <5>2, <6>1, <6>2
        <5> QED BY <5>4, <5>5
      <4> QED BY <4>1 DEF Day
    <3> QED BY <1>1, <1>2, <3>1, <3>2
  <2>3. CASE pump' = pump /\ upsets' = upsets + 1
    <3>1. Rows(0)' = Rows(0) /\ Rows(1)' = Rows(1)
      BY <1>1, <2>3 DEF Rows, Count, Day
    <3>2. /\ Rows(0)' = Rows(0) + (IF clock < Midnight THEN 0 ELSE 0)
          /\ Rows(1)' = Rows(1) + (IF clock < Midnight THEN 0 ELSE 0)
          /\ 0 <= flushS
      BY <1>2, <2>1, <3>1
    <3> QED BY <2>3, <3>2
  <2> QED BY <1>1, <2>2, <2>3
<1>9. PICK v \in Nat :
         v <= upsets' /\ ((v = u /\ e <= c0 + c1 /\ c0 + c1 <= e + o) \/ v = u + 1)
  <2>1. u <= upsets /\ polled \in BOOLEAN
    BY <1>0, <1>6, Zenon DEF Types, Switches
  <2>2. CASE u = upsets /\ upsets' = upsets
    BY <1>7, <1>8, <2>1, <2>2, <1>2
  <2>3. CASE u # upsets \/ upsets' = upsets + 1
    <3>1. u + 1 \in Nat /\ u + 1 <= upsets'
      BY <1>1, <1>2, <2>1, <2>3
    <3> QED BY <3>1
  <2> QED BY <1>1, <2>2, <2>3
<1>10. PICK t0 \in Nat, t1 \in Nat : t0 = s0 + c0 /\ t1 = s1 + c1
  BY <1>6
<1>m. PICK m \in Nat : m = l + o /\ late' = m + Over'
  <2>1. late = l + o
    BY <1>6, <1>o
  <2> QED BY <1>6, <1>o, <2>1
<1>11. PICK q0 \in Nat, q1 \in Nat : q0 = Rows(0)' /\ q1 = Rows(1)'
  <2>1. Rows(0) \in Nat /\ Rows(1) \in Nat
    BY <1>0, CountType
  <2> QED BY <1>8, <2>1
<1>12. /\ Near(q0 + q1, t0 + t1, flushS * v + m)
       /\ clock < Midnight => q1 = 0 /\ t1 = 0 /\ Near(q0, t0, flushS * v + m)
       /\ clock >= Midnight => /\ Near(q0, t0, (flushS * v + m) + flushS)
                               /\ t1 - q1 <= flushS * v + m /\ q1 - t1 <= (flushS * v + m) + flushS
  <2> DEFINE w == flushS * u + l
             z == flushS * v + m
             r0 == Rows(0)
             r1 == Rows(1)
  <2>1. r0 \in Nat /\ r1 \in Nat
    BY <1>0, CountType
  <2>2. w \in Nat /\ z \in Nat /\ ((z = w + o /\ e <= c0 + c1 /\ c0 + c1 <= e + o) \/ z = w + o + flushS)
    <3>1. /\ flushS * u \in Nat /\ flushS * v \in Nat
          /\ v = u + 1 => flushS * v = flushS * u + flushS
      BY <1>2, Product
    <3>2. CASE v = u /\ e <= c0 + c1 /\ c0 + c1 <= e + o
      BY <1>2, <1>m, <1>o, <3>1, <3>2
    <3>3. CASE v = u + 1
      BY <1>2, <1>m, <1>o, <3>1, <3>3
    <3> QED BY <1>9, <3>2, <3>3
  <2>3. /\ clock <= Midnight => c1 = 0
        /\ clock - (flushS + o) >= Midnight => c0 = 0
    BY <1>2, <1>3, <1>6 DEF Running
  <2>4. /\ Near(r0 + r1, s0 + s1, w)
        /\ clock - (flushS + o) < Midnight => r1 = 0 /\ s1 = 0 /\ Near(r0, s0, w)
        /\ clock - (flushS + o) >= Midnight => Near(r0, s0, w + flushS) /\ s1 - r1 <= w /\ r1 - s1 <= w + flushS
    BY <1>2, <1>3, <1>6 DEF Settled
  <2>5. q0 = r0 + (IF clock < Midnight THEN e ELSE 0) /\ q1 = r1 + (IF clock < Midnight THEN 0 ELSE e)
    BY <1>8, <1>11
  <2>6. e <= flushS /\ c0 + c1 <= flushS + o
    BY <1>7, <1>8
  <2> HIDE DEF w, z, r0, r1
  <2>7. /\ Near(q0 + q1, (s0 + c0) + (s1 + c1), z)
        /\ clock < Midnight => q1 = 0 /\ s1 + c1 = 0 /\ Near(q0, s0 + c0, z)
        /\ clock >= Midnight => /\ Near(q0, s0 + c0, z + flushS)
                                /\ (s1 + c1) - q1 <= z /\ q1 - (s1 + c1) <= z + flushS
    <3> USE <1>0, <1>2, <2>1, <2>2, <2>3, <2>4, <2>5, <2>6 DEF Near
    <3>1. CASE clock < Midnight
      BY <3>1
    <3>2. CASE clock >= Midnight /\ clock - (flushS + o) < Midnight
      BY <3>2
    <3>3. CASE clock - (flushS + o) >= Midnight
      BY <3>3
    <3> QED BY <3>1, <3>2, <3>3
  <2> QED BY <1>10, <2>7 DEF z
<1>13. Settled(v, m, t0, t1)'
  <2>1. flushS' = flushS /\ LastFlush' = clock
    BY <1>1, <1>2
  <2> QED BY <1>11, <1>12, <2>1 DEF Settled, Near
<1>14. Running(v, 0, 0)'
  <2>1. clock' = clock /\ LastFlush' = clock
    BY <1>1, <1>2
  <2> QED BY <1>2, <2>1 DEF Running
<1>15. On(0)' = t0 + 0 /\ On(1)' = t1 + 0
  BY <1>5, <1>6, <1>10
<1>16. Balanced(v, m, t0, t1, 0, 0)'
  BY <1>9, <1>m, <1>13, <1>14, <1>15
<1> HIDE DEF Balanced
<1> QED BY <1>4, <1>5, <1>16 DEF Ledger

LEMMA NextRuntime == RuntimeInv /\ [Next]_vars => RuntimeInv'
<1> SUFFICES ASSUME RuntimeInv, [Next]_vars PROVE RuntimeInv'
  OBVIOUS
<1>1. Types
  BY DEF RuntimeInv
<1>2. Types'
  BY <1>1, NextTypes
<1> SUFFICES PumpRows' /\ OnTicks' /\ Ledger'
  BY <1>2 DEF RuntimeInv
<1>3. ASSUME UNCHANGED <<timeVars, pump, real>>,
             \/ upsets' = upsets + 1
             \/ UNCHANGED <<upsets, relay>> /\ polled' \in {polled, relay}
      PROVE  PumpRows' /\ OnTicks' /\ Ledger'
  BY <1>3, LedgerKept
<1>4. CASE Switch \/ SwitchFails \/ Flip \/ Weather \/ CounterReset
  BY <1>3, <1>4 DEF Switch, SwitchFails, Flip, Weather, CounterReset, Upset, tables
<1>5. CASE Reconcile \/ Poll \/ UNCHANGED vars
  BY <1>3, <1>5 DEF Reconcile, Poll, vars, moveVars, tables
<1>6. CASE Elapse
  BY <1>6, LedgerElapses
<1>7. CASE Flush
  BY <1>7, LedgerFlushes
<1> QED BY <1>4, <1>5, <1>6, <1>7 DEF Next

LEMMA Scaled ==
    ASSUME NEW n \in Nat, NEW a \in Nat, NEW b \in Nat, NEW z \in Nat, Near(a, b, z)
    PROVE  Near(n * a, n * b, n * z)
<1>1. a <= b + z /\ b <= a + z
  BY DEF Near
<1>2. n * a <= n * (b + z) /\ n * b <= n * (a + z)
  <2>1. b + z \in Nat /\ a + z \in Nat
    OBVIOUS
  <2> QED BY <1>1, <2>1, Product
<1>3. /\ n * (b + z) = n * b + n * z /\ n * (a + z) = n * a + n * z
      /\ n * a \in Nat /\ n * b \in Nat /\ n * z \in Nat
  BY SMT
<1> QED BY <1>2, <1>3 DEF Near

\* The rows of both days are all the rows.
LEMMA CountAll ==
    ASSUME PumpRows
    PROVE  Cardinality({r \in pump : r.on = TRUE}) = Count(0) + Count(1)
<1> DEFINE Counted(d) == {r \in pump : Day(r.at) = d /\ r.on = TRUE}
           all == {r \in pump : r.on = TRUE}
<1>1. IsFiniteSet(Counted(0)) /\ IsFiniteSet(Counted(1))
  <2>1. Counted(0) \in SUBSET pump /\ Counted(1) \in SUBSET pump
    OBVIOUS
  <2> QED BY <2>1, FS_Subset DEF PumpRows
<1>2. Count(0) = Cardinality(Counted(0)) /\ Count(1) = Cardinality(Counted(1))
  BY DEF Count
<1>3. all = Counted(0) \union Counted(1) /\ Counted(0) \intersect Counted(1) = {}
  BY DEF Day
<1> HIDE DEF Counted, all
<1>4. Cardinality(Counted(0) \intersect Counted(1)) = 0
  BY <1>3, FS_EmptySet
<1>5. Cardinality(Counted(0)) \in Nat /\ Cardinality(Counted(1)) \in Nat
  BY <1>1, FS_CardinalityType
<1>6. Cardinality(Counted(0) \union Counted(1))
        = Cardinality(Counted(0)) + Cardinality(Counted(1)) - Cardinality(Counted(0) \intersect Counted(1))
  BY <1>1, FS_Union
<1>7. Cardinality(all) = Count(0) + Count(1)
  BY <1>2, <1>3, <1>4, <1>5, <1>6
<1> QED BY <1>7 DEF all

LEMMA EnergyOfRows ==
    ASSUME Types, PumpRows
    PROVE  /\ \A d : RuntimeEnergy(d) = Nominal * Rows(d)
           /\ WpTotal = Nominal * (Rows(0) + Rows(1))
<1>1. \A r \in pump : r.on <=> r.on = TRUE
  BY Zenon DEF PumpRows
<1>2. ASSUME NEW d PROVE RuntimeEnergy(d) = Nominal * Rows(d)
  <2>1. {r \in {q \in pump : Day(q.at) = d} : r.on} = {r \in pump : Day(r.at) = d /\ r.on = TRUE}
    BY <1>1
  <2> QED BY <2>1 DEF RuntimeEnergy, Runtime, RowTime, Rows, Count
<1>3. WpTotal = Nominal * (Rows(0) + Rows(1))
  <2>1. {r \in pump : r.on} = {r \in pump : r.on = TRUE}
    BY <1>1
  <2>2. Runtime(pump) = flushS * (Count(0) + Count(1))
    BY <2>1, CountAll DEF Runtime, RowTime
  <2>3. flushS * (Count(0) + Count(1)) = Rows(0) + Rows(1)
    <3>1. flushS \in Nat /\ Count(0) \in Nat /\ Count(1) \in Nat
      BY CountType
    <3> QED BY <3>1, SMT DEF Rows
  <2> QED BY <2>2, <2>3 DEF WpTotal
<1> QED BY <1>2, <1>3

\* At any moment, flushed or not: a flush for every disturbance, and one at either end.
LEMMA RowsStandForTheRuntime ==
    ASSUME RuntimeInv
    PROVE  LET z == flushS * (upsets + 1) + late
           IN /\ Near(Rows(0), On(0), z) /\ Near(Rows(1), On(1), z)
              /\ Near(Rows(0) + Rows(1), On(0) + On(1), z)
<1>0. Types /\ PumpRows /\ Midnight \in Nat
  BY Constants DEF RuntimeInv
<1>1. PICK u \in Nat, l \in Nat, s0 \in Nat, s1 \in Nat, c0 \in Nat, c1 \in Nat :
         Balanced(u, l, s0, s1, c0, c1)
  BY DEF RuntimeInv, Ledger
<1>2. /\ u <= upsets /\ On(0) = s0 + c0 /\ On(1) = s1 + c1
      /\ Settled(u, l, s0, s1) /\ Running(u, c0, c1)
  BY <1>1 DEF Balanced
<1>3. /\ clock \in Nat /\ flushS \in Nat /\ upsets \in Nat /\ LastFlush \in Int
      /\ LastFlush <= clock
  BY <1>0, PeriodsNow, Constants DEF Types, Numbers
<1>o. PICK o \in Nat : o = Over /\ clock <= LastFlush + flushS + o /\ late = l + o
  <2>1. Over \in Nat /\ since <= flushS + Over /\ late = l + Over
    BY <1>0, <1>1, OverNow DEF Balanced
  <2>2. clock = LastFlush + since /\ since \in Nat
    BY <1>0, PeriodsNow
  <2> QED BY <1>3, <2>1, <2>2
<1> DEFINE w == flushS * u + l
           z == flushS * (upsets + 1) + late
           r0 == Rows(0)
           r1 == Rows(1)
<1>4. w \in Nat /\ z \in Nat /\ w + flushS + o <= z
  <2>1. flushS * upsets \in Nat /\ flushS * u \in Nat /\ flushS * u <= flushS * upsets
    BY <1>2, <1>3, Product
  <2>2. flushS * (upsets + 1) = flushS * upsets + flushS
    BY <1>3, Product
  <2> QED BY <1>3, <1>o, <2>1, <2>2
<1>5. r0 \in Nat /\ r1 \in Nat
  BY <1>0, CountType
<1>6. /\ c0 + c1 <= flushS + o
      /\ LastFlush >= Midnight => c0 = 0
  BY <1>2, <1>3, <1>o DEF Running
<1>7. /\ Near(r0 + r1, s0 + s1, w)
      /\ LastFlush < Midnight => r1 = 0 /\ s1 = 0 /\ Near(r0, s0, w)
      /\ LastFlush >= Midnight => Near(r0, s0, w + flushS) /\ s1 - r1 <= w /\ r1 - s1 <= w + flushS
  BY <1>2 DEF Settled
<1> HIDE DEF w, z, r0, r1
<1>8. Near(r0 + r1, (s0 + c0) + (s1 + c1), z)
  BY <1>3, <1>4, <1>5, <1>6, <1>7 DEF Near
<1>9. Near(r0, s0 + c0, z) /\ Near(r1, s1 + c1, z)
  <2>1. CASE LastFlush < Midnight
    BY <1>3, <1>4, <1>5, <1>6, <1>7, <2>1 DEF Near
  <2>2. CASE LastFlush >= Midnight
    BY <1>3, <1>4, <1>5, <1>6, <1>7, <2>2 DEF Near
  <2> QED BY <1>0, <1>3, <2>1, <2>2
<1>10. Near(r0, On(0), z) /\ Near(r1, On(1), z) /\ Near(r0 + r1, On(0) + On(1), z)
  BY <1>2, <1>8, <1>9
<1> QED BY <1>10 DEF z, r0, r1

LEMMA RuntimeRight == RuntimeInv => RuntimeHonest
<1> SUFFICES ASSUME RuntimeInv PROVE RuntimeHonest
  OBVIOUS
<1> DEFINE z == flushS * (upsets + 1) + late
<1>1. Types /\ PumpRows /\ OnTicks /\ Nominal \in Nat
  BY Constants DEF RuntimeInv
<1>2. flushS \in Nat /\ upsets \in Nat /\ late \in Nat
  BY <1>1, Constants, PeriodsNow DEF Types, Numbers
<1>3. z \in Nat
  BY <1>1, <1>2, SMT
<1>4. /\ Near(Rows(0), On(0), z) /\ Near(Rows(1), On(1), z)
      /\ Near(Rows(0) + Rows(1), On(0) + On(1), z)
  BY RowsStandForTheRuntime
<1>5. /\ Rows(0) \in Nat /\ Rows(1) \in Nat /\ On(0) \in Nat /\ On(1) \in Nat
      /\ Rows(0) + Rows(1) \in Nat /\ On(0) + On(1) \in Nat
  BY <1>1, CountType DEF OnTicks, Days
<1> HIDE DEF z
<1>6. /\ Near(Nominal * Rows(0), Nominal * On(0), Nominal * z)
      /\ Near(Nominal * Rows(1), Nominal * On(1), Nominal * z)
      /\ Near(Nominal * (Rows(0) + Rows(1)), Nominal * (On(0) + On(1)), Nominal * z)
  BY <1>1, <1>3, <1>4, <1>5, Scaled
<1>7. /\ RuntimeEnergy(0) = Nominal * Rows(0) /\ RuntimeEnergy(1) = Nominal * Rows(1)
      /\ WpTotal = Nominal * (Rows(0) + Rows(1))
  BY <1>1, EnergyOfRows
<1> QED BY <1>3, <1>6, <1>7, Zenon DEF RuntimeHonest, Days, On, z

\* For every flush interval of at most a minute, and however often the relay moved,
\* polls came late, rows got lost or midnight fell into a minute: the runtime that
\* wp_runtime and the balance card estimate strays from the real one by no more than a
\* flush a disturbance, one flush more, and the time the flushes themselves took,
\* which FLUSH_DIVISOR_HOURS leaves out of every row.
THEOREM RuntimeIsHonest == Spec => []RuntimeHonest
<1>1. Spec => []RuntimeInv
  BY InitRuntime, NextRuntime, PTL DEF Spec
<1> QED BY <1>1, RuntimeRight, PTL

-----------------------------------------------------------------------------
(* Sums over finite sets, as the library's fold has them                   *)

\* The natural numbers are well-ordered.
LEMMA Least ==
    ASSUME NEW T \in SUBSET Nat, T # {}
    PROVE  \E n \in T : \A m \in T : n <= m
<1> DEFINE R == OpToRel(<, Nat)
<1>1. IsWellFoundedOn(R, Nat)
  BY NatLessThanWellFounded
<1>2. PICK n \in T : \A m \in T : ~(<<m, n>> \in R)
  <2> HIDE DEF R
  <2> QED BY <1>1, WFMin
<1>3. R = {ss \in Nat \X Nat : ss[1] < ss[2]}
  BY DEF OpToRel
<1>4. ASSUME NEW m \in T, ~(n <= m) PROVE FALSE
  <2>1. m < n /\ <<m, n>> \in Nat \X Nat
    BY <1>4
  <2>2. <<m, n>> \in R
    BY <1>3, <2>1
  <2> QED BY <1>2, <2>2
<1> QED BY <1>4

\* What holds of 0 and is handed on holds of every natural number.
LEMMA Induction ==
    ASSUME NEW Holds \in SUBSET Nat, 0 \in Holds, \A n \in Holds : n + 1 \in Holds
    PROVE  Holds = Nat
<1> SUFFICES ASSUME Nat \ Holds # {} PROVE FALSE
  OBVIOUS
<1>1. PICK n \in Nat \ Holds : \A m \in Nat \ Holds : n <= m
  BY Least
<1>2. n - 1 \in Nat /\ n - 1 \notin Holds
  <2>1. n # 0 /\ n - 1 + 1 = n
    BY <1>1
  <2> QED BY <1>1, <2>1
<1> QED BY <1>1, <1>2

AnyOf(s) == CHOOSE x \in s : TRUE
Small(S, n) == {s \in SUBSET S : Cardinality(s) <= n}

\* A sum over the subsets of S with at most n elements, as the library's fold has it.
SumUpTo(f, S, n, g) ==
  g = [s \in Small(S, n) |-> IF s = {} THEN 0 ELSE f[AnyOf(s)] + g[s \ {AnyOf(s)}]]

SumsTo(f, S, g) ==
  g = [s \in SUBSET S |-> IF s = {} THEN 0 ELSE f[AnyOf(s)] + g[s \ {AnyOf(s)}]]

LEMMA Subsets ==
    ASSUME NEW S, IsFiniteSet(S), NEW s \in SUBSET S
    PROVE  /\ IsFiniteSet(s) /\ Cardinality(s) \in Nat
           /\ Cardinality(s) <= Cardinality(S) /\ Cardinality(S) \in Nat
           /\ s = {} <=> Cardinality(s) = 0
           /\ s # {} => AnyOf(s) \in s
           /\ \A x \in s : Cardinality(s \ {x}) = Cardinality(s) - 1
<1>1. IsFiniteSet(s) /\ Cardinality(s) <= Cardinality(S)
  BY FS_Subset
<1>2. \A x \in s : Cardinality(s \ {x}) = Cardinality(s) - 1
  BY <1>1, FS_RemoveElement
<1>3. s # {} => AnyOf(s) \in s
  BY DEF AnyOf
<1> QED BY <1>1, <1>2, <1>3, FS_CardinalityType, FS_EmptySet

LEMMA SumUpToExists ==
    ASSUME NEW f, NEW S, IsFiniteSet(S), NEW n \in Nat
    PROVE  \E g : SumUpTo(f, S, n, g)
<1> DEFINE Holds == {k \in Nat : \E g : SumUpTo(f, S, k, g)}
<1>1. 0 \in Holds
  <2> DEFINE g == [s \in Small(S, 0) |-> 0]
  <2>1. \A s \in Small(S, 0) : s = {}
    BY Subsets DEF Small
  <2>2. SumUpTo(f, S, 0, g)
    BY <2>1 DEF SumUpTo
  <2> QED BY <2>2
<1>2. ASSUME NEW k \in Holds PROVE k + 1 \in Holds
  <2>1. PICK g : SumUpTo(f, S, k, g)
    OBVIOUS
  <2> DEFINE h == [s \in Small(S, k + 1) |->
                     IF s = {} THEN 0 ELSE f[AnyOf(s)] + g[s \ {AnyOf(s)}]]
  <2>2. k \in Nat
    OBVIOUS
  <2>3. \A s \in Small(S, k) : s \in Small(S, k + 1) /\ h[s] = g[s]
    <3>1. ASSUME NEW s \in Small(S, k)
          PROVE  s \in Small(S, k + 1) /\ g[s] = IF s = {} THEN 0 ELSE f[AnyOf(s)] + g[s \ {AnyOf(s)}]
      <4>1. s \in Small(S, k + 1)
        BY <2>2, Subsets DEF Small
      <4> QED BY <2>1, <4>1 DEF SumUpTo
    <3> QED BY <3>1
  <2>4. \A s \in Small(S, k + 1) : s # {} => s \ {AnyOf(s)} \in Small(S, k)
    BY <2>2, Subsets DEF Small
  <2>5. \A s \in Small(S, k + 1) :
          h[s] = IF s = {} THEN 0 ELSE f[AnyOf(s)] + h[s \ {AnyOf(s)}]
    BY <2>3, <2>4
  <2>6. SumUpTo(f, S, k + 1, h)
    <3> HIDE DEF h
    <3>1. h = [s \in Small(S, k + 1) |-> h[s]]
      BY DEF h
    <3> QED BY <2>5, <3>1 DEF SumUpTo
  <2> QED BY <2>2, <2>6
<1> HIDE DEF Holds
<1>3. Holds = Nat
  <2>1. Holds \in SUBSET Nat
    BY DEF Holds
  <2> QED BY <1>1, <1>2, <2>1, Induction
<1> QED BY <1>3 DEF Holds

LEMMA SumDefined ==
   ASSUME NEW f, NEW S, IsFiniteSet(S)
   PROVE  \E g : SumsTo(f, S, g) /\ SumFunctionOnSet(f, S) = g[S]
<1>1. Cardinality(S) \in Nat /\ Small(S, Cardinality(S)) = SUBSET S
  BY Subsets DEF Small
<1>2. \E g : SumsTo(f, S, g)
  <2>1. PICK g : SumUpTo(f, S, Cardinality(S), g)
    BY <1>1, SumUpToExists
  <2>2. SumsTo(f, S, g)
    BY <1>1, <2>1 DEF SumUpTo, SumsTo
  <2> QED BY <2>2
<1> DEFINE Fold == CHOOSE g : SumsTo(f, S, g)
<1>3. SumsTo(f, S, Fold)
  BY <1>2
<1>4. SumFunctionOnSet(f, S) = Fold[S]
  BY Zenon DEF SumFunctionOnSet, FoldFunctionOnSet, MapThenFoldSet, SumsTo, AnyOf
<1> QED BY <1>3, <1>4

\* The recursion determines the sum of every subset.
LEMMA SumUnique ==
    ASSUME NEW f, NEW S, IsFiniteSet(S), NEW T, IsFiniteSet(T),
           NEW g, SumsTo(f, S, g), NEW h, SumsTo(f, T, h), NEW s \in SUBSET (S \intersect T)
    PROVE  g[s] = h[s]
<1> DEFINE Wrong == {Cardinality(r) : r \in {r \in SUBSET (S \intersect T) : g[r] # h[r]}}
<1>1. SUFFICES ASSUME Wrong # {} PROVE FALSE
  OBVIOUS
<1>2. Wrong \in SUBSET Nat
  BY Subsets
<1>3. PICK r \in SUBSET (S \intersect T) :
        g[r] # h[r] /\ \A m \in Wrong : Cardinality(r) <= m
  BY <1>1, <1>2, Least
<1>4. CASE r = {}
  BY <1>3, <1>4 DEF SumsTo
<1>5. CASE r # {}
  <2> DEFINE rest == r \ {AnyOf(r)}
  <2>1. rest \in SUBSET (S \intersect T) /\ r \in SUBSET S /\ r \in SUBSET T
    OBVIOUS
  <2>2. Cardinality(rest) = Cardinality(r) - 1 /\ Cardinality(r) \in Nat
    BY <1>5, Subsets
  <2>3. g[rest] = h[rest]
    BY <1>3, <2>1, <2>2
  <2>4. g[r] = f[AnyOf(r)] + g[rest] /\ h[r] = f[AnyOf(r)] + h[rest]
    BY <1>5, <2>1 DEF SumsTo
  <2> QED BY <1>3, <2>3, <2>4
<1> QED BY <1>4, <1>5

LEMMA SumStep ==
    ASSUME NEW f, NEW S, IsFiniteSet(S), S # {}
    PROVE  SumFunctionOnSet(f, S) = f[AnyOf(S)] + SumFunctionOnSet(f, S \ {AnyOf(S)})
<1> DEFINE T == S \ {AnyOf(S)}
<1>1. IsFiniteSet(T) /\ T \in SUBSET (S \intersect T)
  BY Subsets
<1>2. PICK g : SumsTo(f, S, g) /\ SumFunctionOnSet(f, S) = g[S]
  BY SumDefined
<1>3. PICK h : SumsTo(f, T, h) /\ SumFunctionOnSet(f, T) = h[T]
  BY <1>1, SumDefined
<1>4. g[T] = h[T]
  BY <1>1, <1>2, <1>3, SumUnique
<1>5. g[S] = f[AnyOf(S)] + g[T]
  BY <1>2 DEF SumsTo
<1> QED BY <1>2, <1>3, <1>4, <1>5

LEMMA SumEmpty == ASSUME NEW f PROVE SumFunctionOnSet(f, {}) = 0
<1>1. PICK g : SumsTo(f, {}, g) /\ SumFunctionOnSet(f, {}) = g[{}]
  BY FS_EmptySet, SumDefined
<1> QED BY <1>1 DEF SumsTo

\* What holds of a subset whenever it holds of the smaller ones holds of all.
LEMMA SubsetInduction ==
    ASSUME NEW S, IsFiniteSet(S), NEW Good,
           \A s \in SUBSET S :
             (\A r \in SUBSET S : Cardinality(r) < Cardinality(s) => r \in Good) => s \in Good
    PROVE  \A s \in SUBSET S : s \in Good
<1> DEFINE Wrong == {Cardinality(s) : s \in (SUBSET S) \ Good}
<1>1. SUFFICES ASSUME Wrong # {} PROVE FALSE
  OBVIOUS
<1>2. Wrong \in SUBSET Nat
  BY Subsets
<1>3. PICK s \in (SUBSET S) \ Good : \A m \in Wrong : Cardinality(s) <= m
  <2>1. PICK k \in Wrong : \A m \in Wrong : k <= m
    <3> HIDE DEF Wrong
    <3> QED BY <1>1, <1>2, Least
  <2> QED BY <2>1
<1>4. \A r \in SUBSET S : Cardinality(r) < Cardinality(s) => r \in Good
  <2>1. ASSUME NEW r \in SUBSET S, Cardinality(r) < Cardinality(s), r \notin Good PROVE FALSE
    <3>1. Cardinality(r) \in Wrong
      BY <2>1
    <3>2. Cardinality(r) \in Nat /\ Cardinality(s) \in Nat
      BY Subsets
    <3> QED BY <1>3, <2>1, <3>1, <3>2
  <2> QED BY <2>1
<1> QED BY <1>3, <1>4

LEMMA SumType ==
    ASSUME NEW f, NEW S, IsFiniteSet(S), NEW T \in {Nat, Int}, \A x \in S : f[x] \in T
    PROVE  SumFunctionOnSet(f, S) \in T
<1> DEFINE Good == {s \in SUBSET S : SumFunctionOnSet(f, s) \in T}
<1>1. ASSUME NEW s \in SUBSET S,
             \A r \in SUBSET S : Cardinality(r) < Cardinality(s) => r \in Good
      PROVE  s \in Good
  <2>1. CASE s = {}
    <3>1. SumFunctionOnSet(f, s) = 0
      BY <2>1, SumEmpty
    <3>2. 0 \in T
      OBVIOUS
    <3> QED BY <3>1, <3>2
  <2>2. CASE s # {}
    <3> DEFINE rest == s \ {AnyOf(s)}
    <3>1. IsFiniteSet(s) /\ AnyOf(s) \in s /\ rest \in SUBSET S
      BY <2>2, Subsets
    <3>2. Cardinality(rest) < Cardinality(s)
      BY <2>2, Subsets
    <3>3. SumFunctionOnSet(f, s) = f[AnyOf(s)] + SumFunctionOnSet(f, rest)
      BY <2>2, <3>1, SumStep
    <3>4. SumFunctionOnSet(f, rest) \in T
      BY <1>1, <3>1, <3>2
    <3>5. f[AnyOf(s)] \in T
      BY <3>1
    <3>6. SumFunctionOnSet(f, s) \in T
      BY <3>3, <3>4, <3>5
    <3> QED BY <3>6
  <2> QED BY <2>1, <2>2
<1>2. \A s \in SUBSET S : s \in Good
  <2> HIDE DEF Good
  <2> QED BY <1>1, SubsetInduction
<1> QED BY <1>2

\* A sum does not depend on where it is begun.
LEMMA SumFromAny ==
    ASSUME NEW f, NEW S, IsFiniteSet(S), \A x \in S : f[x] \in Int
    PROVE  \A x \in S : SumFunctionOnSet(f, S) = f[x] + SumFunctionOnSet(f, S \ {x})
<1> DEFINE Total(s) == SumFunctionOnSet(f, s)
           Good == {s \in SUBSET S : \A x \in s : Total(s) = f[x] + Total(s \ {x})}
<1>0. \A s \in SUBSET S : Total(s) \in Int /\ (s # {} => Total(s) = f[AnyOf(s)] + Total(s \ {AnyOf(s)}))
  <2>1. ASSUME NEW s \in SUBSET S
        PROVE  Total(s) \in Int /\ (s # {} => Total(s) = f[AnyOf(s)] + Total(s \ {AnyOf(s)}))
    <3>1. IsFiniteSet(s) /\ \A x \in s : f[x] \in Int
      BY Subsets
    <3> QED BY <3>1, SumType, SumStep
  <2> QED BY <2>1
<1> HIDE DEF Total
<1>1. ASSUME NEW s \in SUBSET S,
             \A r \in SUBSET S : Cardinality(r) < Cardinality(s) => r \in Good
      PROVE  s \in Good
  <2>1. SUFFICES ASSUME NEW x \in s PROVE Total(s) = f[x] + Total(s \ {x})
    OBVIOUS
  <2> DEFINE c == AnyOf(s)
  <2>2. c \in s /\ Total(s) = f[c] + Total(s \ {c})
    BY <1>0, Subsets
  <2> HIDE DEF c
  <2>3. CASE x = c
    BY <2>2, <2>3
  <2>4. CASE x # c
    <3>1. s \ {c} \in Good /\ s \ {x} \in Good
      <4>1. Cardinality(s) \in Nat /\ Cardinality(s \ {c}) = Cardinality(s) - 1
            /\ Cardinality(s \ {x}) = Cardinality(s) - 1
        BY <2>2, Subsets
      <4>2. s \ {c} \in SUBSET S /\ s \ {x} \in SUBSET S
        OBVIOUS
      <4> HIDE DEF Good
      <4> QED BY <1>1, <4>1, <4>2
    <3>2. Total(s \ {c}) = f[x] + Total((s \ {c}) \ {x})
      BY <2>4, <3>1
    <3>3. Total(s \ {x}) = f[c] + Total((s \ {x}) \ {c})
      BY <2>2, <2>4, <3>1
    <3>4. (s \ {c}) \ {x} = (s \ {x}) \ {c}
      OBVIOUS
    <3>5. /\ Total((s \ {x}) \ {c}) \in Int /\ f[x] \in Int /\ f[c] \in Int
          /\ Total(s) = f[c] + (f[x] + Total((s \ {x}) \ {c}))
      <4>1. Total((s \ {x}) \ {c}) \in Int /\ f[x] \in Int /\ f[c] \in Int
        BY <1>0, <2>2
      <4> QED BY <2>2, <3>2, <3>4, <4>1
    <3> QED BY <3>3, <3>5
  <2> QED BY <2>3, <2>4
<1>2. \A s \in SUBSET S : s \in Good
  <2> HIDE DEF Good
  <2> QED BY <1>1, SubsetInduction
<1> QED BY <1>2 DEF Total

LEMMA SumGrows ==
    ASSUME NEW f, NEW S, IsFiniteSet(S), NEW x, x \notin S,
           \A y \in S \union {x} : f[y] \in Int
    PROVE  SumFunctionOnSet(f, S \union {x}) = SumFunctionOnSet(f, S) + f[x]
<1>1. IsFiniteSet(S \union {x}) /\ (S \union {x}) \ {x} = S
  BY FS_AddElement
<1>2. SumFunctionOnSet(f, S \union {x}) = f[x] + SumFunctionOnSet(f, S)
  BY <1>1, SumFromAny
<1>3. SumFunctionOnSet(f, S) \in Int
  BY SumType
<1> QED BY <1>2, <1>3

\* The sum is a matter of the values only.
LEMMA SumAgrees ==
    ASSUME NEW f, NEW g, NEW S, IsFiniteSet(S), \A x \in S : f[x] = g[x]
    PROVE  SumFunctionOnSet(f, S) = SumFunctionOnSet(g, S)
<1> DEFINE Good == {s \in SUBSET S : SumFunctionOnSet(f, s) = SumFunctionOnSet(g, s)}
<1>1. ASSUME NEW s \in SUBSET S,
             \A r \in SUBSET S : Cardinality(r) < Cardinality(s) => r \in Good
      PROVE  s \in Good
  <2>1. CASE s = {}
    BY <2>1, SumEmpty
  <2>2. CASE s # {}
    <3> DEFINE rest == s \ {AnyOf(s)}
    <3>1. IsFiniteSet(s) /\ AnyOf(s) \in s /\ rest \in SUBSET S
      BY <2>2, Subsets
    <3>2. Cardinality(rest) < Cardinality(s)
      BY <2>2, Subsets
    <3>3. /\ SumFunctionOnSet(f, s) = f[AnyOf(s)] + SumFunctionOnSet(f, rest)
          /\ SumFunctionOnSet(g, s) = g[AnyOf(s)] + SumFunctionOnSet(g, rest)
      BY <2>2, <3>1, SumStep
    <3>4. SumFunctionOnSet(f, rest) = SumFunctionOnSet(g, rest)
      BY <1>1, <3>1, <3>2
    <3>5. f[AnyOf(s)] = g[AnyOf(s)]
      BY <3>1
    <3> QED BY <3>3, <3>4, <3>5
  <2> QED BY <2>1, <2>2
<1>2. \A s \in SUBSET S : s \in Good
  <2> HIDE DEF Good
  <2> QED BY <1>1, SubsetInduction
<1> QED BY <1>2

\* What is the same everywhere adds up to its multiple, and averages to itself.
LEMMA SumOfSame ==
    ASSUME NEW f, NEW S, IsFiniteSet(S), NEW v \in Int, \A x \in S : f[x] = v
    PROVE  SumFunctionOnSet(f, S) = Cardinality(S) * v
<1> DEFINE Good == {s \in SUBSET S : SumFunctionOnSet(f, s) = Cardinality(s) * v}
<1>1. ASSUME NEW s \in SUBSET S,
             \A r \in SUBSET S : Cardinality(r) < Cardinality(s) => r \in Good
      PROVE  s \in Good
  <2>1. CASE s = {}
    <3>1. SumFunctionOnSet(f, s) = 0 /\ Cardinality(s) = 0
      BY <2>1, SumEmpty, FS_EmptySet
    <3> QED BY <3>1
  <2>2. CASE s # {}
    <3> DEFINE rest == s \ {AnyOf(s)}
    <3>1. IsFiniteSet(s) /\ AnyOf(s) \in s /\ rest \in SUBSET S
      BY <2>2, Subsets
    <3>2. Cardinality(rest) = Cardinality(s) - 1 /\ Cardinality(s) \in Nat
      BY <2>2, Subsets
    <3>3. SumFunctionOnSet(f, s) = f[AnyOf(s)] + SumFunctionOnSet(f, rest)
      BY <2>2, <3>1, SumStep
    <3>4. SumFunctionOnSet(f, rest) = Cardinality(rest) * v
      BY <1>1, <3>1, <3>2
    <3>5. f[AnyOf(s)] = v
      BY <3>1
    <3>6. \A n \in Nat : v + (n - 1) * v = n * v
      BY SMT
    <3>7. SumFunctionOnSet(f, s) = Cardinality(s) * v
      BY <3>2, <3>3, <3>4, <3>5, <3>6
    <3> QED BY <3>7
  <2> QED BY <2>1, <2>2
<1>2. \A s \in SUBSET S : s \in Good
  <2> HIDE DEF Good
  <2> QED BY <1>1, SubsetInduction
<1> QED BY <1>2

-----------------------------------------------------------------------------
(* The open minute: the one the next row belongs to, unless it gets late   *)

\* When the next flush is due, or now if it is late.
Due == clock + (IF since < flushS THEN flushS - since ELSE 0)

Open == Due \div Minute

\* How much of the time until t belongs to a day.
Upto(d, t) ==
    IF d = 0 THEN IF t < Midnight THEN t ELSE Midnight
             ELSE IF t < Midnight THEN 0 ELSE t - Midnight

\* What a day has of the time until the open minute begins, or lacks since it did; and
\* of the open minute itself.
Lead(d) == Upto(d, Minute * Open) - Upto(d, clock)
Share(d) == IF Day(Minute * Open) = d THEN Minute ELSE 0

LEMMA DivisionIsUnique ==
    ASSUME NEW f \in Nat, f > 0, NEW c \in Nat, NEW n \in Nat, f * n <= c, c < f * n + f
    PROVE  c \div f = n
<1> DEFINE q == c \div f
<1>1. q \in Nat /\ f * q \in Nat /\ f * q <= c /\ c < f * q + f
  BY Quotient
<1> HIDE DEF q
<1>2. f * n \in Nat
  BY Product
<1>3. ~(q < n) /\ ~(n < q)
  <2>1. q < n => f * q + f <= f * n
    BY <1>1, Multiples
  <2>2. n < q => f * n + f <= f * q
    BY <1>1, Multiples
  <2> DEFINE a == f * q
             b == f * n
  <2>3. /\ a \in Nat /\ b \in Nat /\ a <= c /\ c < a + f /\ b <= c /\ c < b + f
        /\ q < n => a + f <= b
        /\ n < q => b + f <= a
    BY <1>1, <1>2, <2>1, <2>2
  <2> HIDE DEF a, b
  <2> QED BY <2>3
<1>4. q = n
  BY <1>1, <1>3
<1> QED BY <1>4 DEF q

LEMMA OpenNow ==
    ASSUME Types
    PROVE  /\ Due \in Nat /\ clock <= Due /\ Due <= clock + flushS
           /\ since >= flushS => Due = clock
           /\ Open \in Nat /\ Minute * Open \in Nat
           /\ Minute * Open <= Due /\ Due < Minute * Open + Minute
<1>1. /\ clock \in Nat /\ flushS \in Nat /\ since \in Nat /\ Minute \in Nat /\ Minute > 0
  BY PeriodsNow, Constants
<1>2. Due \in Nat /\ clock <= Due /\ Due <= clock + flushS /\ (since >= flushS => Due = clock)
  BY <1>1 DEF Due
<1> QED BY <1>1, <1>2, Quotient DEF Open

\* Where a time after the open minute's beginning is: in it, or in the next one.
LEMMA OpenNext ==
    ASSUME Types, NEW t \in Nat, Due <= t, t <= Due + Minute
    PROVE  /\ t \div Minute \in {Open, Open + 1}
           /\ Minute * (Open + 1) = Minute * Open + Minute
           /\ t \div Minute = Open <=> t < Minute * Open + Minute
<1>1. /\ Minute \in Nat /\ Minute > 0 /\ Due \in Nat /\ Open \in Nat /\ Minute * Open \in Nat
      /\ Minute * Open <= Due /\ Due < Minute * Open + Minute
  BY OpenNow, Constants
<1>2. Minute * (Open + 1) = Minute * Open + Minute
  BY <1>1, Product
<1>3. CASE t < Minute * Open + Minute
  <2>1. t \div Minute = Open
    BY <1>1, <1>3, DivisionIsUnique
  <2> QED BY <1>2, <1>3, <2>1
<1>4. CASE ~(t < Minute * Open + Minute)
  <2>1. PICK n \in Nat, a \in Nat : n = Open + 1 /\ a = Minute * n
    BY <1>1, <1>2
  <2>2. Minute * n <= t /\ t < Minute * n + Minute
    <3>1. a = Minute * Open + Minute
      BY <1>2, <2>1
    <3>2. a <= t /\ t < a + Minute
      BY <1>1, <1>4, <3>1
    <3> QED BY <2>1, <3>2
  <2>3. t \div Minute = n
    BY <1>1, <2>2, DivisionIsUnique
  <2> QED BY <1>1, <1>2, <1>4, <2>1, <2>3
<1> QED BY <1>3, <1>4

LEMMA MidnightBeginsMinute ==
    ASSUME NEW o \in Nat
    PROVE  /\ Minute * o < Midnight => Minute * o + Minute <= Midnight
           /\ Minute * o > Midnight => Midnight + Minute <= Minute * o
<1>1. Midnight \in Nat /\ Minute \in Nat /\ Minute > 0
  BY Constants
<1>2. PICK k \in Nat : Midnight = Minute * k
  <2>1. Midnight = Minute * (Midnight \div Minute) /\ Midnight \div Minute \in Nat
    BY <1>1, MidnightAssumption
  <2> QED BY <2>1
<1>3. /\ o < k => Minute * o + Minute <= Minute * k
      /\ k < o => Minute * k + Minute <= Minute * o
      /\ Minute * o \in Nat
  BY <1>1, <1>2, Multiples, Product
<1>4. o = k => Minute * o = Midnight
  BY <1>2
<1>5. o < k \/ k < o \/ o = k
  OBVIOUS
<1> QED BY <1>1, <1>2, <1>3, <1>4, <1>5

LEMMA DayNow ==
    ASSUME Types, NEW d \in Days
    PROVE  /\ Lead(d) \in Int /\ Share(d) \in Nat
           /\ Lead(d) <= flushS /\ 0 <= Lead(d) + Share(d) /\ Share(d) <= Minute
<1>1. /\ clock \in Nat /\ flushS \in Nat /\ Minute \in Nat /\ Minute > 0 /\ Midnight \in Nat
      /\ Due \in Nat /\ clock <= Due /\ Due <= clock + flushS
  BY PeriodsNow, OpenNow, Constants
<1>2. PICK x \in Nat : x = Minute * Open
  BY OpenNow
<1>3. x <= Due /\ Due < x + Minute /\ (x < Midnight => x + Minute <= Midnight)
  BY <1>2, OpenNow, MidnightBeginsMinute
<1>4. /\ Lead(d) = Upto(d, x) - Upto(d, clock)
      /\ Share(d) = (IF Day(x) = d THEN Minute ELSE 0)
  BY <1>2 DEF Lead, Share
<1>5. CASE d = 0
  BY <1>1, <1>3, <1>4, <1>5 DEF Upto, Day
<1>6. CASE d = 1
  BY <1>1, <1>3, <1>4, <1>6 DEF Upto, Day
<1> QED BY <1>5, <1>6 DEF Days

\* A tick of a day.
Tick(d) == IF d = Day(clock) THEN 1 ELSE 0

\* Time passes, and takes the open minute with it if a flush is late.
LEMMA DayElapses ==
    ASSUME Types, Elapse, NEW d \in Days
    PROVE  \/ Open' = Open /\ overrun' = overrun /\ Lead(d)' = Lead(d) - Tick(d)
           \/ /\ Open' = Open + 1 /\ overrun' = overrun + 1
              /\ Lead(d)' = 0 /\ Lead(d) - Tick(d) + Share(d) = 0
              /\ clock < Minute * Open + Minute
<1>1. /\ clock \in Nat /\ flushS \in Nat /\ since \in Nat /\ Minute \in Nat /\ Minute > 0
      /\ Midnight \in Nat /\ overrun \in Nat
  BY PeriodsNow, Constants
<1>2. clock' = clock + 1 /\ since' = since + 1 /\ flushS' = flushS
  BY DEF Elapse
<1>3. Lead(d)' = Upto(d, Minute * Open') - Upto(d, clock + 1)
  BY <1>2 DEF Lead, Upto
<1>4. PICK x \in Nat : x = Minute * Open
  BY OpenNow
<1>5. x <= Due /\ Due < x + Minute /\ (x < Midnight => x + Minute <= Midnight) /\ Open \in Nat
      /\ Due \in Nat
  BY <1>4, OpenNow, MidnightBeginsMinute
<1>6. /\ Lead(d) = Upto(d, x) - Upto(d, clock)
      /\ Share(d) = (IF Day(x) = d THEN Minute ELSE 0)
  BY <1>4 DEF Lead, Share
<1>7. ASSUME Open' = Open PROVE Lead(d)' = Lead(d) - Tick(d)
  <2>1. Lead(d)' = Upto(d, x) - Upto(d, clock + 1)
    BY <1>3, <1>4, <1>7
  <2>2. CASE d = 0
    BY <1>1, <1>6, <2>1, <2>2 DEF Upto, Tick, Day
  <2>3. CASE d = 1
    BY <1>1, <1>6, <2>1, <2>3 DEF Upto, Tick, Day
  <2> QED BY <2>2, <2>3 DEF Days
<1>8. CASE Asleep
  <2>1. Due' = Due
    <3>1. PICK c \in Nat, n \in Nat, f \in Nat : c = clock /\ n = since /\ f = flushS /\ n < f
      BY <1>1, <1>8 DEF Asleep
    <3>2. Due = c + (f - n) /\ Due' = (c + 1) + (IF n + 1 < f THEN f - (n + 1) ELSE 0)
      BY <1>2, <3>1 DEF Due
    <3> QED BY <3>1, <3>2
  <2>2. Open' = Open
    BY <2>1 DEF Open
  <2> QED BY <1>7, <1>8, <2>2 DEF Asleep
<1>9. CASE Late
  <2>1. Due = clock /\ Due' = clock + 1
    <3>1. since >= flushS
      BY <1>9 DEF Late
    <3>2. ~(since < flushS) /\ ~(since + 1 < flushS)
      BY <1>1, <3>1
    <3> QED BY <1>1, <1>2, <3>2 DEF Due
  <2>2. PICK t \in Nat : t = clock + 1
    BY <1>1
  <2>3. /\ t \div Minute \in {Open, Open + 1} /\ Minute * (Open + 1) = x + Minute
        /\ t \div Minute = Open <=> t < x + Minute
    BY <1>1, <1>4, <2>1, <2>2, OpenNext
  <2>4. Open' = t \div Minute
    BY <2>1, <2>2 DEF Open
  <2>5. overrun' = overrun + (IF t % Minute = 0 THEN 1 ELSE 0)
    BY <1>2, <1>9, <2>2 DEF Late
  <2>6. x <= t /\ t <= x + Minute
    BY <1>1, <1>5, <2>1, <2>2
  <2>7. CASE t < x + Minute
    <3>1. t % Minute # 0
      <4>1. t % Minute = t - Minute * (t \div Minute)
        BY <1>1
      <4>2. t % Minute = t - x
        BY <1>4, <2>3, <2>7, <4>1
      <4>3. x < t
        BY <1>1, <1>5, <2>1, <2>2
      <4> QED BY <4>2, <4>3
    <3> QED BY <1>1, <1>7, <2>3, <2>4, <2>5, <2>7, <3>1
  <2>8. CASE t = x + Minute
    <3>1. Open' = Open + 1 /\ Minute * Open' = t
      BY <1>5, <2>3, <2>4, <2>8
    <3>2. t % Minute = 0
      <4>1. t % Minute = t - Minute * (t \div Minute)
        BY <1>1
      <4>2. t % Minute = t - t
        BY <2>4, <3>1, <4>1
      <4> QED BY <4>2
    <3>3. Lead(d)' = 0
      <4>1. Lead(d)' = Upto(d, t) - Upto(d, t) /\ Upto(d, t) \in Int
        BY <1>1, <1>3, <2>2, <3>1 DEF Upto
      <4> QED BY <4>1
    <3>4. Lead(d) - Tick(d) + Share(d) = 0
      <4>1. CASE d = 0
        BY <1>1, <1>5, <1>6, <2>2, <2>8, <4>1 DEF Upto, Tick, Day
      <4>2. CASE d = 1
        BY <1>1, <1>5, <1>6, <2>2, <2>8, <4>2 DEF Upto, Tick, Day
      <4> QED BY <4>1, <4>2 DEF Days
    <3>5. clock < Minute * Open + Minute
      BY <1>1, <1>4, <2>2, <2>8
    <3> QED BY <2>5, <3>1, <3>2, <3>3, <3>4, <3>5
  <2> QED BY <1>1, <1>4, <2>2, <2>6, <2>7, <2>8
<1> QED BY <1>8, <1>9 DEF Elapse

\* A flush leaves the minute open, or is the last before the next one.
LEMMA DayFlushed ==
    ASSUME Types, Flush, NEW d \in Days
    PROVE  /\ clock \div Minute = Open /\ clock < Minute * Open + Minute
           /\ \/ Open' = Open /\ Lead(d)' = Lead(d)
              \/ Open' = Open + 1 /\ Lead(d)' = Lead(d) + Share(d) /\ 0 <= Lead(d)'
<1>1. /\ clock \in Nat /\ flushS \in Nat /\ flushS > 0 /\ flushS <= Minute /\ Minute \in Nat
      /\ Midnight \in Nat
  BY PeriodsNow, Constants
<1>2. clock' = clock /\ since' = 0 /\ flushS' = flushS /\ since >= flushS
  BY DEF Flush
<1>3. PICK x \in Nat : x = Minute * Open
  BY OpenNow
<1>4. x <= clock /\ clock < x + Minute /\ (x < Midnight => x + Minute <= Midnight) /\ Open \in Nat
      /\ Due = clock
  BY <1>2, <1>3, OpenNow, MidnightBeginsMinute
<1>5. clock \div Minute = Open
  BY <1>4 DEF Open
<1>6. PICK t \in Nat : t = clock + flushS
  BY <1>1
<1>7. /\ t \div Minute \in {Open, Open + 1} /\ Minute * (Open + 1) = x + Minute
  BY <1>1, <1>3, <1>4, <1>6, OpenNext
<1>8. Open' = t \div Minute
  <2>1. Due' = clock + flushS
    BY <1>1, <1>2 DEF Due
  <2> QED BY <1>6, <2>1 DEF Open
<1>9. Lead(d)' = Upto(d, Minute * Open') - Upto(d, clock)
  BY <1>2 DEF Lead, Upto
<1>10. /\ Lead(d) = Upto(d, x) - Upto(d, clock)
       /\ Share(d) = (IF Day(x) = d THEN Minute ELSE 0)
  BY <1>3 DEF Lead, Share
<1>11. CASE Open' = Open
  BY <1>3, <1>4, <1>5, <1>9, <1>10, <1>11
<1>12. CASE Open' = Open + 1
  <2>1. Lead(d)' = Upto(d, x + Minute) - Upto(d, clock)
    BY <1>7, <1>9, <1>12
  <2>2. Lead(d)' = Lead(d) + Share(d) /\ 0 <= Lead(d)'
    <3>1. CASE d = 0
      BY <1>1, <1>4, <1>10, <2>1, <3>1 DEF Upto, Day
    <3>2. CASE d = 1
      BY <1>1, <1>4, <1>10, <2>1, <3>2 DEF Upto, Day
    <3> QED BY <3>1, <3>2 DEF Days
  <2> QED BY <1>3, <1>4, <1>5, <1>12, <2>2
<1> QED BY <1>7, <1>8, <1>11, <1>12
-----------------------------------------------------------------------------
(* What a minute shows                                                     *)

Kinds == {"self", "wasted"}

Truth(kind, d) == IF kind = "self" THEN real[d].self ELSE real[d].wasted

Shown(kind, m) == IF kind = "self" THEN UsedIn(m) ELSE WastedIn(m)

\* What truly adds to it in a moment.
Rate(kind) ==
    IF kind = "self" THEN IF relay THEN Clamp(headroom) ELSE 0
                     ELSE IF relay THEN 0 ELSE Clamp(headroom)

LEMMA ClampType == ASSUME NEW x \in Int PROVE Clamp(x) \in Nat /\ Clamp(x) <= Nominal
  BY Constants DEF Clamp

LEMMA AverageType ==
    ASSUME NEW column, IsFiniteSet(DOMAIN column), DOMAIN column # {},
           \A x \in DOMAIN column : column[x] \in Int
    PROVE  Average(column) \in Int
<1>1. SumFunctionOnSet(column, DOMAIN column) \in Int
  BY SumType
<1>2. Cardinality(DOMAIN column) \in Nat /\ Cardinality(DOMAIN column) # 0
  BY FS_CardinalityType, FS_EmptySet
<1>3. \A n \in Nat, x \in Int : n # 0 => x \div n \in Int
  OBVIOUS
<1> QED BY <1>1, <1>2, <1>3 DEF Average

LEMMA AverageOfSame ==
    ASSUME NEW column, IsFiniteSet(DOMAIN column), DOMAIN column # {},
           NEW v \in Int, \A x \in DOMAIN column : column[x] = v
    PROVE  Average(column) = v
<1>1. SumFunctionOnSet(column, DOMAIN column) = Cardinality(DOMAIN column) * v
  BY SumOfSame
<1>2. Cardinality(DOMAIN column) \in Nat /\ Cardinality(DOMAIN column) # 0
  BY FS_CardinalityType, FS_EmptySet
<1>3. \A n \in Nat : n # 0 => (n * v) \div n = v
  BY SMT
<1> QED BY <1>1, <1>2, <1>3 DEF Average

SavingsRows ==
    /\ IsFiniteSet(meter) /\ IsFiniteSet(pump)
    /\ \A r \in meter : r.surplus \in Int /\ r.export \in Int
    /\ \A r \in pump : r.on \in BOOLEAN

\* A minute's share is of what the heat pump can use, whatever its rows say.
LEMMA ShownType ==
    ASSUME SavingsRows, NEW kind \in Kinds, NEW m, Of(meter, m) # {}
    PROVE  Shown(kind, m) \in Nat /\ Shown(kind, m) <= Nominal
<1>1. IsFiniteSet(Of(meter, m)) /\ \A r \in Of(meter, m) : r.surplus \in Int /\ r.export \in Int
  <2>1. Of(meter, m) \in SUBSET meter
    BY DEF Of
  <2> QED BY <2>1, FS_Subset DEF SavingsRows
<1>2. MeanSurplus(m) \in Int
  <2> DEFINE column == [r \in Of(meter, m) |-> r.surplus]
  <2>1. DOMAIN column = Of(meter, m) /\ \A r \in Of(meter, m) : column[r] = r.surplus
    OBVIOUS
  <2> HIDE DEF column
  <2>2. Average(column) \in Int
    BY <1>1, <2>1, AverageType
  <2> QED BY <2>2 DEF MeanSurplus, column
<1>3. MeanExport(m) \in Int
  <2> DEFINE column == [r \in Of(meter, m) |-> r.export]
  <2>1. DOMAIN column = Of(meter, m) /\ \A r \in Of(meter, m) : column[r] = r.export
    OBVIOUS
  <2> HIDE DEF column
  <2>2. Average(column) \in Int
    BY <1>1, <2>1, AverageType
  <2> QED BY <2>2 DEF MeanExport, column
<1>4. Nominal \in Nat /\ MeanSurplus(m) + Nominal \in Int
  BY <1>2, Constants
<1>5. /\ Clamp(MeanSurplus(m) + Nominal) \in Nat /\ Clamp(MeanSurplus(m) + Nominal) <= Nominal
      /\ Clamp(MeanExport(m)) \in Nat /\ Clamp(MeanExport(m)) <= Nominal
  BY <1>3, <1>4, ClampType
<1> QED BY <1>4, <1>5 DEF Shown, UsedIn, WastedIn

\* Where nothing changed the mean is the rate: what the heat pump drew is added back.
LEMMA ShownOfSame ==
    ASSUME SavingsRows, NEW kind \in Kinds, NEW m, relay \in BOOLEAN, headroom \in Int,
           Of(meter, m) # {}, Of(pump, m) # {},
           \A r \in Of(meter, m) : r.surplus = Surplus /\ r.export = Export,
           \A r \in Of(pump, m) : r.on = relay
    PROVE  Shown(kind, m) = Rate(kind)
<1>1. IsFiniteSet(Of(meter, m))
  <2>1. Of(meter, m) \in SUBSET meter
    BY DEF Of
  <2> QED BY <2>1, FS_Subset DEF SavingsRows
<1>2. Surplus \in Int /\ Export \in Int
  BY Constants DEF Surplus, Export
<1>3. MeanSurplus(m) = Surplus
  <2> DEFINE column == [r \in Of(meter, m) |-> r.surplus]
  <2>1. DOMAIN column = Of(meter, m) /\ \A r \in Of(meter, m) : column[r] = r.surplus
    OBVIOUS
  <2> HIDE DEF column
  <2>2. \A r \in DOMAIN column : column[r] = Surplus
    BY <2>1
  <2>3. Average(column) = Surplus
    BY <1>1, <1>2, <2>1, <2>2, AverageOfSame
  <2> QED BY <2>3 DEF MeanSurplus, column
<1>4. MeanExport(m) = Export
  <2> DEFINE column == [r \in Of(meter, m) |-> r.export]
  <2>1. DOMAIN column = Of(meter, m) /\ \A r \in Of(meter, m) : column[r] = r.export
    OBVIOUS
  <2> HIDE DEF column
  <2>2. \A r \in DOMAIN column : column[r] = Export
    BY <2>1
  <2>3. Average(column) = Export
    BY <1>1, <1>2, <2>1, <2>2, AverageOfSame
  <2> QED BY <2>3 DEF MeanExport, column
<1>5. AnyOn(m) <=> relay
  BY DEF AnyOn
<1>6. CASE relay = TRUE
  <2>1. AnyOn(m)
    BY <1>5, <1>6
  <2>2. Surplus = headroom - Nominal
    BY <1>6 DEF Surplus
  <2>3. MeanSurplus(m) + Nominal = headroom
    BY <1>3, <2>2, Constants
  <2> QED BY <1>6, <2>1, <2>3, Zenon DEF Shown, UsedIn, WastedIn, Rate
<1>7. CASE relay = FALSE
  <2>1. ~AnyOn(m)
    BY <1>5, <1>7
  <2>2. Surplus = headroom
    <3>1. Surplus = headroom - 0
      BY <1>7 DEF Surplus
    <3> QED BY <3>1
  <2>3. Clamp(MeanExport(m)) = Clamp(headroom)
    BY <1>4, <2>2, Constants DEF Export, Clamp
  <2> QED BY <1>7, <2>1, <2>3, Zenon DEF Shown, UsedIn, WastedIn, Rate
<1> QED BY <1>6, <1>7
-----------------------------------------------------------------------------
(* What the books of a day may be off by: e is what its closed minutes say  *)
(* beyond what was true of it up to now, y its lead, f a flush period, s    *)
(* what the disturbances so far account for.                                *)

\* Nothing has changed in the open minute, and the heat pump uses v of every tick; the
\* time before the very first flush may be in no minute.
CalmBook(e, v, y, f, s) == e <= v * y + s /\ v * y <= e + s + Nominal * f

\* The minute of a disturbance may have any mean.
LooseBook(e, y, f, s) == e <= s + Nominal * f /\ 0 <= e + s + Nominal * (2 * f - y)

\* What a lead is between.
Leads(v, y, f, w, m) ==
    /\ v \in Nat /\ y \in Int /\ f \in Nat /\ w \in Nat /\ m \in Nat
    /\ v <= Nominal /\ y <= f /\ 0 <= y + w /\ w <= m

LEMMA Times ==
    ASSUME NEW v \in Nat, NEW n \in Nat, v <= n, NEW t \in Nat
    PROVE  v * t \in Nat /\ n * t \in Nat /\ v * t <= n * t
<1>1. n - v \in Nat /\ n = v + (n - v)
  OBVIOUS
<1>2. v * t \in Nat /\ (n - v) * t \in Nat /\ n * t = v * t + (n - v) * t
  BY <1>1, SMT
<1> QED BY <1>2

\* The products a lead makes.
LEMMA LeadTimes ==
    ASSUME NEW v, NEW y, NEW f, NEW w, NEW m, Leads(v, y, f, w, m)
    PROVE  /\ v * y \in Int /\ Nominal * f \in Nat /\ Nominal * y \in Int
           /\ Nominal * w \in Nat /\ Nominal * m \in Nat /\ Nominal * w <= Nominal * m
           /\ Nominal * (2 * f - y) = Nominal * f + Nominal * f - Nominal * y
           /\ Nominal * (m + f) = Nominal * m + Nominal * f
           /\ v * y <= Nominal * f /\ Nominal * y <= Nominal * f
           /\ 0 <= v * y + Nominal * w /\ 0 <= Nominal * y + Nominal * w
           /\ v * y + Nominal * y <= Nominal * f + Nominal * f
           /\ 0 <= v * y + Nominal * f - Nominal * y
<1>0. /\ v \in Nat /\ y \in Int /\ f \in Nat /\ w \in Nat /\ m \in Nat /\ Nominal \in Nat
      /\ v <= Nominal /\ y <= f /\ 0 <= y + w /\ w <= m
  BY Constants DEF Leads
<1>1. PICK n \in Nat : n = Nominal
  BY <1>0
<1>2. n * f \in Nat /\ n * w \in Nat /\ n * m \in Nat /\ n * w <= n * m
  BY <1>0, <1>1, Product
<1>3. n * (2 * f - y) = n * f + n * f - n * y /\ n * (m + f) = n * m + n * f
  BY <1>0, SMT
<1>4. v * y \in Int /\ n * y \in Int
  BY <1>0, SMT
<1>5. CASE y >= 0
  <2>1. y \in Nat
    BY <1>0, <1>5
  <2>2. v * y \in Nat /\ n * y \in Nat /\ v * y <= n * y /\ n * y <= n * f
    BY <1>0, <1>1, <2>1, Times, Product
  <2>3. PICK a \in Nat, b \in Nat, c \in Nat, k \in Nat :
           a = v * y /\ b = n * y /\ c = n * f /\ k = n * w
    BY <1>2, <2>2
  <2>4. /\ a <= c /\ b <= c /\ 0 <= a + k /\ 0 <= b + k /\ a + b <= c + c /\ 0 <= a + c - b
    BY <2>2, <2>3
  <2> QED BY <1>1, <1>2, <1>3, <1>4, <2>3, <2>4
<1>6. CASE y < 0
  <2>1. PICK z \in Nat : z = -y /\ z <= w
    BY <1>0, <1>6
  <2>2. v * z \in Nat /\ n * z \in Nat /\ v * z <= n * z /\ n * z <= n * w
    BY <1>0, <1>1, <2>1, Times, Product
  <2>3. v * y = -(v * z) /\ n * y = -(n * z)
    BY <1>0, <2>1, SMT
  <2>4. PICK a \in Nat, b \in Nat, c \in Nat, k \in Nat :
           a = v * z /\ b = n * z /\ c = n * f /\ k = n * w
    BY <1>2, <2>2
  <2>5. /\ -a <= c /\ -b <= c /\ 0 <= k - a /\ 0 <= k - b /\ (-a) + (-b) <= c + c /\ 0 <= (-a) + c - (-b)
    BY <2>2, <2>4
  <2>6. v * y = -a /\ n * y = -b
    BY <2>3, <2>4
  <2>7. 0 <= v * y + k /\ 0 <= n * y + k
    BY <2>5, <2>6
  <2> QED BY <1>1, <1>2, <1>3, <1>4, <2>4, <2>5, <2>6, <2>7
<1> QED BY <1>0, <1>5, <1>6

LEMMA CalmIsLoose ==
    ASSUME NEW e \in Int, NEW s \in Nat, NEW v, NEW y, NEW f, NEW w, NEW m, Leads(v, y, f, w, m),
           CalmBook(e, v, y, f, s)
    PROVE  LooseBook(e, y, f, s)
<1>1. PICK a \in Int, b \in Int, c \in Nat : a = v * y /\ b = Nominal * y /\ c = Nominal * f
  BY LeadTimes
<1>2. Nominal * (2 * f - y) = c + c - b /\ a <= c /\ 0 <= a + c - b
  BY <1>1, LeadTimes
<1>3. e <= a + s /\ a <= e + s + c
  BY <1>1 DEF CalmBook
<1>4. e <= s + c /\ 0 <= e + s + (c + c - b)
  BY <1>2, <1>3
<1> QED BY <1>1, <1>2, <1>4 DEF LooseBook

LEMMA LooseWidens ==
    ASSUME NEW e \in Int, NEW s \in Nat, NEW r \in Nat, s <= r, NEW y \in Int, NEW f \in Nat,
           LooseBook(e, y, f, s)
    PROVE  LooseBook(e, y, f, r)
<1>1. Nominal * f \in Int /\ Nominal * (2 * f - y) \in Int
  BY Constants, SMT
<1>2. PICK a \in Int, b \in Int : a = Nominal * f /\ b = Nominal * (2 * f - y)
  BY <1>1
<1>3. e <= s + a /\ 0 <= e + s + b
  BY <1>2 DEF LooseBook
<1>4. e <= r + a /\ 0 <= e + r + b
  BY <1>3
<1> QED BY <1>2, <1>4 DEF LooseBook

\* A tick of the day's, or none.
LEMMA BookElapses ==
    ASSUME NEW e \in Int, NEW s \in Nat, NEW v \in Nat, v <= Nominal, NEW y \in Int, NEW f \in Nat
    PROVE  /\ CalmBook(e, v, y, f, s) => CalmBook(e - v, v, y - 1, f, s)
           /\ LooseBook(e, y, f, s) => LooseBook(e - v, y - 1, f, s)
<1>1. Nominal \in Nat
  BY Constants
<1>2. v * (y - 1) = v * y - v /\ v * y \in Int /\ Nominal * f \in Nat
  BY <1>1, SMT
<1>3. PICK a \in Int, c \in Nat : a = v * y /\ c = Nominal * f
  BY <1>2
<1>4. CalmBook(e, v, y, f, s) => CalmBook(e - v, v, y - 1, f, s)
  <2>1. CalmBook(e, v, y, f, s) <=> e <= a + s /\ a <= e + s + c
    BY <1>3 DEF CalmBook
  <2>2. CalmBook(e - v, v, y - 1, f, s) <=> e - v <= (a - v) + s /\ a - v <= (e - v) + s + c
    BY <1>2, <1>3 DEF CalmBook
  <2> QED BY <2>1, <2>2
<1>5. Nominal * (2 * f - (y - 1)) = Nominal * (2 * f - y) + Nominal /\ Nominal * (2 * f - y) \in Int
  BY <1>1, SMT
<1>6. PICK b \in Int, n \in Nat : b = Nominal * (2 * f - y) /\ n = Nominal
  BY <1>1, <1>5
<1>7. LooseBook(e, y, f, s) => LooseBook(e - v, y - 1, f, s)
  <2>1. LooseBook(e, y, f, s) <=> e <= s + c /\ 0 <= e + s + b
    BY <1>3, <1>6 DEF LooseBook
  <2>2. LooseBook(e - v, y - 1, f, s) <=> e - v <= s + c /\ 0 <= (e - v) + s + (b + n)
    BY <1>3, <1>5, <1>6 DEF LooseBook
  <2> QED BY <1>6, <2>1, <2>2
<1> QED BY <1>4, <1>7

\* A minute in which nothing changed is closed: its mean is the rate.
LEMMA CalmCloses ==
    ASSUME NEW e \in Int, NEW s \in Nat, NEW v \in Nat, NEW y \in Int, NEW w \in Nat, NEW f \in Nat,
           CalmBook(e, v, y, f, s)
    PROVE  CalmBook(e + v * w, v, y + w, f, s)
<1>1. v * (y + w) = v * y + v * w /\ v * y \in Int /\ v * w \in Nat /\ Nominal * f \in Nat
  BY Constants, SMT
<1>2. PICK a \in Int, b \in Nat, c \in Nat : a = v * y /\ b = v * w /\ c = Nominal * f
  BY <1>1
<1>3. e <= a + s /\ a <= e + s + c
  BY <1>2 DEF CalmBook
<1>4. e + b <= (a + b) + s /\ a + b <= (e + b) + s + c
  BY <1>3
<1> QED BY <1>1, <1>2, <1>4 DEF CalmBook

\* Whatever mean it has, and whatever tick closes it, what comes next starts calm, but a
\* minute and a flush off.
LEMMA LooseCloses ==
    ASSUME NEW e \in Int, NEW s \in Nat, NEW v, NEW y, NEW f, NEW w, NEW m, Leads(v, y, f, w, m),
           NEW k \in {0, 1}, 0 <= y - k + w, NEW g \in Nat, g <= Nominal * w,
           LooseBook(e, y, f, s)
    PROVE  CalmBook((e - v * k) + g, v, y - k + w, f, s + Nominal * (m + f))
<1>0. /\ v \in Nat /\ y \in Int /\ f \in Nat /\ w \in Nat /\ m \in Nat /\ Nominal \in Nat
      /\ v <= Nominal /\ w <= m
  BY Constants DEF Leads
<1>1. PICK z \in Nat, n \in Nat : z = y - k + w /\ n = Nominal
  BY <1>0
<1>2. PICK b \in Int, c \in Nat, W \in Nat, M \in Nat :
         b = n * y /\ c = n * f /\ W = n * w /\ M = n * m
  BY <1>1, LeadTimes
<1>3. n * (2 * f - y) = c + c - b /\ n * (m + f) = M + c /\ W <= M
  BY <1>1, <1>2, LeadTimes
<1>4. /\ v * (z + k) \in Nat /\ n * (z + k) \in Nat /\ v * (z + k) <= n * (z + k)
      /\ v * (z + k) = v * z + v * k
  <2>1. z + k \in Nat
    OBVIOUS
  <2>2. v * (z + k) = v * z + v * k
    BY <1>0, SMT
  <2> QED BY <1>0, <1>1, <2>1, <2>2, Times
<1>5. n * (z + k) = b + W
  <2>1. z + k = y + w
    BY <1>0, <1>1
  <2>2. n * (y + w) = n * y + n * w
    BY <1>0, SMT
  <2> QED BY <1>2, <2>1, <2>2
<1>6. PICK A \in Nat, K \in Nat : A = v * z /\ K = v * k
  BY <1>0, Product
<1>7. e <= s + c /\ 0 <= e + s + (c + c - b)
  BY <1>1, <1>2, <1>3 DEF LooseBook
<1>8. g <= W /\ A + K <= b + W
  BY <1>1, <1>2, <1>4, <1>5, <1>6
<1>9. /\ (e - K) + g <= A + (s + (M + c))
      /\ A <= ((e - K) + g) + (s + (M + c)) + c
  BY <1>3, <1>7, <1>8
<1> QED BY <1>1, <1>2, <1>3, <1>6, <1>9 DEF CalmBook

\* With what the rows of the open minute add.
LEMMA BookRight ==
    ASSUME NEW e \in Int, NEW s \in Nat, NEW v, NEW y, NEW f, NEW w, NEW m, Leads(v, y, f, w, m),
           NEW g \in Nat, g <= Nominal * w, NEW b, b = Nominal * (m + f)
    PROVE  /\ CalmBook(e, v, y, f, s) => e + g <= s + b /\ -(s + b) <= e + g
           /\ LooseBook(e, y, f, s) => e + g <= (s + b) + b /\ -((s + b) + b) <= e + g
<1>1. PICK a \in Int, B \in Int, c \in Nat, W \in Nat, M \in Nat :
         a = v * y /\ B = Nominal * y /\ c = Nominal * f /\ W = Nominal * w /\ M = Nominal * m
  BY LeadTimes
<1>2. /\ Nominal * (2 * f - y) = c + c - B /\ b = M + c /\ W <= M
      /\ a <= c /\ 0 <= a + W /\ 0 <= B + W /\ g <= W
  BY <1>1, LeadTimes
<1>3. ASSUME CalmBook(e, v, y, f, s) PROVE e + g <= s + b /\ -(s + b) <= e + g
  <2>1. e <= a + s /\ a <= e + s + c
    BY <1>1, <1>3 DEF CalmBook
  <2> QED BY <1>2, <2>1
<1>4. ASSUME LooseBook(e, y, f, s) PROVE e + g <= (s + b) + b /\ -((s + b) + b) <= e + g
  <2>1. e <= s + c /\ 0 <= e + s + (c + c - B)
    BY <1>1, <1>2, <1>4 DEF LooseBook
  <2> QED BY <1>2, <2>1
<1> QED BY <1>3, <1>4

-----------------------------------------------------------------------------
(* The books: what the minutes of a day add up to                          *)

\* The savings chart's minutes of a day, and their energy.
Entries(kind, d) == [m \in Minutes(d) |-> Shown(kind, m)]

Energy(kind, d) == Minute * SumFunction(Entries(kind, d))

\* What the closed minutes of a day add up to, and the open one adds.
Entered(kind, d) ==
    Minute * SumFunctionOnSet(Entries(kind, d), {m \in Minutes(d) : m < Open})

OpenEntry(kind, d) == IF Open \in Minutes(d) THEN Minute * Shown(kind, Open) ELSE 0

LEMMA MinutesNow ==
    ASSUME Types, SavingsRows, NEW d
    PROVE  /\ IsFiniteSet(Minutes(d))
           /\ \A m \in Minutes(d) : /\ m \in Nat /\ m <= Open /\ Day(m * Minute) = d
                                    /\ Of(meter, m) # {} /\ Of(pump, m) # {}
<1>1. /\ Open \in Nat /\ Minute * Open \in Nat /\ Due < Minute * Open + Minute
      /\ Minute \in Nat /\ Minute > 0 /\ clock <= Due /\ Due \in Nat /\ clock \in Nat
  BY OpenNow, PeriodsNow, Constants
<1>2. ASSUME NEW r \in meter PROVE Bucket(r) \in Nat /\ Bucket(r) <= Open
  <2>1. r.at \in Nat /\ r.at <= clock
    BY <1>1 DEF Types, Stamped
  <2> DEFINE q == r.at \div Minute
  <2>2. q \in Nat /\ Minute * q \in Nat /\ Minute * q <= r.at /\ r.at < Minute * q + Minute
    BY <1>1, <2>1, Quotient
  <2> HIDE DEF q
  <2>3. Open < q => Minute * Open + Minute <= Minute * q
    BY <1>1, <2>2, Multiples
  <2>4. q <= Open
    BY <1>1, <2>1, <2>2, <2>3
  <2> QED BY <2>2, <2>4 DEF Bucket, q
<1>3. ASSUME NEW m \in Minutes(d)
      PROVE  /\ m \in Nat /\ m <= Open /\ Day(m * Minute) = d
             /\ Of(meter, m) # {} /\ Of(pump, m) # {}
  BY <1>2 DEF Minutes, Of
<1>4. IsFiniteSet(Minutes(d))
  <2>1. Minutes(d) \in SUBSET (0..Open)
    BY <1>1, <1>3
  <2>2. IsFiniteSet(0..Open)
    BY <1>1, FS_Interval
  <2> QED BY <2>1, <2>2, FS_Subset
<1> QED BY <1>3, <1>4

LEMMA EnergyShown ==
    ASSUME Types, SavingsRows, NEW kind \in Kinds, NEW d \in Days
    PROVE  /\ Entered(kind, d) \in Nat /\ OpenEntry(kind, d) \in Nat
           /\ OpenEntry(kind, d) <= Nominal * Share(d)
           /\ Energy(kind, d) = Entered(kind, d) + OpenEntry(kind, d)
<1>1. Minute \in Nat /\ Open \in Nat /\ Nominal \in Nat
  BY Constants, OpenNow
<1> DEFINE F == Entries(kind, d)
           S == {m \in Minutes(d) : m < Open}
<1>2. DOMAIN F = Minutes(d) /\ \A m \in Minutes(d) : F[m] = Shown(kind, m)
  BY DEF Entries
<1>3. \A m \in Minutes(d) : F[m] \in Nat /\ F[m] <= Nominal
  <2>1. \A m \in Minutes(d) : Of(meter, m) # {}
    BY MinutesNow
  <2> HIDE DEF F
  <2> QED BY <1>2, <2>1, ShownType
<1>4. IsFiniteSet(Minutes(d)) /\ \A m \in Minutes(d) : m \in Nat /\ m <= Open /\ Day(m * Minute) = d
  BY MinutesNow
<1>5. IsFiniteSet(S) /\ S \in SUBSET Minutes(d) /\ Open \notin S
  <2>1. S \in SUBSET Minutes(d)
    OBVIOUS
  <2> QED BY <1>1, <1>4, <2>1, FS_Subset
<1>6. Energy(kind, d) = Minute * SumFunctionOnSet(F, Minutes(d)) /\ Entered(kind, d) = Minute * SumFunctionOnSet(F, S)
  BY <1>2 DEF Energy, Entered, SumFunction
<1> HIDE DEF F
<1>7. SumFunctionOnSet(F, S) \in Nat
  BY <1>3, <1>5, SumType
<1> DEFINE sum == SumFunctionOnSet(F, S)
<1>8. CASE Open \in Minutes(d)
  <2>1. Minutes(d) = S \union {Open}
    <3>1. \A m \in Minutes(d) : m < Open \/ m = Open
      BY <1>1, <1>4
    <3> QED BY <1>8, <3>1
  <2>2. SumFunctionOnSet(F, S \union {Open}) = sum + F[Open]
    <3>1. \A m \in S \union {Open} : F[m] \in Int
      BY <1>3, <2>1
    <3> HIDE DEF S
    <3> QED BY <1>5, <3>1, SumGrows
  <2>3. F[Open] \in Nat /\ F[Open] <= Nominal /\ F[Open] = Shown(kind, Open)
    BY <1>2, <1>3, <1>8
  <2>4. OpenEntry(kind, d) = Minute * F[Open]
    BY <1>8, <2>3 DEF OpenEntry
  <2>5. Minute * (sum + F[Open]) = Minute * sum + Minute * F[Open]
    <3>1. PICK a \in Nat, b \in Nat : a = sum /\ b = F[Open]
      BY <1>7, <2>3
    <3>2. Minute * (a + b) = Minute * a + Minute * b
      BY <1>1, SMT
    <3> HIDE DEF sum
    <3> QED BY <3>1, <3>2, Zenon
  <2>6. Minute * F[Open] \in Nat /\ Minute * sum \in Nat /\ Minute * F[Open] <= Minute * Nominal
    BY <1>1, <1>7, <2>3, Product
  <2>7. Share(d) = Minute
    <3>1. Open * Minute = Minute * Open
      BY <1>1
    <3>2. Day(Open * Minute) = d
      BY <1>4, <1>8
    <3> QED BY <3>1, <3>2 DEF Share
  <2>8. Minute * Nominal = Nominal * Share(d)
    BY <1>1, <2>7
  <2>9. Energy(kind, d) = Minute * (sum + F[Open])
    BY <1>6, <2>1, <2>2
  <2>10. Entered(kind, d) = Minute * sum
    BY <1>6
  <2> HIDE DEF S, sum
  <2> QED BY <2>4, <2>5, <2>6, <2>8, <2>9, <2>10
<1>9. CASE Open \notin Minutes(d)
  <2>1. Minutes(d) = S
    <3>1. \A m \in Minutes(d) : m < Open
      BY <1>1, <1>4, <1>9
    <3> QED BY <3>1
  <2>2. OpenEntry(kind, d) = 0
    BY <1>9 DEF OpenEntry
  <2>3. Minute * sum \in Nat /\ Nominal * Share(d) \in Nat
    <3>1. Share(d) \in Nat
      BY DayNow
    <3> QED BY <1>1, <1>7, <3>1, Product
  <2> HIDE DEF S
  <2> QED BY <1>6, <2>1, <2>2, <2>3
<1> QED BY <1>8, <1>9

\* What a minute shows is a matter of its rows.
LEMMA SameShown ==
    ASSUME NEW kind, NEW m, Of(meter, m)' = Of(meter, m), Of(pump, m)' = Of(pump, m)
    PROVE  Shown(kind, m)' = Shown(kind, m)
  BY DEF Shown, UsedIn, WastedIn, MeanSurplus, MeanExport, AnyOn

LEMMA EnteredKept ==
    ASSUME Open' = Open, UNCHANGED <<meter, pump>>
    PROVE  \A kind, d : Entered(kind, d)' = Entered(kind, d)
<1>1. \A kind, m : Shown(kind, m)' = Shown(kind, m)
  BY SameShown DEF Of, Bucket
<1>2. \A d : Minutes(d)' = Minutes(d)
  BY DEF Minutes, Bucket, Day
<1>3. \A kind, d : Entries(kind, d)' = Entries(kind, d)
  BY <1>1, <1>2 DEF Entries
<1> QED BY <1>2, <1>3 DEF Entered

\* MinutesNow and ShownType in one formula, to be had of the next state as well.
RowsAreFine ==
    Types /\ SavingsRows =>
       \A d \in Days :
          /\ IsFiniteSet(Minutes(d))
          /\ \A m \in Minutes(d) :
               /\ m \in Nat /\ m <= Open
               /\ \A kind \in Kinds : Shown(kind, m) \in Nat /\ Shown(kind, m) <= Nominal

LEMMA RowsFine == RowsAreFine
  BY MinutesNow, ShownType DEF RowsAreFine

\* Rows are written to the open minute only.
OpenOnly ==
    \A m : m # Open => Of(meter, m)' = Of(meter, m) /\ Of(pump, m)' = Of(pump, m)

\* What the other minutes show stays; the open one's is entered when it closes.
LEMMA EnteredNext ==
    ASSUME Types, SavingsRows, Types', SavingsRows', OpenOnly, Open' \in {Open, Open + 1},
           NEW kind \in Kinds, NEW d \in Days,
           NEW o, o = Open,
           NEW new, new = IF o \in Minutes(d)' THEN Minute * Shown(kind, o)' ELSE 0
    PROVE  Entered(kind, d)' = IF Open' = Open THEN Entered(kind, d) ELSE Entered(kind, d) + new
<1>1. Open' \in {Open, Open + 1} /\ Open \in Nat /\ Minute \in Nat
  BY OpenNow, Constants
<1>2. ASSUME NEW m, m # Open
      PROVE  /\ Of(meter, m)' = Of(meter, m) /\ Of(pump, m)' = Of(pump, m)
             /\ m \in Minutes(d)' <=> m \in Minutes(d)
  <2>1. Of(meter, m)' = Of(meter, m) /\ Of(pump, m)' = Of(pump, m)
    BY <1>2 DEF OpenOnly
  <2>2. /\ m \in Minutes(d) <=> Of(meter, m) # {} /\ Of(pump, m) # {} /\ Day(m * Minute) = d
        /\ m \in Minutes(d)' <=> Of(meter, m)' # {} /\ Of(pump, m)' # {} /\ Day(m * Minute) = d
    BY DEF Minutes, Of, Bucket, Day
  <2> QED BY <2>1, <2>2
<1>3. \A m : m # Open => Shown(kind, m)' = Shown(kind, m)
  BY <1>2, SameShown
<1> DEFINE F == Entries(kind, d)
           G == Entries(kind, d)'
           S == {m \in Minutes(d) : m < Open}
           T == {m \in Minutes(d)' : m < Open'}
<1>4. /\ Entered(kind, d) = Minute * SumFunctionOnSet(F, S)
      /\ Entered(kind, d)' = Minute * SumFunctionOnSet(G, T)
  BY DEF Entered
<1>5. /\ IsFiniteSet(Minutes(d)) /\ IsFiniteSet(Minutes(d)')
      /\ \A m \in Minutes(d) : m \in Nat /\ Shown(kind, m) \in Nat
      /\ \A m \in Minutes(d)' : m \in Nat /\ Shown(kind, m)' \in Nat
  <2>1. RowsAreFine /\ RowsAreFine'
    BY RowsFine, PTL
  <2> QED BY <2>1 DEF RowsAreFine
<1>6. /\ \A m \in Minutes(d) : F[m] = Shown(kind, m)
      /\ \A m \in Minutes(d)' : G[m] = Shown(kind, m)'
  BY DEF Entries
<1>7. S \in SUBSET Minutes(d) /\ S \in SUBSET Minutes(d)' /\ IsFiniteSet(S) /\ Open \notin S
  <2>1. S \in SUBSET Minutes(d) /\ Open \notin S
    BY <1>1
  <2>2. S \in SUBSET Minutes(d)'
    BY <1>1, <1>2
  <2> QED BY <1>5, <2>1, <2>2, FS_Subset
<1> HIDE DEF F, G
<1>8. SumFunctionOnSet(G, S) = SumFunctionOnSet(F, S)
  <2>1. \A m \in S : G[m] = F[m]
    BY <1>1, <1>3, <1>6, <1>7
  <2> HIDE DEF S
  <2> QED BY <1>7, <2>1, SumAgrees
<1>9. CASE Open' = Open
  <2>1. T = S
    BY <1>1, <1>2, <1>9
  <2> HIDE DEF S, T
  <2> QED BY <1>4, <1>8, <1>9, <2>1
<1>10. CASE Open' # Open /\ o \notin Minutes(d)'
  <2>1. T = S
    <3>1. \A m \in Minutes(d)' : m < Open' <=> m < Open
      BY <1>1, <1>5, <1>10
    <3> QED BY <1>1, <1>2, <1>7, <1>10, <3>1
  <2>2. new = 0 /\ Entered(kind, d) \in Nat
    BY <1>10, EnergyShown
  <2>3. Entered(kind, d)' = Entered(kind, d)
    <3> HIDE DEF S, T
    <3> QED BY <1>4, <1>8, <2>1
  <2> QED BY <1>10, <2>2, <2>3
<1>11. CASE Open' # Open /\ o \in Minutes(d)'
  <2>1. T = S \union {o}
    <3>1. \A m \in Minutes(d)' : m < Open' <=> m < Open \/ m = o
      BY <1>1, <1>5, <1>11
    <3> QED BY <1>1, <1>2, <1>7, <1>11, <3>1
  <2>2. new = Minute * G[o] /\ G[o] \in Nat
    BY <1>5, <1>6, <1>11
  <2>3. SumFunctionOnSet(G, S \union {o}) = SumFunctionOnSet(G, S) + G[o]
    <3>1. \A m \in S \union {o} : G[m] \in Int
      BY <1>5, <1>6, <1>7, <1>11
    <3> HIDE DEF S
    <3> QED BY <1>7, <3>1, SumGrows
  <2>4. PICK a \in Nat, b \in Nat : a = SumFunctionOnSet(F, S) /\ b = G[o]
    <3>1. \A m \in S : F[m] \in Nat
      BY <1>5, <1>6, <1>7
    <3>2. SumFunctionOnSet(F, S) \in Nat
      <4> HIDE DEF S
      <4> QED BY <1>7, <3>1, SumType
    <3> QED BY <2>2, <3>2
  <2>5. Minute * (a + b) = Minute * a + Minute * b
    BY <1>1, SMT
  <2>6. Entered(kind, d)' = Minute * (a + b)
    <3> HIDE DEF S, T
    <3> QED BY <1>4, <1>8, <2>1, <2>3, <2>4
  <2>7. Entered(kind, d) = Minute * a /\ new = Minute * b
    <3> HIDE DEF S, T
    <3> QED BY <1>4, <2>2, <2>4
  <2> QED BY <1>11, <2>5, <2>6, <2>7
<1> QED BY <1>9, <1>10, <1>11

-----------------------------------------------------------------------------
(* The savings                                                             *)

\* What a disturbance may cost, and how many there were: a minute that ended while a
\* flush was late is one.
Bound == Nominal * (Minute + flushS)
Marks == upsets + overrun

\* What the closed minutes say beyond what was true up to now.
Ahead(kind, d) == Entered(kind, d) - Truth(kind, d)

\* Nothing has changed in the open minute: its rows and the readings since the last
\* one are all the same.
CalmRows ==
    /\ \A r \in Of(meter, Open) : r.surplus = Surplus /\ r.export = Export
    /\ \A r \in Of(pump, Open) : r.on = relay
    /\ sumSurplus = since * Surplus /\ sumExport = since * Export
    /\ since > 0 => polled = relay

\* With every disturbance worth a Bound, the last one is over when its minute closes.
CalmBooks(n) ==
    \A kind \in Kinds, d \in Days :
       CalmBook(Ahead(kind, d), Rate(kind), Lead(d), flushS, Bound * n)

LooseBooks(n) ==
    \A kind \in Kinds, d \in Days :
       LooseBook(Ahead(kind, d), Lead(d), flushS, Bound * n)

Calm == CalmRows /\ CalmBooks(Marks)

Disturbed == \E n \in Nat : Marks = n + 1 /\ LooseBooks(n)

Truths ==
    /\ DOMAIN real = Days
    /\ \A d \in Days : /\ DOMAIN real[d] = {"on", "self", "wasted", "produced", "exported"}
                       /\ real[d].self \in Nat /\ real[d].wasted \in Nat

Basis ==
    /\ Types /\ SavingsRows /\ Truths
    /\ sumSurplus \in Int /\ sumExport \in Int

\* The inductive invariant: a minute starts calm, and one disturbance in it makes the
\* books loose until a flush closes it, however many follow.
SavingsInv == Basis /\ (Calm \/ Disturbed)

LEMMA BoundNow ==
    ASSUME Types
    PROVE  /\ flushS \in Nat /\ Minute \in Nat /\ Marks \in Nat /\ Bound \in Nat
           /\ Bound = Nominal * (Minute + flushS)
           /\ \A n \in Nat : Bound * n \in Nat /\ Bound * (n + 1) = Bound * n + Bound
                             /\ Bound * n <= Bound * (n + 1)
<1>1. /\ flushS \in Nat /\ Minute \in Nat /\ Nominal \in Nat /\ upsets \in Nat /\ overrun \in Nat
  BY PeriodsNow, Constants DEF Types, Numbers
<1>2. Bound \in Nat
  <2>1. Minute + flushS \in Nat
    BY <1>1
  <2> QED BY <1>1, <2>1, Product DEF Bound
<1>3. ASSUME NEW n \in Nat
      PROVE  Bound * n \in Nat /\ Bound * (n + 1) = Bound * n + Bound /\ Bound * n <= Bound * (n + 1)
  BY <1>2, Product
<1> QED BY <1>1, <1>2, <1>3 DEF Bound, Marks

LEMMA PlantNow == ASSUME Types PROVE headroom \in Int /\ Surplus \in Int /\ Export \in Int
<1>1. headroom \in Int /\ Nominal \in Nat
  BY ViewsAssumption DEF Types, Numbers
<1>2. Surplus \in Int
  <2>1. headroom - Nominal \in Int /\ headroom - 0 \in Int
    BY <1>1
  <2>2. Surplus = IF relay THEN headroom - Nominal ELSE headroom - 0
    BY Zenon DEF Surplus
  <2> QED BY <2>1, <2>2, Zenon
<1> QED BY <1>1, <1>2 DEF Export

LEMMA RateType ==
    ASSUME Types, NEW kind \in Kinds
    PROVE  Rate(kind) \in Nat /\ Rate(kind) <= Nominal
<1>1. Clamp(headroom) \in Nat /\ Clamp(headroom) <= Nominal /\ Nominal \in Nat
  BY PlantNow, ClampType, Constants
<1> QED BY <1>1 DEF Rate

LEMMA AheadType ==
    ASSUME Basis, NEW kind \in Kinds, NEW d \in Days
    PROVE  /\ Ahead(kind, d) \in Int /\ Entered(kind, d) \in Nat /\ Truth(kind, d) \in Nat
           /\ Ahead(kind, d) = Entered(kind, d) - Truth(kind, d)
<1>1. Entered(kind, d) \in Nat
  BY EnergyShown DEF Basis
<1>2. Truth(kind, d) \in Nat
  BY DEF Basis, Truths, Truth
<1> QED BY <1>1, <1>2 DEF Ahead

LEMMA LeadsNow ==
    ASSUME Types, NEW kind \in Kinds, NEW d \in Days
    PROVE  Leads(Rate(kind), Lead(d), flushS, Share(d), Minute)
  BY DayNow, RateType, BoundNow DEF Leads

\* CalmIsLoose, to be had of the next state as well.
LooseIfCalm ==
    Basis =>
       \A kind \in Kinds, d \in Days, n \in Nat :
          CalmBook(Ahead(kind, d), Rate(kind), Lead(d), flushS, Bound * n)
          => LooseBook(Ahead(kind, d), Lead(d), flushS, Bound * n)

LEMMA LooseWhenCalm == LooseIfCalm
<1> SUFFICES ASSUME Basis, NEW kind \in Kinds, NEW d \in Days, NEW n \in Nat,
                    CalmBook(Ahead(kind, d), Rate(kind), Lead(d), flushS, Bound * n)
             PROVE  LooseBook(Ahead(kind, d), Lead(d), flushS, Bound * n)
  BY DEF LooseIfCalm
<1>1. Types /\ Ahead(kind, d) \in Int /\ Bound * n \in Nat
  BY AheadType, BoundNow DEF Basis
<1> QED BY <1>1, LeadsNow, CalmIsLoose

\* After a disturbance the books are loose, whatever they were.
LEMMA BooksLoose ==
    ASSUME SavingsInv
    PROVE  LooseBooks(Marks)
<1> SUFFICES ASSUME NEW kind \in Kinds, NEW d \in Days
             PROVE  LooseBook(Ahead(kind, d), Lead(d), flushS, Bound * Marks)
  BY DEF LooseBooks
<1>1. Types /\ Basis
  BY DEF SavingsInv, Basis
<1>2. /\ Ahead(kind, d) \in Int /\ Lead(d) \in Int /\ flushS \in Nat /\ Marks \in Nat
      /\ \A n \in Nat : Bound * n \in Nat /\ Bound * n <= Bound * (n + 1)
  BY <1>1, AheadType, DayNow, BoundNow
<1>3. CASE Calm
  <2>1. CalmBook(Ahead(kind, d), Rate(kind), Lead(d), flushS, Bound * Marks)
    BY <1>3 DEF Calm, CalmBooks
  <2> QED BY <1>1, <1>2, <2>1, LooseWhenCalm DEF LooseIfCalm
<1>4. CASE Disturbed
  <2>1. PICK n \in Nat : Marks = n + 1 /\ LooseBooks(n)
    BY <1>4 DEF Disturbed
  <2>2. LooseBook(Ahead(kind, d), Lead(d), flushS, Bound * n)
    BY <2>1 DEF LooseBooks
  <2>3. PICK s \in Nat, r \in Nat : s = Bound * n /\ r = Bound * Marks /\ s <= r
    BY <1>2, <2>1
  <2>4. LooseBook(Ahead(kind, d), Lead(d), flushS, r)
    BY <1>2, <2>2, <2>3, LooseWidens
  <2> QED BY <2>3, <2>4
<1> QED BY <1>3, <1>4 DEF SavingsInv

\* A step that leaves time and tables alone, and counts as a disturbance if it moves
\* the relay or changes the weather.
LEMMA SavingsKept ==
    ASSUME SavingsInv, Types',
           UNCHANGED <<timeVars, meter, pump, real, sumSurplus, sumExport>>,
           \/ upsets' = upsets + 1
           \/ UNCHANGED <<upsets, relay, headroom>> /\ polled' \in {polled, relay}
    PROVE  SavingsInv'
<1>1. UNCHANGED <<clock, flushS, since, overrun>>
  BY DEF timeVars
<1>2. Open' = Open /\ Bound' = Bound
  BY <1>1 DEF Open, Due, Bound
<1>3. Basis'
  BY DEF SavingsInv, Basis, SavingsRows, Truths
<1>4. ASSUME NEW kind \in Kinds, NEW d \in Days
      PROVE  Ahead(kind, d)' = Ahead(kind, d) /\ Lead(d)' = Lead(d)
  <2>1. Entered(kind, d)' = Entered(kind, d)
    BY <1>2, EnteredKept
  <2> QED BY <1>1, <1>2, <2>1 DEF Ahead, Truth, Lead, Upto
<1>5. ASSUME NEW n, LooseBooks(n) PROVE LooseBooks(n)'
  BY <1>1, <1>2, <1>4, <1>5 DEF LooseBooks
<1>6. Marks \in Nat /\ upsets \in Nat /\ overrun \in Nat
  BY BoundNow, Constants DEF SavingsInv, Basis, Types, Numbers
<1>7. CASE upsets' = upsets + 1
  <2>1. PICK n \in Nat : n = Marks
    BY <1>6
  <2>2. LooseBooks(n)'
    BY <1>5, <2>1, BooksLoose
  <2>3. Marks' = n + 1
    BY <1>1, <1>6, <1>7, <2>1 DEF Marks
  <2> QED BY <1>3, <2>2, <2>3 DEF SavingsInv, Disturbed
<1>8. CASE UNCHANGED <<upsets, relay, headroom>> /\ polled' \in {polled, relay}
  <2>0. Marks' = Marks
    BY <1>1, <1>8 DEF Marks
  <2>1. CASE Calm
    <3>1. CalmRows'
      <4>1. Surplus' = Surplus
        BY <1>8 DEF Surplus
      <4>2. Export' = Export
        BY <4>1 DEF Export
      <4>3. Of(meter, Open)' = Of(meter, Open) /\ Of(pump, Open)' = Of(pump, Open)
        BY <1>2 DEF Of, Bucket
      <4> QED BY <1>1, <1>8, <2>1, <4>1, <4>2, <4>3 DEF Calm, CalmRows
    <3>2. CalmBooks(Marks)'
      <4>1. \A kind : Rate(kind)' = Rate(kind)
        BY <1>8 DEF Rate
      <4> QED BY <1>1, <1>2, <1>4, <2>0, <2>1, <4>1 DEF Calm, CalmBooks
    <3> QED BY <1>3, <3>1, <3>2 DEF SavingsInv, Calm
  <2>2. CASE Disturbed
    <3>1. PICK n \in Nat : Marks = n + 1 /\ LooseBooks(n)
      BY <2>2 DEF Disturbed
    <3>2. LooseBooks(n)'
      BY <1>5, <3>1
    <3> QED BY <1>3, <2>0, <3>1, <3>2 DEF SavingsInv, Disturbed
  <2> QED BY <2>1, <2>2 DEF SavingsInv
<1> QED BY <1>7, <1>8

LEMMA InitSavings == Init => SavingsInv
<1> SUFFICES ASSUME Init PROVE SavingsInv
  OBVIOUS
<1>1. Types
  BY InitTypes
<1>2. /\ clock = 0 /\ since = 0 /\ meter = {} /\ pump = {} /\ sumSurplus = 0 /\ sumExport = 0
      /\ upsets = 0 /\ overrun = 0
      /\ real = [d \in Days |-> [on |-> 0, self |-> 0, wasted |-> 0, produced |-> 0, exported |-> 0]]
  BY Zenon DEF Init
<1>3. flushS \in Nat /\ Minute \in Nat /\ Bound \in Nat /\ Marks = 0
  BY <1>1, <1>2, BoundNow DEF Marks
<1>4. Basis
  <2>1. SavingsRows
    BY <1>2, FS_EmptySet DEF SavingsRows
  <2>2. Truths
    BY <1>2 DEF Truths
  <2> QED BY <1>1, <1>2, <2>1, <2>2 DEF Basis
<1>5. CalmRows
  <2>1. Of(meter, Open) = {} /\ Of(pump, Open) = {}
    BY <1>2 DEF Of
  <2>2. 0 * Surplus = 0 /\ 0 * Export = 0
    BY <1>1, PlantNow
  <2> QED BY <1>2, <2>1, <2>2 DEF CalmRows
<1>6. ASSUME NEW kind \in Kinds, NEW d \in Days
      PROVE  CalmBook(Ahead(kind, d), Rate(kind), Lead(d), flushS, Bound * Marks)
  <2>1. Ahead(kind, d) = 0
    <3>1. Minutes(d) = {}
      BY <1>2 DEF Minutes
    <3>2. {m \in Minutes(d) : m < Open} = {}
      BY <3>1
    <3>3. Entered(kind, d) = Minute * 0
      BY <3>2, SumEmpty DEF Entered
    <3>4. Truth(kind, d) = 0
      BY <1>2 DEF Truth
    <3>5. Entered(kind, d) = 0
      BY <1>3, <3>3
    <3> QED BY <3>4, <3>5 DEF Ahead
  <2>2. PICK y \in Nat : y = Lead(d) /\ y <= flushS
    <3>1. Minute * Open \in Nat /\ Midnight \in Nat
      BY <1>1, OpenNow, Constants
    <3>2. Lead(d) = Upto(d, Minute * Open) - Upto(d, 0)
      BY <1>2 DEF Lead
    <3>3. Lead(d) >= 0
      BY <3>1, <3>2 DEF Upto
    <3> QED BY <1>1, <3>3, DayNow
  <2>3. PICK v \in Nat : v = Rate(kind) /\ v <= Nominal
    BY <1>1, RateType
  <2>4. v * y \in Nat /\ v * y <= Nominal * flushS
    BY <1>1, <2>2, <2>3, LeadsNow, LeadTimes, Product
  <2>5. Bound * Marks = 0
    BY <1>3
  <2>6. PICK a \in Nat, c \in Nat : a = v * y /\ c = Nominal * flushS /\ a <= c
    BY <1>3, <2>4, Product, Constants
  <2>7. CalmBook(0, v, y, flushS, 0)
    BY <2>6 DEF CalmBook
  <2> QED BY <2>1, <2>2, <2>3, <2>5, <2>7
<1> QED BY <1>4, <1>5, <1>6 DEF SavingsInv, Calm, CalmBooks

LEMMA TruthElapses ==
    ASSUME Basis, Elapse
    PROVE  /\ Truths'
           /\ \A kind \in Kinds, d \in Days :
                Truth(kind, d)' = IF d = Day(clock) THEN Truth(kind, d) + Rate(kind)
                                  ELSE Truth(kind, d)
<1>1. Types /\ Truths /\ Day(clock) \in Days
  BY DEF Basis, Day, Days
<1>2. Rate("self") \in Nat /\ Rate("wasted") \in Nat
  BY <1>1, RateType DEF Kinds
<1> DEFINE self == Rate("self")
           wasted == Rate("wasted")
<1>3. real' = [real EXCEPT ![Day(clock)] =
                  [on |-> @.on + (IF relay THEN 1 ELSE 0), self |-> @.self + self,
                   wasted |-> @.wasted + wasted,
                   produced |-> @.produced + headroom + House, exported |-> @.exported + Export]]
  BY Zenon DEF Elapse, Rate
<1> HIDE DEF self, wasted
<1>4. /\ DOMAIN real' = Days
      /\ \A d \in Days :
           /\ DOMAIN real'[d] = {"on", "self", "wasted", "produced", "exported"}
           /\ real'[d].self = IF d = Day(clock) THEN real[d].self + self ELSE real[d].self
           /\ real'[d].wasted = IF d = Day(clock) THEN real[d].wasted + wasted ELSE real[d].wasted
  BY <1>1, <1>3 DEF Truths
<1>5. self \in Nat /\ wasted \in Nat
  BY <1>2 DEF self, wasted
<1>6. Truths'
  BY <1>1, <1>4, <1>5 DEF Truths
<1>7. ASSUME NEW kind \in Kinds, NEW d \in Days
      PROVE  Truth(kind, d)' = IF d = Day(clock) THEN Truth(kind, d) + Rate(kind) ELSE Truth(kind, d)
  <2>1. CASE kind = "self"
    BY <1>4, <2>1 DEF Truth, self
  <2>2. CASE kind = "wasted"
    BY <1>4, <2>2 DEF Truth, wasted
  <2> QED BY <2>1, <2>2 DEF Kinds
<1> QED BY <1>6, <1>7

\* A minute that closes enters what its rows show.
LEMMA BookEntered ==
    ASSUME Basis, Basis', OpenOnly, Open' = Open + 1, NEW kind \in Kinds, NEW d \in Days,
           NEW o, o = Open
    PROVE  \E new \in Nat :
              /\ Entered(kind, d)' = Entered(kind, d) + new
              /\ new <= Nominal * Share(d)
              /\ Of(meter, o)' # {} /\ Of(pump, o)' # {} /\ Shown(kind, o)' = Rate(kind)
                 => new = Rate(kind) * Share(d)
<1>1. PICK new : new = IF o \in Minutes(d)' THEN Minute * Shown(kind, o)' ELSE 0
  OBVIOUS
<1>2. Entered(kind, d)' = Entered(kind, d) + new
  <2>1. Open' # Open
    BY OpenNow DEF Basis
  <2> QED BY <1>1, <2>1, EnteredNext DEF Basis
<1>3. Minute \in Nat /\ Nominal \in Nat /\ Open \in Nat
  BY Constants, OpenNow DEF Basis
<1>4. o \in Minutes(d)' <=> Of(meter, o)' # {} /\ Of(pump, o)' # {} /\ Day(o * Minute) = d
  BY DEF Minutes, Of, Bucket, Day
<1>5. Share(d) = IF Day(o * Minute) = d THEN Minute ELSE 0
  <2>1. o * Minute = Minute * Open
    BY <1>3
  <2> QED BY <2>1 DEF Share
<1>6. o \in Minutes(d)' => Shown(kind, o)' \in Nat /\ Shown(kind, o)' <= Nominal
  <2>1. RowsAreFine'
    BY RowsFine, PTL
  <2> QED BY <2>1 DEF RowsAreFine, Basis
<1>7. new \in Nat /\ new <= Nominal * Share(d)
  <2>1. CASE o \in Minutes(d)'
    <3>1. PICK s \in Nat : s = Shown(kind, o)' /\ s <= Nominal
      BY <1>6, <2>1
    <3>2. Minute * s \in Nat /\ Minute * s <= Minute * Nominal
      BY <1>3, <3>1, Product
    <3>3. Nominal * Share(d) = Minute * Nominal /\ new = Minute * s
      BY <1>1, <1>3, <1>4, <1>5, <2>1, <3>1
    <3> QED BY <3>2, <3>3
  <2>2. CASE o \notin Minutes(d)'
    <3>1. Share(d) \in Nat
      BY <1>3, <1>5
    <3>2. Nominal * Share(d) \in Nat
      BY <1>3, <3>1, Product
    <3> QED BY <1>1, <2>2, <3>2
  <2> QED BY <2>1, <2>2
<1>8. ASSUME Of(meter, o)' # {}, Of(pump, o)' # {}, Shown(kind, o)' = Rate(kind)
      PROVE  new = Rate(kind) * Share(d)
  <2>1. PICK r \in Nat : r = Rate(kind)
    BY RateType DEF Basis
  <2>2. CASE Day(o * Minute) = d
    <3>1. new = Minute * r
      BY <1>1, <1>4, <1>8, <2>1, <2>2
    <3>2. Minute * r = r * Minute
      BY <1>3
    <3> QED BY <1>5, <2>1, <2>2, <3>1, <3>2
  <2>3. CASE Day(o * Minute) # d
    <3>1. new = 0
      BY <1>1, <1>4, <2>3
    <3>2. r * 0 = 0
      OBVIOUS
    <3> QED BY <1>5, <2>1, <2>3, <3>1, <3>2
  <2> QED BY <2>2, <2>3
<1> QED BY <1>2, <1>7, <1>8

\* The minute of a disturbance closes, by a flush (k = 0) or by a tick while one is late.
LEMMA BookCloses ==
    ASSUME Basis, Basis', OpenOnly, Open' = Open + 1, flushS' = flushS,
           NEW kind \in Kinds, NEW d \in Days, NEW k \in {0, 1},
           Rate(kind)' = Rate(kind), Truth(kind, d)' = Truth(kind, d) + Rate(kind) * k,
           Lead(d)' = Lead(d) - k + Share(d), 0 <= Lead(d)',
           NEW n \in Nat, LooseBooks(n)
    PROVE  CalmBook(Ahead(kind, d)', Rate(kind)', Lead(d)', flushS', Bound' * (n + 1))
<1>1. Types
  BY DEF Basis
<1>2. PICK v, y, f, w, m :
         /\ v = Rate(kind) /\ y = Lead(d) /\ f = flushS /\ w = Share(d) /\ m = Minute
         /\ Leads(v, y, f, w, m)
  BY <1>1, LeadsNow
<1>3. v \in Nat /\ y \in Int /\ w \in Nat /\ f \in Nat
  BY <1>2 DEF Leads
<1>4. PICK g \in Nat : Entered(kind, d)' = Entered(kind, d) + g /\ g <= Nominal * w
  <2>1. PICK o : o = Open
    OBVIOUS
  <2> QED BY <1>2, <2>1, BookEntered
<1>5. PICK E \in Nat, T \in Nat, e \in Int :
         /\ E = Entered(kind, d) /\ T = Truth(kind, d) /\ e = Ahead(kind, d) /\ e = E - T
  BY AheadType
<1>6. PICK s \in Nat : s = Bound * n /\ Bound * (n + 1) = s + Nominal * (m + f)
  BY <1>1, <1>2, BoundNow
<1>7. LooseBook(e, y, f, s)
  BY <1>2, <1>5, <1>6 DEF LooseBooks
<1>8. CalmBook((e - v * k) + g, v, y - k + w, f, s + Nominal * (m + f))
  <2>1. g <= Nominal * w /\ 0 <= y - k + w
    BY <1>2, <1>4
  <2> QED BY <1>2, <1>4, <1>5, <1>6, <1>7, <2>1, LooseCloses
<1>9. Ahead(kind, d)' = (e - v * k) + g
  <2>1. PICK K \in Nat : K = v * k
    BY <1>3, Product
  <2>2. Ahead(kind, d)' = (E + g) - (T + K)
    BY <1>2, <1>4, <1>5, <2>1 DEF Ahead
  <2> QED BY <1>4, <1>5, <2>1, <2>2
<1>10. Bound' = Bound
  BY DEF Bound
<1> QED BY <1>2, <1>6, <1>8, <1>9, <1>10

\* Rows are not from the future: the next minute has none yet.
LEMMA NoRowsYet ==
    ASSUME Types', SavingsRows', Types, NEW o, o = Open, Open' = o + 1, clock < Minute * o + Minute,
           \A r \in meter' \union pump' : r.at <= clock
    PROVE  Of(meter, Open)' = {} /\ Of(pump, Open)' = {}
<1>1. Minute \in Nat /\ Minute > 0 /\ clock \in Nat /\ o \in Nat
  BY OpenNow, PeriodsNow, Constants
<1>2. \A r \in meter' \union pump' : r.at \in Nat
  BY DEF Types, Stamped
<1>3. ASSUME NEW at \in Nat, at <= clock PROVE at \div Minute # o + 1
  <2> DEFINE q == at \div Minute
  <2>1. q \in Nat /\ Minute * q \in Nat /\ Minute * q <= at
    BY <1>1, Quotient
  <2> HIDE DEF q
  <2>2. Minute * (o + 1) = Minute * o + Minute /\ Minute * o \in Nat
    BY <1>1, Product
  <2>3. PICK a \in Nat, b \in Nat : a = Minute * q /\ b = Minute * o
    BY <2>1, <2>2
  <2>4. a # b + Minute
    BY <1>1, <1>3, <2>1, <2>3
  <2>5. q = o + 1 => a = b + Minute
    BY <2>2, <2>3
  <2>6. q # o + 1
    BY <2>4, <2>5, Zenon
  <2> QED BY <2>6 DEF q
<1>4. \A r \in meter' \union pump' : r.at \div Minute # Open'
  BY <1>2, <1>3
<1> QED BY <1>4 DEF Of, Bucket

\* The readings since the last flush, a tick later.
LEMMA ReadingsElapse ==
    ASSUME Basis, Elapse, CalmRows, Types'
    PROVE  /\ Surplus' = Surplus /\ Export' = Export
           /\ sumSurplus' = since' * Surplus' /\ sumExport' = since' * Export'
           /\ polled' = relay'
<1>1. /\ since' = since + 1 /\ polled = relay /\ UNCHANGED <<polled, headroom, relay>>
      /\ sumSurplus' = sumSurplus + Surplus /\ sumExport' = sumExport + Export
  BY DEF Elapse, moveVars
<1>2. since \in Nat /\ Surplus \in Int /\ Export \in Int
  BY PlantNow, PeriodsNow DEF Basis
<1>3. Surplus' = Surplus
  BY <1>1 DEF Surplus
<1>4. Export' = Export
  BY <1>3 DEF Export
<1>5. \A x \in Int : (since + 1) * x = since * x + x
  BY <1>2, SMT
<1>6. sumSurplus = since * Surplus /\ sumExport = since * Export
  BY DEF CalmRows
<1>7. sumSurplus' = since' * Surplus' /\ sumExport' = since' * Export'
  BY <1>1, <1>2, <1>3, <1>4, <1>5, <1>6
<1> QED BY <1>1, <1>3, <1>4, <1>7

LEMMA SavingsElapses ==
    ASSUME SavingsInv, Elapse, Types'
    PROVE  SavingsInv'
<1>1. Basis /\ Types
  BY DEF SavingsInv, Basis
<1>2. /\ clock' = clock + 1
      /\ UNCHANGED <<flushS, headroom, relay, meter, pump, upsets>>
      /\ sumSurplus' = sumSurplus + Surplus /\ sumExport' = sumExport + Export
  BY DEF Elapse, moveVars, tables
<1>3. clock \in Nat /\ Open \in Nat /\ upsets \in Nat /\ overrun \in Nat /\ Marks \in Nat
  BY <1>1, PeriodsNow, OpenNow, BoundNow, Constants DEF Types, Numbers
<1>4. Basis'
  <2>1. SavingsRows'
    BY <1>1, <1>2 DEF Basis, SavingsRows
  <2>2. sumSurplus' \in Int /\ sumExport' \in Int
    BY <1>1, <1>2, PlantNow DEF Basis
  <2> QED BY <1>1, <2>1, <2>2, TruthElapses DEF Basis
<1>5. Bound' = Bound /\ \A kind : Rate(kind)' = Rate(kind)
  BY <1>2 DEF Bound, Rate
<1>6. ASSUME NEW kind \in Kinds, NEW d \in Days
      PROVE  /\ Truth(kind, d)' = Truth(kind, d) + Rate(kind) * Tick(d)
             /\ Rate(kind) * Tick(d) = IF d = Day(clock) THEN Rate(kind) ELSE 0
  <2>1. PICK v \in Nat, t \in Nat : v = Rate(kind) /\ t = Truth(kind, d)
    BY <1>1, RateType, AheadType
  <2>2. v * 1 = v /\ v * 0 = 0 /\ t + 0 = t
    OBVIOUS
  <2> QED BY <1>1, <2>1, <2>2, TruthElapses DEF Tick
<1>7. CASE Open' = Open
  <2>1. Marks' = Marks
    <3>1. overrun' = overrun
      <4>1. 0 \in Days
        BY DEF Days
      <4> QED BY <1>1, <1>3, <1>7, <4>1, DayElapses
    <3> QED BY <1>2, <3>1 DEF Marks
  <2>2. ASSUME NEW kind \in Kinds, NEW d \in Days
        PROVE  \/ Ahead(kind, d)' = Ahead(kind, d) /\ Lead(d)' = Lead(d)
               \/ Ahead(kind, d)' = Ahead(kind, d) - Rate(kind) /\ Lead(d)' = Lead(d) - 1
    <3>1. Lead(d)' = Lead(d) - Tick(d) /\ Lead(d) \in Int
      BY <1>1, <1>3, <1>7, DayElapses, DayNow
    <3>2. Entered(kind, d)' = Entered(kind, d)
      BY <1>2, <1>7, EnteredKept
    <3>3. PICK E \in Nat, T \in Nat, v \in Nat :
             E = Entered(kind, d) /\ T = Truth(kind, d) /\ v = Rate(kind)
      BY <1>1, RateType, AheadType
    <3>4. Ahead(kind, d) = E - T /\ Ahead(kind, d)' = E - (T + IF d = Day(clock) THEN v ELSE 0)
      BY <1>6, <3>2, <3>3 DEF Ahead
    <3>5. CASE d = Day(clock)
      BY <3>1, <3>3, <3>4, <3>5 DEF Tick
    <3>6. CASE d # Day(clock)
      BY <3>1, <3>3, <3>4, <3>6 DEF Tick
    <3> QED BY <3>5, <3>6
  <2>3. ASSUME NEW kind \in Kinds, NEW d \in Days, NEW n \in Nat
        PROVE  /\ CalmBook(Ahead(kind, d), Rate(kind), Lead(d), flushS, Bound * n)
                  => CalmBook(Ahead(kind, d)', Rate(kind)', Lead(d)', flushS', Bound' * n)
               /\ LooseBook(Ahead(kind, d), Lead(d), flushS, Bound * n)
                  => LooseBook(Ahead(kind, d)', Lead(d)', flushS', Bound' * n)
    <3>1. PICK e \in Int, v \in Nat, y \in Int, f \in Nat, s \in Nat :
             /\ e = Ahead(kind, d) /\ v = Rate(kind) /\ y = Lead(d) /\ f = flushS /\ s = Bound * n
             /\ v <= Nominal
      BY <1>1, AheadType, RateType, DayNow, BoundNow
    <3>2. /\ CalmBook(e, v, y, f, s) => CalmBook(e - v, v, y - 1, f, s)
          /\ LooseBook(e, y, f, s) => LooseBook(e - v, y - 1, f, s)
      BY <3>1, BookElapses
    <3>3. Rate(kind)' = v /\ flushS' = f /\ Bound' * n = s
      BY <1>2, <1>5, <3>1
    <3>4. (Ahead(kind, d)' = e /\ Lead(d)' = y) \/ (Ahead(kind, d)' = e - v /\ Lead(d)' = y - 1)
      BY <2>2, <3>1
    <3> QED BY <3>1, <3>2, <3>3, <3>4, Zenon
  <2>4. CASE Calm
    <3>1. CalmRows'
      <4>1. Of(meter, Open)' = Of(meter, Open) /\ Of(pump, Open)' = Of(pump, Open)
        BY <1>2, <1>7 DEF Of, Bucket
      <4> QED BY <1>1, <1>2, <2>4, <4>1, ReadingsElapse DEF Calm, CalmRows
    <3>2. CalmBooks(Marks)'
      BY <1>3, <2>1, <2>3, <2>4 DEF Calm, CalmBooks
    <3> QED BY <1>4, <3>1, <3>2 DEF SavingsInv, Calm
  <2>5. CASE Disturbed
    <3>1. PICK n \in Nat : Marks = n + 1 /\ LooseBooks(n)
      BY <2>5 DEF Disturbed
    <3>2. LooseBooks(n)'
      BY <2>3, <3>1 DEF LooseBooks
    <3> QED BY <1>4, <2>1, <3>1, <3>2 DEF SavingsInv, Disturbed
  <2> QED BY <2>4, <2>5 DEF SavingsInv
<1>8. CASE Open' # Open
  <2>1. /\ Open' = Open + 1 /\ clock < Minute * Open + Minute /\ overrun' = overrun + 1
    <3>1. 0 \in Days
      BY DEF Days
    <3> QED BY <1>1, <1>8, <3>1, DayElapses
  <2>2. Marks' = Marks + 1
    BY <1>2, <1>3, <2>1 DEF Marks
  <2>3. OpenOnly
    BY <1>2 DEF OpenOnly, Of, Bucket
  <2>4. ASSUME NEW n \in Nat, LooseBooks(n) PROVE CalmBooks(n + 1)'
    <3> SUFFICES ASSUME NEW kind \in Kinds, NEW d \in Days
                 PROVE  CalmBook(Ahead(kind, d)', Rate(kind)', Lead(d)', flushS', Bound' * (n + 1))
      BY DEF CalmBooks
    <3>1. PICK k \in {0, 1} : k = Tick(d)
      BY DEF Tick
    <3>2. Lead(d)' = Lead(d) - k + Share(d) /\ 0 <= Lead(d)'
      BY <1>1, <1>8, <3>1, DayElapses
    <3>3. Truth(kind, d)' = Truth(kind, d) + Rate(kind) * k
      BY <1>6, <3>1
    <3> QED BY <1>1, <1>2, <1>4, <1>5, <2>1, <2>3, <2>4, <3>2, <3>3, BookCloses
  <2>5. CASE Calm
    <3>1. CalmRows'
      <4>1. Of(meter, Open)' = {} /\ Of(pump, Open)' = {}
        <5>1. \A r \in meter' \union pump' : r.at <= clock
          BY <1>1, <1>2, <1>3 DEF Types, Stamped
        <5>2. PICK o : o = Open
          OBVIOUS
        <5>3. Types' /\ SavingsRows'
          BY <1>4 DEF Basis
        <5> QED BY <1>1, <2>1, <5>1, <5>2, <5>3, NoRowsYet
      <4> QED BY <1>1, <2>5, <4>1, ReadingsElapse DEF Calm, CalmRows
    <3>2. CalmBooks(Marks)'
      <4>1. PICK n \in Nat : n = Marks
        BY <1>3
      <4>2. CalmBooks(n + 1)'
        BY <2>4, <4>1, BooksLoose
      <4> QED BY <2>2, <4>1, <4>2 DEF CalmBooks
    <3> QED BY <1>4, <3>1, <3>2 DEF SavingsInv, Calm
  <2>6. CASE Disturbed
    <3>1. PICK n \in Nat : Marks = n + 1 /\ LooseBooks(n)
      BY <2>6 DEF Disturbed
    <3>2. CalmBooks(n + 1)'
      BY <2>4, <3>1
    <3>3. PICK m \in Nat : m = n + 1
      OBVIOUS
    <3>4. LooseBooks(m)'
      <4> SUFFICES ASSUME NEW kind \in Kinds, NEW d \in Days
                   PROVE  LooseBook(Ahead(kind, d)', Lead(d)', flushS', Bound' * m)
        BY DEF LooseBooks
      <4>1. CalmBook(Ahead(kind, d)', Rate(kind)', Lead(d)', flushS', Bound' * m)
        BY <3>2, <3>3 DEF CalmBooks
      <4>2. LooseIfCalm'
        BY LooseWhenCalm, PTL
      <4> QED BY <1>4, <4>1, <4>2 DEF LooseIfCalm
    <3>5. Marks' = m + 1
      BY <2>2, <3>1, <3>3
    <3> QED BY <1>4, <3>4, <3>5 DEF SavingsInv, Disturbed
  <2> QED BY <2>5, <2>6 DEF SavingsInv
<1> QED BY <1>7, <1>8

\* A flush that writes both rows.
Regular == meter' = meter \union {MeterRow(produced)} /\ pump' = pump \union {PumpRow}

LEMMA FlushNow ==
    ASSUME Types, Flush
    PROVE  /\ UNCHANGED <<clock, flushS, polled, headroom, relay, real, overrun>>
           /\ since' = 0 /\ sumSurplus' = 0 /\ sumExport' = 0
           /\ since \in Nat /\ since > 0 /\ clock \in Nat
           /\ (Regular /\ Marks' = Marks) \/ Marks' = Marks + 1
           /\ \A r \in meter' : r \in meter \/ r.at = clock
           /\ \A r \in pump' : r \in pump \/ r.at = clock
           /\ meter \subseteq meter' /\ pump \subseteq pump'
<1>1. /\ UNCHANGED <<clock, flushS, polled, headroom, relay, real, overrun>>
      /\ since' = 0 /\ sumSurplus' = 0 /\ sumExport' = 0
      /\ (Regular /\ upsets' = upsets) \/ upsets' = upsets + 1
  BY Zenon DEF Flush, Upset, Regular
<1>2. since \in Nat /\ since > 0 /\ clock \in Nat
  BY PeriodsNow DEF Flush
<1>3. upsets \in Nat /\ overrun \in Nat
  BY Constants DEF Types, Numbers
<1>4. (Regular /\ Marks' = Marks) \/ Marks' = Marks + 1
  BY <1>1, <1>3 DEF Marks
<1>5. /\ \A r \in meter' : r \in meter \/ r.at = clock
      /\ \A r \in pump' : r \in pump \/ r.at = clock
      /\ meter \subseteq meter' /\ pump \subseteq pump'
  BY DEF Flush, MeterRow, PumpRow
<1> QED BY <1>1, <1>2, <1>4, <1>5

LEMMA BasisFlushed ==
    ASSUME Basis, Flush, Types'
    PROVE  Basis'
<1>1. /\ polled \in BOOLEAN /\ since \in Nat /\ since > 0
      /\ real' = real /\ sumSurplus' = 0 /\ sumExport' = 0
  <2>1. polled \in BOOLEAN
    BY Zenon DEF Basis, Types, Switches
  <2> QED BY <2>1, FlushNow DEF Basis
<1>2. ASSUME NEW production
      PROVE  MeterRow(production).surplus \in Int /\ MeterRow(production).export \in Int
  <2>1. sumSurplus \div since \in Int /\ sumExport \div since \in Int
    BY <1>1 DEF Basis
  <2> QED BY <2>1 DEF MeterRow
<1>3. \/ meter' = meter
      \/ meter' = meter \union {MeterRow(produced)}
      \/ meter' = meter \union {MeterRow(NULL)}
  BY Zenon DEF Flush
<1>4. pump' = pump \/ pump' = pump \union {[at |-> clock, on |-> polled]}
  BY Zenon DEF Flush, PumpRow
<1>5. IsFiniteSet(meter') /\ IsFiniteSet(pump')
  <2>1. \A x : IsFiniteSet(meter \union {x}) /\ IsFiniteSet(pump \union {x})
    BY FS_AddElement DEF Basis, SavingsRows
  <2> QED BY <1>3, <1>4, <2>1 DEF Basis, SavingsRows
<1>6. \A r \in meter' : r.surplus \in Int /\ r.export \in Int
  BY <1>2, <1>3 DEF Basis, SavingsRows
<1>7. \A r \in pump' : r.on \in BOOLEAN
  <2>1. \A r \in pump' : r \in pump \/ r = [at |-> clock, on |-> polled]
    BY <1>4
  <2> QED BY <1>1, <2>1 DEF Basis, SavingsRows
<1>8. SavingsRows' /\ Truths'
  BY <1>1, <1>5, <1>6, <1>7 DEF Basis, SavingsRows, Truths
<1> QED BY <1>1, <1>8 DEF Basis

LEMMA FlushOpenOnly == ASSUME Types, Flush PROVE OpenOnly
<1>1. clock \div Minute = Open
  BY DayFlushed DEF Days
<1> QED BY <1>1, FlushNow DEF OpenOnly, Of, Bucket

\* A flush that nothing has happened before writes what all the minute was.
LEMMA CalmRowsFlushed ==
    ASSUME Basis, CalmRows, Flush, Regular, NEW o, o = Open
    PROVE  /\ Of(meter, o)' # {} /\ Of(pump, o)' # {}
           /\ \A r \in Of(meter, o)' : r.surplus = Surplus /\ r.export = Export
           /\ \A r \in Of(pump, o)' : r.on = relay
<1>1. since \in Nat /\ since > 0 /\ polled = relay
  BY FlushNow DEF Basis, CalmRows
<1>2. Surplus \in Int /\ Export \in Int
  BY PlantNow DEF Basis
<1>3. sumSurplus \div since = Surplus /\ sumExport \div since = Export
  <2>1. \A x \in Int : (since * x) \div since = x
    BY <1>1, SMT
  <2> QED BY <1>2, <2>1 DEF CalmRows
<1> DEFINE row == MeterRow(produced)
           state == PumpRow
<1>4. /\ row.at = clock /\ row.surplus = Surplus /\ row.export = Export
      /\ state.at = clock /\ state.on = relay
  BY <1>1, <1>3 DEF MeterRow, PumpRow
<1>5. clock \div Minute = o
  BY DayFlushed DEF Basis, Days
<1>6. meter' = meter \union {row} /\ pump' = pump \union {state}
  BY DEF Regular
<1> HIDE DEF row, state
<1>7. Of(meter, o)' = Of(meter, o) \union {row} /\ Of(pump, o)' = Of(pump, o) \union {state}
  BY <1>4, <1>5, <1>6 DEF Of, Bucket
<1> QED BY <1>4, <1>7 DEF CalmRows

\* ShownOfSame, to be had of the next state as well.
RatesAreShown ==
    SavingsRows /\ relay \in BOOLEAN /\ headroom \in Int =>
       \A m : /\ Of(meter, m) # {} /\ Of(pump, m) # {}
              /\ \A r \in Of(meter, m) : r.surplus = Surplus /\ r.export = Export
              /\ \A r \in Of(pump, m) : r.on = relay
              => \A kind \in Kinds : Shown(kind, m) = Rate(kind)

LEMMA RatesShown == RatesAreShown
  BY ShownOfSame DEF RatesAreShown

LEMMA SavingsFlushes ==
    ASSUME SavingsInv, Flush, Types'
    PROVE  SavingsInv'
<1>1. Basis /\ Basis' /\ Types /\ OpenOnly
  BY BasisFlushed, FlushOpenOnly DEF SavingsInv, Basis
<1>2. /\ UNCHANGED <<clock, flushS, headroom, relay, real>>
      /\ since' = 0 /\ sumSurplus' = 0 /\ sumExport' = 0
      /\ (Regular /\ Marks' = Marks) \/ Marks' = Marks + 1
      /\ \A r \in meter' : r \in meter \/ r.at = clock
      /\ \A r \in pump' : r \in pump \/ r.at = clock
      /\ clock \in Nat /\ Open \in Nat /\ Marks \in Nat
  BY <1>1, FlushNow, OpenNow, BoundNow
<1>3. /\ Bound' = Bound /\ Surplus' = Surplus /\ Export' = Export
      /\ \A kind : Rate(kind)' = Rate(kind)
      /\ \A kind, d : Truth(kind, d)' = Truth(kind, d)
  <2>1. Surplus' = Surplus
    BY <1>2 DEF Surplus
  <2> QED BY <1>2, <2>1 DEF Bound, Export, Rate, Truth
<1>4. LooseBooks(Marks)
  BY BooksLoose
<1>5. sumSurplus' = since' * Surplus' /\ sumExport' = since' * Export'
  <2>1. Surplus \in Int /\ Export \in Int
    BY <1>1, PlantNow
  <2>2. \A x \in Int : 0 * x = 0
    OBVIOUS
  <2> QED BY <1>2, <1>3, <2>1, <2>2
<1>6. ASSUME Regular, CalmRows, NEW o, o = Open
      PROVE  /\ Of(meter, o)' # {} /\ Of(pump, o)' # {}
             /\ \A r \in Of(meter, o)' : r.surplus = Surplus' /\ r.export = Export'
             /\ \A r \in Of(pump, o)' : r.on = relay'
  BY <1>1, <1>2, <1>3, <1>6, CalmRowsFlushed
<1>7. CASE Open' = Open
  <2>1. ASSUME NEW kind \in Kinds, NEW d \in Days
        PROVE  Ahead(kind, d)' = Ahead(kind, d) /\ Lead(d)' = Lead(d)
    <3>1. Entered(kind, d)' = Entered(kind, d)
      <4>1. PICK o, new : o = Open /\ new = IF o \in Minutes(d)' THEN Minute * Shown(kind, o)' ELSE 0
        OBVIOUS
      <4> QED BY <1>1, <1>7, <4>1, EnteredNext DEF Basis
    <3>2. Lead(d)' = Lead(d)
      BY <1>1, <1>2, <1>7, DayFlushed
    <3> QED BY <1>3, <3>1, <3>2 DEF Ahead
  <2>2. ASSUME NEW n \in Nat, LooseBooks(n) PROVE LooseBooks(n)'
    BY <1>2, <1>3, <2>1, <2>2 DEF LooseBooks
  <2>3. CASE Marks' = Marks + 1
    <3>1. PICK n \in Nat : n = Marks
      BY <1>2
    <3>2. LooseBooks(n)'
      BY <1>4, <2>2, <3>1
    <3> QED BY <1>1, <2>3, <3>1, <3>2 DEF SavingsInv, Disturbed
  <2>4. CASE Regular /\ Marks' = Marks /\ Disturbed
    <3>1. PICK n \in Nat : Marks = n + 1 /\ LooseBooks(n)
      BY <2>4 DEF Disturbed
    <3>2. LooseBooks(n)'
      BY <2>2, <3>1
    <3> QED BY <1>1, <2>4, <3>1, <3>2 DEF SavingsInv, Disturbed
  <2>5. CASE Regular /\ Marks' = Marks /\ Calm
    <3>1. CalmBooks(Marks)'
      BY <1>2, <1>3, <2>1, <2>5 DEF Calm, CalmBooks
    <3>2. CalmRows'
      <4>1. PICK o : o = Open
        OBVIOUS
      <4>2. /\ \A r \in Of(meter, o)' : r.surplus = Surplus' /\ r.export = Export'
            /\ \A r \in Of(pump, o)' : r.on = relay'
        BY <1>6, <2>5, <4>1 DEF Calm
      <4>3. Of(meter, Open)' = Of(meter, o)' /\ Of(pump, Open)' = Of(pump, o)'
        BY <1>7, <4>1 DEF Of, Bucket
      <4>4. ~(since' > 0)
        BY <1>2
      <4> QED BY <1>5, <4>2, <4>3, <4>4 DEF CalmRows
    <3> QED BY <1>1, <3>1, <3>2 DEF SavingsInv, Calm
  <2> QED BY <1>2, <2>3, <2>4, <2>5 DEF SavingsInv
<1>8. CASE Open' = Open + 1
  <2>1. CalmRows'
    <3>1. Of(meter, Open)' = {} /\ Of(pump, Open)' = {}
      <4>1. \A r \in meter' \union pump' : r.at <= clock
        BY <1>1, <1>2 DEF Types, Stamped
      <4>2. PICK o : o = Open
        OBVIOUS
      <4>3. clock < Minute * Open + Minute
        BY <1>1, DayFlushed DEF Days
      <4> QED BY <1>1, <1>8, <4>1, <4>2, <4>3, NoRowsYet DEF Basis
    <3>2. ~(since' > 0)
      BY <1>2
    <3> QED BY <1>5, <3>1, <3>2 DEF CalmRows
  <2>2. ASSUME NEW d \in Days PROVE Lead(d)' = Lead(d) + Share(d) /\ 0 <= Lead(d)'
    BY <1>1, <1>2, <1>8, DayFlushed
  <2>3. ASSUME NEW n \in Nat, LooseBooks(n) PROVE CalmBooks(n + 1)'
    <3> SUFFICES ASSUME NEW kind \in Kinds, NEW d \in Days
                 PROVE  CalmBook(Ahead(kind, d)', Rate(kind)', Lead(d)', flushS', Bound' * (n + 1))
      BY DEF CalmBooks
    <3>1. PICK k \in {0, 1} : k = 0
      OBVIOUS
    <3>2. Lead(d)' = Lead(d) - k + Share(d) /\ 0 <= Lead(d)'
      <4>1. Lead(d) \in Int /\ Share(d) \in Nat
        BY <1>1, DayNow
      <4> QED BY <2>2, <3>1, <4>1
    <3>3. Truth(kind, d)' = Truth(kind, d) + Rate(kind) * k
      <4>1. PICK t \in Nat, v \in Nat : t = Truth(kind, d) /\ v = Rate(kind)
        BY <1>1, AheadType, RateType
      <4>2. t + v * 0 = t
        OBVIOUS
      <4> QED BY <1>3, <3>1, <4>1, <4>2
    <3>4. Rate(kind)' = Rate(kind) /\ flushS' = flushS
      BY <1>2, <1>3
    <3> QED BY <1>1, <1>8, <2>3, <3>2, <3>3, <3>4, BookCloses
  <2>4. CASE Marks' = Marks + 1
    <3>1. PICK n \in Nat : n = Marks
      BY <1>2
    <3>2. CalmBooks(n + 1)'
      BY <1>4, <2>3, <3>1
    <3> QED BY <1>1, <2>1, <2>4, <3>1, <3>2 DEF SavingsInv, Calm, CalmBooks
  <2>5. CASE Regular /\ Marks' = Marks /\ Disturbed
    <3>1. PICK n \in Nat : Marks = n + 1 /\ LooseBooks(n)
      BY <2>5 DEF Disturbed
    <3>2. CalmBooks(n + 1)'
      BY <2>3, <3>1
    <3> QED BY <1>1, <2>1, <2>5, <3>1, <3>2 DEF SavingsInv, Calm, CalmBooks
  <2>6. CASE Regular /\ Marks' = Marks /\ Calm
    <3>1. ASSUME NEW kind \in Kinds, NEW d \in Days
          PROVE  CalmBook(Ahead(kind, d)', Rate(kind)', Lead(d)', flushS', Bound' * Marks')
      <4>1. PICK o : o = Open
        OBVIOUS
      <4>2. /\ Of(meter, o)' # {} /\ Of(pump, o)' # {}
            /\ \A r \in Of(meter, o)' : r.surplus = Surplus' /\ r.export = Export'
            /\ \A r \in Of(pump, o)' : r.on = relay'
        BY <1>6, <2>6, <4>1 DEF Calm
      <4>3. Shown(kind, o)' = Rate(kind)
        <5>1. RatesAreShown'
          BY RatesShown, PTL
        <5>2. SavingsRows' /\ relay' \in BOOLEAN /\ headroom' \in Int
          <6>1. relay \in BOOLEAN
            BY <1>1, Zenon DEF Types, Switches
          <6> QED BY <1>1, <1>2, <6>1, PlantNow DEF Basis
        <5>3. Shown(kind, o)' = Rate(kind)'
          BY <4>2, <5>1, <5>2 DEF RatesAreShown
        <5> QED BY <1>3, <5>3
      <4>4. PICK new \in Nat : Entered(kind, d)' = Entered(kind, d) + new /\ new = Rate(kind) * Share(d)
        BY <1>1, <1>8, <4>1, <4>2, <4>3, BookEntered
      <4>5. PICK E \in Nat, T \in Nat, e \in Int :
               E = Entered(kind, d) /\ T = Truth(kind, d) /\ e = Ahead(kind, d) /\ e = E - T
        BY <1>1, AheadType
      <4>6. PICK v \in Nat, y \in Int, w \in Nat, f \in Nat, s \in Nat :
               v = Rate(kind) /\ y = Lead(d) /\ w = Share(d) /\ f = flushS /\ s = Bound * Marks
        BY <1>1, RateType, DayNow, BoundNow
      <4>7. CalmBook(e, v, y, f, s)
        BY <2>6, <4>5, <4>6 DEF Calm, CalmBooks
      <4>8. CalmBook(e + v * w, v, y + w, f, s)
        BY <4>5, <4>6, <4>7, CalmCloses
      <4>9. Ahead(kind, d)' = e + v * w
        <5>1. Ahead(kind, d)' = (E + new) - T
          BY <1>3, <4>4, <4>5 DEF Ahead
        <5>2. new = v * w
          BY <4>4, <4>6
        <5> QED BY <4>5, <5>1, <5>2
      <4> QED BY <1>2, <1>3, <2>2, <2>6, <4>6, <4>8, <4>9
    <3> QED BY <1>1, <2>1, <3>1 DEF SavingsInv, Calm, CalmBooks
  <2> QED BY <1>2, <2>4, <2>5, <2>6 DEF SavingsInv
<1>9. Open' = Open \/ Open' = Open + 1
  BY <1>1, DayFlushed DEF Days
<1> QED BY <1>7, <1>8, <1>9

LEMMA NextSavings == SavingsInv /\ [Next]_vars => SavingsInv'
<1> SUFFICES ASSUME SavingsInv, [Next]_vars PROVE SavingsInv'
  OBVIOUS
<1>1. Types'
  BY NextTypes DEF SavingsInv, Basis
<1>2. CASE Elapse
  BY <1>1, <1>2, SavingsElapses
<1>3. CASE Flush
  BY <1>1, <1>3, SavingsFlushes
<1>4. CASE ~Elapse /\ ~Flush
  <2>1. /\ UNCHANGED <<timeVars, meter, pump, real, sumSurplus, sumExport>>
        /\ \/ upsets' = upsets + 1
           \/ UNCHANGED <<upsets, relay, headroom>> /\ (polled' = polled \/ polled' = relay)
    BY <1>4, Zenon DEF Next, Switch, SwitchFails, Flip, Reconcile, Poll, Weather, CounterReset,
                       Upset, vars, plantVars, moveVars, tables
  <2>2. polled' = polled \/ polled' = relay => polled' \in {polled, relay}
    OBVIOUS
  <2> QED BY <1>1, <2>1, <2>2, SavingsKept
<1> QED BY <1>2, <1>3, <1>4

LEMMA SavingsRight == SavingsInv => SavingsHonest
<1> SUFFICES ASSUME SavingsInv, NEW kind \in Kinds, NEW d \in Days
             PROVE  Near(Energy(kind, d), Truth(kind, d), Bound * (Marks + 1))
  <2>1. \A d : SelfUsed(d) = Energy("self", d) /\ Wasted(d) = Energy("wasted", d)
    BY DEF SelfUsed, Wasted, Energy, Entries, Shown
  <2>2. \A d : Truth("self", d) = real[d].self /\ Truth("wasted", d) = real[d].wasted
    BY DEF Truth
  <2> QED BY <2>1, <2>2 DEF SavingsHonest, Bound, Marks, Kinds
<1>1. Basis /\ Types /\ SavingsRows
  BY DEF SavingsInv, Basis
<1>2. PICK e \in Int, g \in Nat, E \in Nat, T \in Nat :
         /\ e = Ahead(kind, d) /\ g = OpenEntry(kind, d) /\ E = Entered(kind, d) /\ T = Truth(kind, d)
  BY <1>1, AheadType, EnergyShown
<1>3. e = E - T /\ Energy(kind, d) = E + g /\ g <= Nominal * Share(d)
  BY <1>1, <1>2, AheadType, EnergyShown
<1>4. PICK v, y, f, w, m :
         /\ v = Rate(kind) /\ y = Lead(d) /\ f = flushS /\ w = Share(d) /\ m = Minute
         /\ Leads(v, y, f, w, m)
  BY <1>1, LeadsNow
<1>5. PICK b \in Nat, s \in Nat : b = Bound /\ b = Nominal * (m + f) /\ s = Bound * Marks
                                  /\ Bound * (Marks + 1) = s + b
  BY <1>1, <1>4, BoundNow
<1>6. e + g <= s + b /\ -(s + b) <= e + g
  <2>1. CASE Calm
    <3>1. CalmBook(e, v, y, f, s)
      BY <1>2, <1>4, <1>5, <2>1 DEF Calm, CalmBooks
    <3> QED BY <1>2, <1>3, <1>4, <1>5, <3>1, BookRight
  <2>2. CASE Disturbed
    <3>1. PICK n \in Nat : Marks = n + 1 /\ LooseBooks(n)
      BY <2>2 DEF Disturbed
    <3>2. Bound * n \in Nat /\ Bound * (n + 1) = Bound * n + Bound
      BY <1>1, BoundNow
    <3>3. s = Bound * (n + 1)
      BY <1>5, <3>1, Zenon
    <3>4. PICK r \in Nat : r = Bound * n /\ s = r + b
      BY <1>5, <3>2, <3>3
    <3>5. LooseBook(e, y, f, r)
      BY <1>2, <1>4, <3>1, <3>4 DEF LooseBooks
    <3>6. g <= Nominal * w /\ b = Nominal * (m + f) /\ Leads(v, y, f, w, m)
      BY <1>3, <1>4, <1>5
    <3>7. e + g <= (r + b) + b /\ -((r + b) + b) <= e + g
      BY <3>5, <3>6, BookRight
    <3> QED BY <3>4, <3>7
  <2> QED BY <2>1, <2>2 DEF SavingsInv
<1>7. Energy(kind, d) - Truth(kind, d) = e + g
  BY <1>2, <1>3
<1>8. Energy(kind, d) \in Nat /\ Truth(kind, d) \in Nat
  BY <1>2, <1>3
<1> QED BY <1>2, <1>5, <1>6, <1>7, <1>8 DEF Near

\* What the heat pump used and what it left to the grid, by the minutes' means: no
\* disturbance costs more than a minute and a flush, be it a lost row, a switch or the
\* weather, nor does a minute that ends while a flush is late, and however many rows
\* there are (wp_savings, harvest_summary).
THEOREM SavingsAreHonest == Spec => []SavingsHonest
<1>1. Spec => []SavingsInv
  BY InitSavings, NextSavings, PTL DEF Spec
<1> QED BY <1>1, SavingsRight, PTL

-----------------------------------------------------------------------------
(* Today's balance                                                         *)

\* The most the plant produces in a tick.
Peak == Max(Headrooms) + House

LEMMA PeakIsMost ==
    /\ Peak \in Nat
    /\ \A w \in Headrooms : w \in Int /\ w + House \in 0..Peak
<1>1. Headrooms \subseteq Int /\ House \in Nat /\ \A w \in Headrooms : w + House >= 0
  BY ViewsAssumption
<1>2. \E most \in Headrooms : \A w \in Headrooms : most >= w
  <2>1. PICK most \in Headrooms : \A w \in Headrooms : w <= most
    BY ViewsAssumption
  <2>2. \A w \in Headrooms : most >= w
    BY <1>1, <2>1
  <2> QED BY <2>2
<1>3. Max(Headrooms) \in Headrooms /\ \A w \in Headrooms : Max(Headrooms) >= w
  BY <1>2, Zenon DEF Max
<1> DEFINE top == Max(Headrooms)
<1>4. Peak = top + House /\ top \in Headrooms /\ \A w \in Headrooms : top >= w
  BY <1>3 DEF Peak
<1> HIDE DEF top
<1> QED BY <1>1, <1>4

\* A table of a counter that a row can be appended to.
Latest(rows) == {s \in rows : \A t \in rows : t.at <= s.at}

Sound(rows) ==
    /\ IsFiniteSet(Units(rows))
    /\ \A r \in rows : r.at \in Nat /\ r.count \in Nat
    /\ rows = {} \/ \E s \in rows : Latest(rows) = {s}

LEMMA NoRows == Sound({}) /\ PositiveDeltas({}) = 0
<1>1. Units({}) = {}
  BY DEF Units
<1> QED BY <1>1, FS_EmptySet DEF Sound, PositiveDeltas

LEMMA Interval ==
    ASSUME NEW a \in Nat, NEW b \in Nat
    PROVE  /\ IsFiniteSet((a + 1)..b)
           /\ Cardinality((a + 1)..b) = IF b > a THEN b - a ELSE 0
  BY FS_Interval

\* Pairs with one left side are as many as the right sides.
LEMMA Paired ==
    ASSUME NEW x, NEW S, IsFiniteSet(S)
    PROVE  IsFiniteSet({x} \X S) /\ Cardinality({x} \X S) = Cardinality(S)
<1> DEFINE f == [y \in S |-> <<x, y>>]
<1>1. f \in Bijection(S, {x} \X S)
  <2>1. f \in [S -> {x} \X S]
    OBVIOUS
  <2>2. \A a, b \in S : f[a] = f[b] => a = b
    OBVIOUS
  <2>3. \A p \in {x} \X S : \E a \in S : f[a] = p
    <3> SUFFICES ASSUME NEW p \in {x} \X S PROVE \E a \in S : f[a] = p
      OBVIOUS
    <3>1. p[2] \in S /\ f[p[2]] = p
      OBVIOUS
    <3> QED BY <3>1
  <2> HIDE DEF f
  <2> QED BY <2>1, <2>2, <2>3 DEF Bijection, Injection, Surjection, IsInjective
<1>2. ExistsBijection(S, {x} \X S)
  BY <1>1 DEF ExistsBijection
<1>3. IsFiniteSet({x} \X S) /\ Cardinality(S) = Cardinality({x} \X S)
  BY <1>2, FS_Bijection, Zenon DEF ExistsBijection
<1> QED BY <1>3

\* A later row adds what the counter has ticked off since the latest one.
LEMMA Appended ==
    ASSUME NEW rows, Sound(rows), NEW at \in Nat, NEW c \in Nat,
           \A r \in rows : r.at < at,
           NEW more, more = rows \union {[at |-> at, count |-> c]}
    PROVE  /\ Sound(more) /\ Latest(more) = {[at |-> at, count |-> c]}
           /\ PositiveDeltas(more) \in Nat /\ PositiveDeltas(rows) \in Nat
           /\ rows = {} => PositiveDeltas(more) = PositiveDeltas(rows)
           /\ \A s \in Latest(rows) :
                PositiveDeltas(more) = PositiveDeltas(rows) + (IF c > s.count THEN c - s.count ELSE 0)
<1> DEFINE n == [at |-> at, count |-> c]
           T == Ticked(n, more)
           new == {n} \X T
<1>1. n \notin rows /\ n.at = at /\ n.count = c /\ more = rows \union {n}
  OBVIOUS
<1>2. \A r \in rows : r.at \in Nat /\ r.count \in Nat
  BY DEF Sound
<1>3. Latest(more) = {n}
  BY <1>1, <1>2 DEF Latest
<1>4. Before(n, more) = Latest(rows)
  BY <1>1, <1>2 DEF Before, Latest
<1>5. \A r \in rows : Before(r, more) = Before(r, rows)
  <2>1. \A r \in rows : {s \in more : s.at < r.at} = {s \in rows : s.at < r.at}
    BY <1>1, <1>2
  <2> QED BY <2>1 DEF Before
<1>6. Units(more) = Units(rows) \union new
  <2>1. \A r \in rows : Ticked(r, more) = Ticked(r, rows)
    BY <1>5 DEF Ticked
  <2> HIDE DEF n
  <2> QED BY <1>1, <2>1 DEF Units
<1>7. Units(rows) \intersect new = {}
  <2> HIDE DEF n, T
  <2> QED BY <1>1 DEF Units
<1>8. IsFiniteSet(T) /\ (rows = {} => Cardinality(T) = 0)
      /\ \A s \in Latest(rows) : Cardinality(T) = IF c > s.count THEN c - s.count ELSE 0
  <2>1. CASE rows = {}
    <3>1. T = {} /\ Latest(rows) = {}
      BY <1>4, <2>1 DEF Ticked, Latest
    <3> QED BY <3>1, FS_EmptySet
  <2>2. CASE rows # {}
    <3>1. PICK s \in rows : Latest(rows) = {s}
      BY <2>2 DEF Sound
    <3>2. T = (s.count + 1)..c
      BY <1>1, <1>4, <3>1 DEF Ticked
    <3>3. IsFiniteSet(T) /\ Cardinality(T) = IF c > s.count THEN c - s.count ELSE 0
      BY <1>2, <3>2, Interval
    <3> HIDE DEF T
    <3> QED BY <2>2, <3>1, <3>3
  <2> QED BY <2>1, <2>2
<1> HIDE DEF n, T
<1>9. IsFiniteSet(new) /\ Cardinality(new) = Cardinality(T) /\ Cardinality(T) \in Nat
  BY <1>8, Paired, FS_CardinalityType
<1>10. /\ IsFiniteSet(Units(more))
       /\ Cardinality(Units(more)) = Cardinality(Units(rows)) + Cardinality(T)
       /\ Cardinality(Units(rows)) \in Nat
  <2> HIDE DEF new
  <2>1. IsFiniteSet(Units(rows)) /\ Cardinality(Units(rows)) \in Nat
    BY FS_CardinalityType DEF Sound
  <2>2. Cardinality(Units(rows) \intersect new) = 0
    BY <1>7, FS_EmptySet
  <2>3. IsFiniteSet(Units(rows) \union new)
        /\ Cardinality(Units(rows) \union new)
             = Cardinality(Units(rows)) + Cardinality(new) - Cardinality(Units(rows) \intersect new)
    BY <1>9, <2>1, FS_Union
  <2>4. IsFiniteSet(Units(more)) /\ Cardinality(Units(more)) = Cardinality(Units(rows) \union new)
    BY <1>6, <2>3, Zenon
  <2>5. Cardinality(Units(rows) \union new) = Cardinality(Units(rows)) + Cardinality(T)
    <3> DEFINE a == Cardinality(Units(rows))
               b == Cardinality(Units(rows) \union new)
               k == Cardinality(new)
               z == Cardinality(Units(rows) \intersect new)
    <3>1. b = a + k - z /\ a \in Nat /\ k \in Nat /\ z = 0 /\ k = Cardinality(T)
      BY <1>9, <2>1, <2>2, <2>3, Zenon
    <3> HIDE DEF a, b, k, z
    <3>2. b = a + k
      BY <3>1
    <3> QED BY <3>1, <3>2, Zenon DEF a, b
  <2> QED BY <2>1, <2>4, <2>5, Zenon
<1>11. Sound(more)
  <2>1. \A r \in more : r.at \in Nat /\ r.count \in Nat
    BY <1>1, <1>2
  <2> QED BY <1>1, <1>3, <1>10, <2>1 DEF Sound
<1>12. /\ PositiveDeltas(more) \in Nat /\ PositiveDeltas(rows) \in Nat
       /\ rows = {} => PositiveDeltas(more) = PositiveDeltas(rows)
       /\ \A s \in Latest(rows) :
            PositiveDeltas(more) = PositiveDeltas(rows) + (IF c > s.count THEN c - s.count ELSE 0)
  <2> DEFINE a == Cardinality(Units(rows))
             b == Cardinality(Units(more))
  <2>1. a \in Nat /\ b = a + Cardinality(T) /\ Cardinality(T) \in Nat
    BY <1>9, <1>10
  <2>2. PositiveDeltas(more) = b /\ PositiveDeltas(rows) = a
    BY DEF PositiveDeltas
  <2> HIDE DEF a, b
  <2>3. rows = {} => b = a
    BY <1>8, <2>1
  <2>4. \A s \in Latest(rows) : b = a + (IF c > s.count THEN c - s.count ELSE 0)
    BY <1>8, <2>1
  <2>5. b \in Nat
    BY <2>1
  <2> QED BY <2>1, <2>2, <2>3, <2>4, <2>5, Zenon
<1> QED BY <1>3, <1>11, <1>12 DEF n

-----------------------------------------------------------------------------
(* What the balance may be off by: T was produced on a day, the counter     *)
(* shows c, a period that is not late brings F at most and the one under    *)
(* way has brought e, the time flushes were late has brought Z, and there   *)
(* were n disturbances.                                                     *)

\* Nothing is counted that was not produced.
NoMore(rows, T, c) ==
    /\ PositiveDeltas(rows) <= T
    /\ \A s \in Latest(rows) : PositiveDeltas(rows) + (c - s.count) <= T

\* What is missing was lost in k periods, late by a, or is yet to come: g since the
\* latest row, of v periods without a row, late by b, and the one under way.  The
\* counter tells g unless it was reset; then a disturbance is left for the period.
Charged(rows, T, c, e, n, F, Z, k, v, g, a, b) ==
    /\ T <= PositiveDeltas(rows) + g + F * k + a
    /\ g <= F * v + e + b
    /\ a + b <= Z
    /\ \/ k + v <= n
       \/ k + v <= n + 1 /\ \E s \in rows : Latest(rows) = {s} /\ c - s.count = g

Tally(rows, T, c, e, n, F, Z) ==
    NoMore(rows, T, c) /\ \E k, v, g, a, b \in Nat : Charged(rows, T, c, e, n, F, Z, k, v, g, a, b)

\* When the day is over.
Closed(rows, T, n, F, Z) ==
    PositiveDeltas(rows) <= T /\ T <= PositiveDeltas(rows) + F * (n + 2) + Z

Books(rows, T, c, d, today, e, n, F, Z) ==
    /\ Sound(rows) /\ T \in Nat
    /\ d = today => Tally(rows, T, c, e, n, F, Z)
    /\ d < today => Closed(rows, T, n, F, Z)
    /\ d > today => rows = {} /\ T = 0

LEMMA SoundType == ASSUME NEW rows, Sound(rows) PROVE PositiveDeltas(rows) \in Nat
  BY FS_CardinalityType DEF Sound, PositiveDeltas

LEMMA LatestTypes ==
    ASSUME NEW rows, Sound(rows)
    PROVE  \A s \in Latest(rows) : s \in rows /\ s.count \in Nat
  BY DEF Sound, Latest

LEMMA TallyOpens ==
    ASSUME NEW c, NEW e \in Nat, NEW n \in Nat, NEW F \in Nat, NEW Z \in Nat
    PROVE  Tally({}, 0, c, e, n, F, Z)
<1>1. PositiveDeltas({}) = 0 /\ Latest({}) = {}
  BY NoRows DEF Latest
<1>2. F * 0 = 0
  BY Product
<1>3. Charged({}, 0, c, e, n, F, Z, 0, 0, 0, 0, 0)
  BY <1>1, <1>2 DEF Charged
<1>4. NoMore({}, 0, c)
  BY <1>1 DEF NoMore
<1> QED BY <1>3, <1>4 DEF Tally

\* A tick brings Peak at most, and is the period's or late.
LEMMA TallyElapses ==
    ASSUME NEW rows, Sound(rows), NEW T \in Nat, NEW c \in Nat, NEW e \in Nat, NEW n \in Nat,
           NEW F \in Nat, NEW Z \in Nat, Tally(rows, T, c, e, n, F, Z),
           NEW h \in Nat, NEW Y \in Nat, e <= h, Z <= Y, h + Y = e + Z + Peak, NEW p \in 0..Peak
    PROVE  Tally(rows, T + p, c + p, h, n, F, Y)
<1>1. PICK k \in Nat, v \in Nat, g \in Nat, a \in Nat, b \in Nat :
         Charged(rows, T, c, e, n, F, Z, k, v, g, a, b)
  BY DEF Tally
<1>2. /\ PositiveDeltas(rows) \in Nat /\ p \in Nat /\ p <= Peak /\ Peak \in Nat
      /\ \A s \in rows : s.count \in Nat
  BY SoundType, PeakIsMost DEF Sound
<1>3. NoMore(rows, T + p, c + p)
  BY <1>2, LatestTypes DEF Tally, NoMore
<1>4. PICK q \in Nat, i \in Nat : q = g + p /\ i = b + (Y - Z)
  BY <1>2
<1>5. T + p <= PositiveDeltas(rows) + q + F * k + a
  <2>1. F * k \in Nat
    BY Product
  <2> QED BY <1>1, <1>2, <1>4, <2>1 DEF Charged
<1>6. q <= F * v + h + i /\ a + i <= Y
  <2>1. F * v \in Nat
    BY Product
  <2>2. g <= F * v + e + b /\ a + b <= Z
    BY <1>1 DEF Charged
  <2> QED BY <1>2, <1>4, <2>1, <2>2
<1>7. \A s \in rows : c - s.count = g => (c + p) - s.count = q
  BY <1>2, <1>4
<1>8. Charged(rows, T + p, c + p, h, n, F, Y, k, v, q, a, i)
  BY <1>1, <1>5, <1>6, <1>7 DEF Charged
<1> QED BY <1>3, <1>8 DEF Tally

\* A disturbance, which may have reset the counter.
LEMMA TallyDisturbed ==
    ASSUME NEW rows, Sound(rows), NEW T \in Nat, NEW c \in Nat, NEW e \in Nat, NEW n \in Nat,
           NEW F \in Nat, NEW Z \in Nat, Tally(rows, T, c, e, n, F, Z),
           NEW d \in Nat, d \in {0, c}
    PROVE  Tally(rows, T, d, e, n + 1, F, Z)
<1>1. PICK k \in Nat, v \in Nat, g \in Nat, a \in Nat, b \in Nat :
         Charged(rows, T, c, e, n, F, Z, k, v, g, a, b)
  BY DEF Tally
<1>2. NoMore(rows, T, d)
  BY SoundType, LatestTypes DEF Tally, NoMore
<1>3. Charged(rows, T, d, e, n + 1, F, Z, k, v, g, a, b)
  BY <1>1 DEF Charged
<1> QED BY <1>2, <1>3 DEF Tally

\* A flush that does not write the counter.
LEMMA TallyLost ==
    ASSUME NEW rows, Sound(rows), NEW T \in Nat, NEW c \in Nat, NEW e \in Nat, NEW n \in Nat,
           NEW F \in Nat, e <= F, NEW Z \in Nat, Tally(rows, T, c, e, n, F, Z)
    PROVE  Tally(rows, T, c, 0, n + 1, F, Z)
<1>1. PICK k \in Nat, v \in Nat, g \in Nat, a \in Nat, b \in Nat :
         Charged(rows, T, c, e, n, F, Z, k, v, g, a, b)
  BY DEF Tally
<1>2. F * (v + 1) = F * v + F /\ F * v \in Nat
  BY Product
<1>3. g <= F * (v + 1) + 0 + b
  <2>1. g <= F * v + e + b
    BY <1>1 DEF Charged
  <2> QED BY <1>2, <2>1
<1>4. PICK w \in Nat : w = v + 1
  OBVIOUS
<1>5. k + w <= n + 1 \/ (k + w <= (n + 1) + 1 /\ k + v <= n + 1)
  BY <1>1, <1>4 DEF Charged
<1>6. k + v <= n \/ \E s \in rows : Latest(rows) = {s} /\ c - s.count = g
  BY <1>1 DEF Charged
<1>7. Charged(rows, T, c, 0, n + 1, F, Z, k, w, g, a, b)
  BY <1>1, <1>3, <1>4, <1>5, <1>6 DEF Charged
<1> QED BY <1>7 DEF Tally

\* One that does.
LEMMA TallyWritten ==
    ASSUME NEW rows, Sound(rows), NEW T \in Nat, NEW c \in Nat, NEW e \in Nat, NEW n \in Nat,
           NEW F \in Nat, e <= F, NEW Z \in Nat, Tally(rows, T, c, e, n, F, Z),
           NEW at \in Nat, \A r \in rows : r.at < at,
           NEW more, more = rows \union {[at |-> at, count |-> c]}
    PROVE  Sound(more) /\ Tally(more, T, c, 0, n, F, Z)
<1> DEFINE row == [at |-> at, count |-> c]
           D == PositiveDeltas(rows)
           E == PositiveDeltas(more)
<1>1. PICK k \in Nat, v \in Nat, g \in Nat, a \in Nat, b \in Nat :
         Charged(rows, T, c, e, n, F, Z, k, v, g, a, b)
  BY DEF Tally
<1>2. /\ Sound(more) /\ Latest(more) = {row} /\ row \in more /\ row.count = c
      /\ D \in Nat /\ E \in Nat
      /\ rows = {} => E = D
      /\ \A s \in Latest(rows) : E = D + (IF c > s.count THEN c - s.count ELSE 0)
  BY Appended
<1>3. rows = {} \/ \E s \in rows : Latest(rows) = {s} /\ s.count \in Nat
  BY DEF Sound
<1>4. /\ D <= T /\ \A s \in Latest(rows) : D + (c - s.count) <= T
      /\ T <= D + g + F * k + a /\ g <= F * v + F + b /\ a + b <= Z
      /\ \/ k + v <= n
         \/ k + v <= n + 1 /\ \E s \in rows : Latest(rows) = {s} /\ c - s.count = g
  <2>1. F * v \in Nat
    BY Product
  <2> QED BY <1>1, <2>1 DEF Tally, NoMore, Charged
<1> HIDE DEF D, E, row
<1>5. E <= T /\ D <= E
  BY <1>2, <1>3, <1>4
<1>6. NoMore(more, T, c)
  <2>1. \A s \in Latest(more) : s.count = c
    BY <1>2
  <2>2. E + (c - c) = E
    BY <1>2
  <2>3. E <= T /\ \A s \in Latest(more) : E + (c - s.count) <= T
    BY <1>5, <2>1, <2>2
  <2> QED BY <2>3 DEF NoMore, E
<1>7. PICK j \in Nat : j <= n + 1 /\ T <= E + F * j + Z
  <2>1. F * k \in Nat /\ F * v \in Nat /\ F * (k + v + 1) = F * k + F * v + F
    BY SMT
  <2>2. CASE k + v <= n
    <3>1. T <= E + F * (k + v + 1) + Z
      BY <1>2, <1>4, <1>5, <2>1
    <3>2. k + v + 1 \in Nat /\ k + v + 1 <= n + 1
      BY <2>2
    <3> QED BY <3>1, <3>2
  <2>3. CASE k + v <= n + 1 /\ \E s \in rows : Latest(rows) = {s} /\ c - s.count = g
    <3>1. E = D + g
      BY <1>2, <1>3, <2>3
    <3>2. T <= E + F * k + Z /\ k <= n + 1
      BY <1>2, <1>4, <2>1, <2>3, <3>1
    <3> QED BY <3>2
  <2> QED BY <1>4, <2>2, <2>3
<1>8. Charged(more, T, c, 0, n, F, Z, j, 0, 0, Z, 0)
  <2>1. F * 0 = 0 /\ F * j \in Nat
    BY Product
  <2>2. c - row.count = 0
    BY <1>2
  <2>3. T <= PositiveDeltas(more) + 0 + F * j + Z
    BY <1>2, <1>7, <2>1 DEF E
  <2>4. 0 <= F * 0 + 0 + 0 /\ Z + 0 <= Z /\ j + 0 <= n + 1
    BY <1>7, <2>1
  <2>5. \E s \in more : Latest(more) = {s} /\ c - s.count = 0
    BY <1>2, <2>2, Zenon
  <2> QED BY <2>3, <2>4, <2>5 DEF Charged
<1> QED BY <1>2, <1>6, <1>8 DEF Tally

LEMMA TallyCloses ==
    ASSUME NEW rows, Sound(rows), NEW T \in Nat, NEW c, NEW e \in Nat, NEW n \in Nat,
           NEW F \in Nat, e <= F, NEW Z \in Nat, Tally(rows, T, c, e, n, F, Z)
    PROVE  Closed(rows, T, n, F, Z)
<1>1. PICK k \in Nat, v \in Nat, g \in Nat, a \in Nat, b \in Nat :
         Charged(rows, T, c, e, n, F, Z, k, v, g, a, b)
  BY DEF Tally
<1>2. /\ F * k \in Nat /\ F * v \in Nat /\ F * (k + v + 1) = F * k + F * v + F
      /\ F * (k + v + 1) \in Nat
  BY SMT
<1>3. T <= PositiveDeltas(rows) + F * (k + v + 1) + Z /\ k + v + 1 <= n + 2
  BY <1>1, <1>2, SoundType DEF Charged
<1>4. F * (k + v + 1) <= F * (n + 2) /\ F * (n + 2) \in Nat
  <2>1. n + 2 \in Nat /\ k + v + 1 \in Nat
    OBVIOUS
  <2> QED BY <1>3, <2>1, Product
<1>5. T <= PositiveDeltas(rows) + F * (n + 2) + Z
  BY <1>2, <1>3, <1>4, SoundType
<1> QED BY <1>5 DEF Tally, NoMore, Closed

LEMMA BooksElapse ==
    ASSUME NEW rows, NEW T \in Nat, NEW c \in Nat, NEW d \in Days, NEW today \in Days,
           NEW morrow \in Days, today <= morrow, NEW e \in Nat, NEW n \in Nat,
           NEW F \in Nat, NEW Z \in Nat, Books(rows, T, c, d, today, e, n, F, Z),
           NEW h \in Nat, NEW Y \in Nat, e <= h, h <= F, Z <= Y, h + Y = e + Z + Peak,
           NEW p \in Nat, p <= Peak, NEW U \in Nat, U = IF d = today THEN T + p ELSE T,
           NEW b \in Nat, b = c + p
    PROVE  Books(rows, U, b, d, morrow, h, n, F, Y)
<1>1. Sound(rows) /\ p \in 0..Peak
  BY PeakIsMost DEF Books
<1>2. CASE d = today
  <2>1. Tally(rows, U, c + p, h, n, F, Y) /\ U \in Nat
    BY <1>1, <1>2, TallyElapses DEF Books
  <2>2. d < morrow => Closed(rows, U, n, F, Y)
    BY <1>1, <2>1, TallyCloses
  <2> QED BY <1>1, <1>2, <2>1, <2>2 DEF Books, Days
<1>3. CASE d < today
  <2>1. F * (n + 2) \in Nat /\ Closed(rows, T, n, F, Z)
    BY <1>3, Product DEF Books
  <2>2. Closed(rows, U, n, F, Y)
    BY <1>1, <1>3, <2>1, SoundType DEF Closed, Days
  <2> QED BY <1>1, <1>3, <2>2 DEF Books, Days
<1>4. CASE d > today
  <2>1. rows = {} /\ T = 0 /\ U = 0
    BY <1>4 DEF Books, Days
  <2>2. Tally({}, 0, c + p, h, n, F, Y)
    BY <1>1, TallyOpens
  <2> QED BY <1>1, <1>4, <2>1, <2>2 DEF Books, Days
<1> QED BY <1>2, <1>3, <1>4 DEF Days

LEMMA BooksDisturbed ==
    ASSUME NEW rows, NEW T, NEW c \in Nat, NEW d \in Days, NEW today \in Days,
           NEW e \in Nat, NEW n \in Nat, NEW F \in Nat, NEW Z \in Nat,
           Books(rows, T, c, d, today, e, n, F, Z), NEW b \in Nat, b \in {0, c},
           NEW m \in Nat, m = n + 1
    PROVE  Books(rows, T, b, d, today, e, m, F, Z)
<1>1. Closed(rows, T, n, F, Z) => Closed(rows, T, n + 1, F, Z)
  <2>1. F * (n + 2) \in Nat /\ F * ((n + 1) + 2) = F * (n + 2) + F
    BY SMT
  <2> QED BY <2>1, SoundType DEF Books, Closed
<1>2. CASE d = today
  <2>1. Sound(rows) /\ T \in Nat /\ Tally(rows, T, c, e, n, F, Z)
    BY <1>2 DEF Books
  <2>2. Tally(rows, T, b, e, n + 1, F, Z)
    BY <2>1, TallyDisturbed
  <2> QED BY <1>2, <2>1, <2>2 DEF Books, Days
<1>3. CASE d # today
  BY <1>1, <1>3 DEF Books
<1> QED BY <1>2, <1>3

\* A flush that does not write the counter counts as a disturbance.
LEMMA BooksLost ==
    ASSUME NEW rows, NEW T, NEW c \in Nat, NEW d \in Days, NEW today \in Days,
           NEW e \in Nat, NEW n \in Nat, NEW F \in Nat, e <= F, NEW Z \in Nat,
           Books(rows, T, c, d, today, e, n, F, Z), NEW m \in Nat, m = n + 1
    PROVE  Books(rows, T, c, d, today, 0, m, F, Z)
<1>1. Books(rows, T, c, d, today, e, m, F, Z)
  BY BooksDisturbed
<1>2. d = today => Tally(rows, T, c, 0, n + 1, F, Z)
  BY TallyLost DEF Books
<1> QED BY <1>1, <1>2 DEF Books

LEMMA BooksWritten ==
    ASSUME NEW rows, NEW T, NEW c \in Nat, NEW d \in Days, NEW today \in Days,
           NEW e \in Nat, NEW n \in Nat, NEW F \in Nat, e <= F, NEW Z \in Nat,
           Books(rows, T, c, d, today, e, n, F, Z),
           NEW at \in Nat, \A r \in rows : r.at < at,
           NEW more, more = IF d = today THEN rows \union {[at |-> at, count |-> c]} ELSE rows
    PROVE  Books(more, T, c, d, today, 0, n, F, Z)
<1>1. CASE d = today
  <2>0. /\ Sound(rows) /\ T \in Nat /\ Tally(rows, T, c, e, n, F, Z)
        /\ more = rows \union {[at |-> at, count |-> c]}
    BY <1>1 DEF Books
  <2>1. Sound(more) /\ Tally(more, T, c, 0, n, F, Z)
    BY <2>0, TallyWritten
  <2> QED BY <1>1, <2>0, <2>1 DEF Books, Days
<1>2. CASE d # today
  BY <1>2 DEF Books, Days
<1> QED BY <1>1, <1>2

Meters ==
    /\ produced \in Nat /\ exported \in Nat /\ DOMAIN real = Days
    /\ \A d \in Days : DOMAIN real[d] = {"on", "self", "wasted", "produced", "exported"}
    /\ \A r \in meter : r.at <= LastFlush

\* What the period under way may have brought, but for the time it is late.
Brought == Peak * (since - Over)

Booked(rows, T, c, d) ==
    Books(rows, T, c, d, Day(clock), Brought, upsets, Peak * flushS, Peak * late)

Balance ==
    \A d \in Days :
       /\ Booked(Productions(d), real[d].produced, produced, d)
       /\ Booked(Exports(d), real[d].exported, exported, d)

TodayInv == Types /\ Meters /\ Balance

LEMMA TodayFacts ==
    ASSUME Types
    PROVE  /\ Day(clock) \in Days /\ upsets \in Nat /\ clock \in Nat
           /\ Brought \in Nat /\ Peak * flushS \in Nat /\ Peak * late \in Nat
           /\ Brought <= Peak * flushS
<1>1. /\ clock \in Nat /\ flushS \in Nat /\ since \in Nat /\ late \in Nat /\ Peak \in Nat
  BY PeriodsNow, PeakIsMost
<1>2. PICK w \in Nat, f \in Nat : w = since - Over /\ f = flushS /\ w <= f
  <2>1. since - Over \in Nat /\ since - Over <= flushS
    BY <1>1 DEF Over
  <2> QED BY <1>1, <2>1
<1>3. /\ Brought \in Nat /\ Peak * flushS \in Nat /\ Peak * late \in Nat
      /\ Brought <= Peak * flushS
  BY <1>1, <1>2, Product DEF Brought
<1>4. Day(clock) \in Days /\ upsets \in Nat
  BY Constants DEF Types, Numbers, Day, Days
<1> QED BY <1>1, <1>3, <1>4

LEMMA BroughtType == Types => Brought \in Nat /\ Peak * late \in Nat /\ Brought <= Peak * flushS
  BY TodayFacts

\* A tick brings Peak at most, to the period or to the time it is late.
LEMMA BroughtElapses ==
    ASSUME Types, Elapse
    PROVE  /\ Brought <= Brought' /\ Peak * late <= Peak * late'
           /\ Brought' + Peak * late' = Brought + Peak * late + Peak
<1>1. /\ flushS \in Nat /\ since \in Nat /\ late \in Nat /\ Peak \in Nat
      /\ since' = since + 1 /\ flushS' = flushS
      /\ \/ since < flushS /\ late' = late
         \/ since >= flushS /\ late' = late + 1
  BY PeriodsNow, PeakIsMost DEF Elapse, Asleep, Late
<1>2. PICK s \in Nat, f \in Nat, l \in Nat : s = since /\ f = flushS /\ l = late
  BY <1>1
<1>3. PICK w \in Nat, y \in Nat, m \in Nat :
         /\ w = since - Over /\ y = since' - Over' /\ m = late'
         /\ \/ y = w + 1 /\ m = l
            \/ y = w /\ m = l + 1
  <2>1. /\ since - Over = (IF s > f THEN f ELSE s)
        /\ since' - Over' = (IF s + 1 > f THEN f ELSE s + 1)
    BY <1>1, <1>2 DEF Over
  <2> QED BY <1>1, <1>2, <2>1
<1>4. /\ Peak * (w + 1) = Peak * w + Peak /\ Peak * (l + 1) = Peak * l + Peak
      /\ Peak * w \in Nat /\ Peak * l \in Nat
  BY <1>1, Product
<1>5. Brought = Peak * w /\ Brought' = Peak * y
  BY <1>3 DEF Brought
<1>6. CASE y = w + 1 /\ m = l
  BY <1>1, <1>2, <1>3, <1>4, <1>5, <1>6
<1>7. CASE y = w /\ m = l + 1
  BY <1>1, <1>2, <1>3, <1>4, <1>5, <1>7
<1> QED BY <1>3, <1>6, <1>7

LEMMA InitToday == Init => TodayInv
<1> SUFFICES ASSUME Init PROVE TodayInv
  OBVIOUS
<1>1. Types
  BY InitTypes
<1>2. meter = {} /\ produced = 0 /\ exported = 0
  BY Zenon DEF Init
<1>3. real = [d \in Days |-> [on |-> 0, self |-> 0, wasted |-> 0, produced |-> 0, exported |-> 0]]
  BY Zenon DEF Init
<1>4. Meters
  BY <1>2, <1>3 DEF Meters
<1>5. \A d \in Days : /\ Productions(d) = {} /\ Exports(d) = {}
                      /\ real[d].produced = 0 /\ real[d].exported = 0
  BY <1>2, <1>3 DEF Productions, Exports
<1>6. \A d \in Days : Booked({}, 0, 0, d)
  <2> SUFFICES ASSUME NEW d \in Days PROVE Booked({}, 0, 0, d)
    OBVIOUS
  <2>1. Tally({}, 0, 0, Brought, upsets, Peak * flushS, Peak * late)
    BY <1>1, TodayFacts, TallyOpens
  <2>2. Closed({}, 0, upsets, Peak * flushS, Peak * late)
    <3>1. upsets + 2 \in Nat /\ Peak * flushS \in Nat /\ Peak * late \in Nat
      BY <1>1, TodayFacts
    <3>2. (Peak * flushS) * (upsets + 2) \in Nat
      BY <3>1, Product
    <3> QED BY <3>1, <3>2, NoRows DEF Closed
  <2> QED BY <2>1, <2>2, NoRows DEF Booked, Books
<1>7. Balance
  BY <1>2, <1>5, <1>6 DEF Balance
<1> QED BY <1>1, <1>4, <1>7 DEF TodayInv

LEMMA TodayKept ==
    ASSUME TodayInv, UNCHANGED <<timeVars, meter, real, exported>>,
           \/ UNCHANGED <<upsets, produced>>
           \/ upsets' = upsets + 1 /\ produced' \in {0, produced}
    PROVE  Meters' /\ Balance'
<1>1. /\ Types /\ Meters /\ Balance /\ LastFlush' = LastFlush
      /\ UNCHANGED <<clock, flushS, late, Brought>>
  BY SameFlush DEF TodayInv, timeVars, Brought, Over
<1>2. Meters'
  BY <1>1 DEF Meters
<1>3. ASSUME NEW d \in Days
      PROVE  /\ Productions(d)' = Productions(d) /\ Exports(d)' = Exports(d)
             /\ Day(clock)' = Day(clock)
  BY <1>1 DEF Productions, Exports, Day
<1>4. ASSUME NEW rows, NEW T, NEW c \in Nat, NEW b \in Nat, b \in {0, c}, NEW d \in Days,
             Booked(rows, T, c, d), upsets' = upsets + 1
      PROVE  Books(rows, T, b, d, Day(clock), Brought, upsets', Peak * flushS, Peak * late)
  <2>1. /\ Day(clock) \in Days /\ Brought \in Nat /\ upsets \in Nat
        /\ Peak * flushS \in Nat /\ Peak * late \in Nat
    BY <1>1, TodayFacts
  <2>2. PICK today \in Days, e \in Nat, n \in Nat, F \in Nat, Z \in Nat :
           /\ today = Day(clock) /\ e = Brought /\ n = upsets /\ F = Peak * flushS
           /\ Z = Peak * late
    BY <2>1
  <2> PICK m \in Nat : m = n + 1
    OBVIOUS
  <2>3. Books(rows, T, c, d, today, e, n, F, Z)
    BY <1>4, <2>2 DEF Booked
  <2>4. Books(rows, T, b, d, today, e, m, F, Z)
    BY <1>4, <2>3, BooksDisturbed
  <2> QED BY <1>4, <2>2, <2>4
<1>5. ASSUME NEW d \in Days
      PROVE  /\ Books(Productions(d)', real'[d].produced, produced', d, Day(clock)',
                      Brought', upsets', Peak * flushS', Peak * late')
             /\ Books(Exports(d)', real'[d].exported, exported', d, Day(clock)',
                      Brought', upsets', Peak * flushS', Peak * late')
  <2>1. /\ Booked(Productions(d), real[d].produced, produced, d)
        /\ Booked(Exports(d), real[d].exported, exported, d)
        /\ produced \in Nat /\ exported \in Nat
    BY <1>1 DEF Balance, Meters
  <2>2. CASE UNCHANGED <<upsets, produced>>
    BY <1>1, <1>3, <2>1, <2>2 DEF Booked
  <2>3. CASE upsets' = upsets + 1 /\ produced' \in {0, produced}
    <3>1. exported \in {0, exported}
      OBVIOUS
    <3>2. /\ Books(Productions(d), real[d].produced, produced', d, Day(clock),
                   Brought, upsets', Peak * flushS, Peak * late)
          /\ Books(Exports(d), real[d].exported, exported, d, Day(clock),
                   Brought, upsets', Peak * flushS, Peak * late)
      BY <1>4, <2>1, <2>3, <3>1
    <3> QED BY <1>1, <1>3, <3>2
  <2> QED BY <2>2, <2>3
<1>6. Balance'
  BY <1>5 DEF Balance, Booked
<1> QED BY <1>2, <1>6

LEMMA TodayElapses ==
    ASSUME TodayInv, Elapse
    PROVE  Meters' /\ Balance'
<1>1. /\ Types /\ Meters /\ Balance
      /\ LastFlush' = LastFlush /\ LastFlush \in Int /\ LastFlush <= clock
  BY ElapseOnTime, PeriodsNow DEF TodayInv
<1> DEFINE p == headroom + House
           q == Export
<1>2. /\ clock' = clock + 1 /\ UNCHANGED <<flushS, upsets, meter>>
      /\ produced' = produced + p /\ exported' = exported + q
  <2>1. produced' = produced + headroom + House /\ headroom \in Int /\ House \in Int
        /\ produced \in Nat
    BY <1>1, PeakIsMost, ViewsAssumption DEF Elapse, Types, Numbers, Meters
  <2> QED BY <2>1 DEF Elapse, tables
<1>3. p \in 0..Peak /\ q \in 0..Peak
  <2>1. headroom \in Int /\ p \in 0..Peak /\ House \in Nat /\ Nominal \in Nat /\ Peak \in Nat
    BY <1>1, PeakIsMost, ViewsAssumption DEF Types, Numbers
  <2>2. Surplus \in Int /\ Surplus <= headroom
    BY <2>1 DEF Surplus
  <2> QED BY <2>1, <2>2 DEF Export
<1>4. /\ DOMAIN real' = Days
      /\ \A d \in Days :
           /\ DOMAIN real'[d] = {"on", "self", "wasted", "produced", "exported"}
           /\ real'[d].produced = IF d = Day(clock) THEN real[d].produced + p ELSE real[d].produced
           /\ real'[d].exported = IF d = Day(clock) THEN real[d].exported + q ELSE real[d].exported
  <2>1. Day(clock) \in Days
    BY DEF Day, Days
  <2>2. \A d \in Days : real[d].produced \in Nat /\ real[d].exported \in Nat
    BY <1>1 DEF Balance, Booked, Books
  <2>3. /\ DOMAIN real' = DOMAIN real
        /\ \A d \in Days :
             /\ DOMAIN real'[d] = {"on", "self", "wasted", "produced", "exported"}
             /\ real'[d].produced = IF d = Day(clock) THEN real[d].produced + headroom + House
                                    ELSE real[d].produced
             /\ real'[d].exported = IF d = Day(clock) THEN real[d].exported + q ELSE real[d].exported
    <3> HIDE DEF q
    <3> QED BY <1>1, <2>1 DEF Elapse, Meters, q
  <2>4. headroom \in Int /\ House \in Int
    BY <1>1, PeakIsMost, ViewsAssumption DEF Types, Numbers
  <2> HIDE DEF q
  <2> QED BY <1>1, <2>2, <2>3, <2>4 DEF Meters
<1> HIDE DEF p, q
<1>5. Meters'
  BY <1>1, <1>2, <1>3, <1>4, PeakIsMost DEF Meters
<1>6. Day(clock') \in Days /\ Day(clock) <= Day(clock')
  BY <1>1, <1>2, TodayFacts, Constants DEF Day, Days
<1>7. /\ Brought <= Brought' /\ Peak * late <= Peak * late'
      /\ Brought' + Peak * late' = Brought + Peak * late + Peak
      /\ Brought' \in Nat /\ Peak * late' \in Nat /\ Brought' <= Peak * flushS
      /\ Peak * flushS' = Peak * flushS
  <2>1. Types'
    BY <1>1, NextTypes DEF Next
  <2>2. Brought' \in Nat /\ Peak * late' \in Nat /\ Brought' <= Peak * flushS'
    <3>1. (Types => Brought \in Nat /\ Peak * late \in Nat /\ Brought <= Peak * flushS)'
      BY BroughtType, PTL
    <3> QED BY <2>1, <3>1
  <2>3. /\ Brought <= Brought' /\ Peak * late <= Peak * late'
        /\ Brought' + Peak * late' = Brought + Peak * late + Peak
    BY <1>1, BroughtElapses
  <2>4. flushS' = flushS
    BY <1>2
  <2> QED BY <2>2, <2>3, <2>4
<1>8. ASSUME NEW d \in Days
      PROVE  /\ Books(Productions(d)', real'[d].produced, produced', d, Day(clock'),
                      Brought', upsets', Peak * flushS', Peak * late')
             /\ Books(Exports(d)', real'[d].exported, exported', d, Day(clock'),
                      Brought', upsets', Peak * flushS', Peak * late')
  <2>1. /\ Booked(Productions(d), real[d].produced, produced, d)
        /\ Booked(Exports(d), real[d].exported, exported, d)
        /\ produced \in Nat /\ exported \in Nat
    BY <1>1 DEF Balance, Meters
  <2>2. Productions(d)' = Productions(d) /\ Exports(d)' = Exports(d)
    BY <1>2 DEF Productions, Exports, Day
  <2>3. /\ Day(clock) \in Days /\ Brought \in Nat /\ upsets \in Nat
        /\ Peak * flushS \in Nat /\ Peak * late \in Nat
    BY <1>1, TodayFacts
  <2>4. PICK today \in Days, morrow \in Days, n \in Nat, F \in Nat :
           /\ today = Day(clock) /\ morrow = Day(clock') /\ n = upsets /\ F = Peak * flushS
           /\ today <= morrow
    BY <1>6, <2>3
  <2>z. PICK e \in Nat, h \in Nat, Z \in Nat, Y \in Nat :
           /\ e = Brought /\ h = Brought' /\ Z = Peak * late /\ Y = Peak * late'
           /\ e <= h /\ h <= F /\ Z <= Y /\ h + Y = e + Z + Peak
    BY <1>7, <2>3, <2>4
  <2>5. ASSUME NEW rows, NEW T \in Nat, NEW U, NEW c \in Nat, NEW b, NEW x \in 0..Peak,
               Booked(rows, T, c, d), b = c + x, U = IF d = today THEN T + x ELSE T
        PROVE  Books(rows, U, b, d, Day(clock'), Brought', upsets', Peak * flushS', Peak * late')
    <3>1. Books(rows, T, c, d, today, e, n, F, Z)
      BY <2>4, <2>z, <2>5 DEF Booked
    <3>2. x \in Nat /\ x <= Peak
      BY PeakIsMost
    <3>3. PICK v \in Nat, a \in Nat, y \in Nat :
             /\ y = x /\ y <= Peak /\ a = c + y /\ v = IF d = today THEN T + y ELSE T
      BY <3>2
    <3>4. Books(rows, v, a, d, morrow, h, n, F, Y)
      BY <2>4, <2>z, <3>1, <3>3, BooksElapse
    <3>5. a = b /\ v = U
      BY <2>4, <2>5, <3>3
    <3> QED BY <1>2, <1>7, <2>4, <2>z, <3>4, <3>5
  <2>6. /\ Books(Productions(d), real'[d].produced, produced', d, Day(clock'),
                 Brought', upsets', Peak * flushS', Peak * late')
        /\ Books(Exports(d), real'[d].exported, exported', d, Day(clock'),
                 Brought', upsets', Peak * flushS', Peak * late')
    <3>1. /\ real'[d].produced = IF d = today THEN real[d].produced + p ELSE real[d].produced
          /\ real'[d].exported = IF d = today THEN real[d].exported + q ELSE real[d].exported
      BY <1>4, <2>4
    <3>2. real[d].produced \in Nat /\ real[d].exported \in Nat
      BY <2>1 DEF Booked, Books
    <3> QED BY <1>2, <1>3, <2>1, <2>5, <3>1, <3>2
  <2> QED BY <2>2, <2>6
<1>9. Balance'
  <2>1. Day(clock)' = Day(clock')
    BY DEF Day
  <2> QED BY <1>8, <2>1 DEF Balance, Booked
<1> QED BY <1>5, <1>9

\* A flush writes a counter's row, and if it is an upset too, or does not and is one.
LEMMA FlushWrites ==
    ASSUME Types, NEW d \in Days, NEW rows, NEW T \in Nat, NEW c \in Nat,
           Booked(rows, T, c, d), \A r \in rows : r.at < clock,
           NEW more, more = IF d = Day(clock) THEN rows \union {[at |-> clock, count |-> c]} ELSE rows
    PROVE  /\ Books(more, T, c, d, Day(clock), 0, upsets, Peak * flushS, Peak * late)
           /\ Books(more, T, c, d, Day(clock), 0, upsets + 1, Peak * flushS, Peak * late)
           /\ Books(rows, T, c, d, Day(clock), 0, upsets + 1, Peak * flushS, Peak * late)
<1>1. /\ Day(clock) \in Days /\ Brought \in Nat /\ upsets \in Nat /\ clock \in Nat
      /\ Peak * flushS \in Nat /\ Peak * late \in Nat /\ Brought <= Peak * flushS
  BY TodayFacts
<1>2. PICK today \in Days, at \in Nat, n \in Nat, e \in Nat, F \in Nat, Z \in Nat :
         /\ today = Day(clock) /\ at = clock /\ n = upsets /\ e = Brought /\ F = Peak * flushS
         /\ Z = Peak * late /\ e <= F
  BY <1>1
<1> PICK m \in Nat : m = n + 1
  OBVIOUS
<1> PICK z \in Nat : z = 0
  OBVIOUS
<1>3. Books(rows, T, c, d, today, e, n, F, Z)
  BY <1>1, <1>2 DEF Booked
<1>4. Books(more, T, c, d, today, 0, n, F, Z)
  BY <1>2, <1>3, BooksWritten
<1>5. Books(more, T, c, d, today, 0, m, F, Z)
  <2>1. Books(more, T, c, d, today, z, n, F, Z)
    BY <1>4
  <2>2. Books(more, T, c, d, today, z, m, F, Z)
    BY <2>1, BooksDisturbed
  <2> QED BY <2>2
<1>6. Books(rows, T, c, d, today, 0, m, F, Z)
  BY <1>2, <1>3, BooksLost
<1> QED BY <1>2, <1>4, <1>5, <1>6

LEMMA RowsFlushed ==
    ASSUME NULL \notin Int, produced \in Nat, clock' = clock, NEW d \in Days,
           NEW made, made = [at |-> clock, count |-> produced],
           NEW sold, sold = [at |-> clock, count |-> exported]
    PROVE  /\ meter' = meter => Productions(d)' = Productions(d) /\ Exports(d)' = Exports(d)
           /\ \A production \in {produced, NULL} :
                meter' = meter \union {MeterRow(production)}
                => Exports(d)' = IF d = Day(clock) THEN Exports(d) \union {sold} ELSE Exports(d)
           /\ meter' = meter \union {MeterRow(NULL)} => Productions(d)' = Productions(d)
           /\ meter' = meter \union {MeterRow(produced)}
              => Productions(d)' = IF d = Day(clock) THEN Productions(d) \union {made}
                                   ELSE Productions(d)
<1>1. /\ Productions(d)' = {[at |-> r.at, count |-> r.produced] :
                               r \in {s \in meter' : Day(s.at) = d /\ s.produced # NULL}}
      /\ Exports(d)' = {[at |-> r.at, count |-> r.exported] : r \in {s \in meter' : Day(s.at) = d}}
  BY DEF Productions, Exports, Day
<1>2. meter' = meter => Productions(d)' = Productions(d) /\ Exports(d)' = Exports(d)
  BY <1>1 DEF Productions, Exports
<1>3. ASSUME NEW production, meter' = meter \union {MeterRow(production)}
      PROVE  Exports(d)' = IF d = Day(clock) THEN Exports(d) \union {sold} ELSE Exports(d)
  <2> DEFINE row == MeterRow(production)
  <2>1. row.at = clock /\ row.exported = exported
    BY DEF MeterRow
  <2> HIDE DEF row
  <2>2. {s \in meter' : Day(s.at) = d}
          = {s \in meter : Day(s.at) = d} \union (IF d = Day(clock) THEN {row} ELSE {})
    BY <1>3, <2>1 DEF row
  <2> QED BY <1>1, <2>1, <2>2 DEF Exports
<1>4. ASSUME NEW production, meter' = meter \union {MeterRow(production)}
      PROVE  Productions(d)' = IF d = Day(clock) /\ production # NULL
                               THEN Productions(d) \union {[at |-> clock, count |-> production]}
                               ELSE Productions(d)
  <2> DEFINE row == MeterRow(production)
  <2>1. row.at = clock /\ row.produced = production
    BY DEF MeterRow
  <2> HIDE DEF row
  <2>2. {s \in meter' : Day(s.at) = d /\ s.produced # NULL}
          = {s \in meter : Day(s.at) = d /\ s.produced # NULL}
            \union (IF d = Day(clock) /\ production # NULL THEN {row} ELSE {})
    BY <1>4, <2>1 DEF row
  <2> QED BY <1>1, <2>1, <2>2 DEF Productions
<1>5. produced # NULL
  OBVIOUS
<1> QED BY <1>2, <1>3, <1>4, <1>5

LEMMA TodayFlushes ==
    ASSUME TodayInv, Flush
    PROVE  Meters' /\ Balance'
<1>1. /\ Types /\ Meters /\ Balance /\ Brought' = 0 /\ late' = late
      /\ LastFlush' = clock /\ LastFlush < clock /\ LastFlush \in Int /\ clock \in Nat
      /\ clock' = clock /\ flushS' = flushS /\ produced' = produced /\ exported' = exported
      /\ real' = real
  <2>1. /\ clock' = clock /\ flushS' = flushS /\ produced' = produced /\ exported' = exported
        /\ real' = real
    BY Zenon DEF Flush
  <2>2. Types /\ Meters /\ Balance
    BY DEF TodayInv
  <2>3. clock \in Nat /\ flushS \in Nat /\ flushS > 0 /\ LastFlush \in Nat
    BY <2>2, PeriodsNow
  <2>4. LastFlush + flushS <= clock /\ LastFlush' = clock
    BY <2>2, FlushOnTime
  <2>5. Brought' = 0 /\ late' = late
    <3>1. since' = 0 /\ flushS' = flushS /\ late' = late
      BY DEF Flush
    <3>2. since' - Over' = 0
      <4>1. Over' = IF since' > flushS' THEN since' - flushS' ELSE 0
        BY DEF Over
      <4>2. flushS' \in Nat /\ ~(0 > flushS')
        BY <2>3, <3>1
      <4>3. Over' = 0
        BY <3>1, <4>1, <4>2, Zenon
      <4> QED BY <3>1, <4>3
    <3> QED BY <3>1, <3>2, PeakIsMost, Product DEF Brought
  <2> QED BY <2>1, <2>2, <2>3, <2>4, <2>5
<1>2. \A r \in meter : r.at \in Nat /\ r.at < clock
  BY <1>1 DEF Meters, Types, Stamped
<1>3. \/ /\ meter' = meter \union {MeterRow(produced)}
         /\ upsets' = upsets \/ upsets' = upsets + 1
      \/ meter' = meter \union {MeterRow(NULL)} /\ upsets' = upsets + 1
      \/ meter' = meter /\ upsets' = upsets + 1
  BY Zenon DEF Flush, Upset
<1>4. Meters'
  <2>1. MeterRow(produced).at = clock /\ MeterRow(NULL).at = clock
    BY DEF MeterRow
  <2>2. \A r \in meter' : r.at <= clock
    BY <1>1, <1>2, <1>3, <2>1
  <2> QED BY <1>1, <2>2 DEF Meters
<1>5. ASSUME NEW d \in Days
      PROVE  /\ Books(Productions(d)', real[d].produced, produced, d, Day(clock), 0, upsets',
                      Peak * flushS, Peak * late)
             /\ Books(Exports(d)', real[d].exported, exported, d, Day(clock), 0, upsets',
                      Peak * flushS, Peak * late)
  <2> DEFINE made == [at |-> clock, count |-> produced]
             sold == [at |-> clock, count |-> exported]
             P == Productions(d)
             E == Exports(d)
             PM == IF d = Day(clock) THEN P \union {made} ELSE P
             EM == IF d = Day(clock) THEN E \union {sold} ELSE E
  <2>1. /\ Booked(P, real[d].produced, produced, d) /\ Booked(E, real[d].exported, exported, d)
        /\ produced \in Nat /\ exported \in Nat
    BY <1>1 DEF Balance, Meters
  <2>2. real[d].produced \in Nat /\ real[d].exported \in Nat
    BY <2>1 DEF Booked, Books
  <2>3. /\ \A r \in P : r.at < clock
        /\ \A r \in E : r.at < clock
    BY <1>2 DEF Productions, Exports
  <2>4. /\ Books(PM, real[d].produced, produced, d, Day(clock), 0, upsets, Peak * flushS, Peak * late)
        /\ Books(PM, real[d].produced, produced, d, Day(clock), 0, upsets + 1, Peak * flushS, Peak * late)
        /\ Books(P, real[d].produced, produced, d, Day(clock), 0, upsets + 1, Peak * flushS, Peak * late)
    <3> HIDE DEF P
    <3> QED BY <1>1, <2>1, <2>2, <2>3, FlushWrites
  <2>5. /\ Books(EM, real[d].exported, exported, d, Day(clock), 0, upsets, Peak * flushS, Peak * late)
        /\ Books(EM, real[d].exported, exported, d, Day(clock), 0, upsets + 1, Peak * flushS, Peak * late)
        /\ Books(E, real[d].exported, exported, d, Day(clock), 0, upsets + 1, Peak * flushS, Peak * late)
    <3> HIDE DEF E
    <3> QED BY <1>1, <2>1, <2>2, <2>3, FlushWrites
  <2>6. \/ Productions(d)' = PM /\ Exports(d)' = EM /\ (upsets' = upsets \/ upsets' = upsets + 1)
        \/ Productions(d)' = P /\ Exports(d)' = EM /\ upsets' = upsets + 1
        \/ Productions(d)' = P /\ Exports(d)' = E /\ upsets' = upsets + 1
    BY <1>1, <1>3, <2>1, RowsFlushed, ViewsAssumption
  <2> HIDE DEF P, E, PM, EM
  <2> QED BY <2>4, <2>5, <2>6
<1>7. ASSUME NEW d \in Days
      PROVE  /\ Books(Productions(d)', real'[d].produced, produced', d, Day(clock)',
                      Brought', upsets', Peak * flushS', Peak * late')
             /\ Books(Exports(d)', real'[d].exported, exported', d, Day(clock)',
                      Brought', upsets', Peak * flushS', Peak * late')
  <2>1. Day(clock)' = Day(clock)
    BY <1>1 DEF Day
  <2> QED BY <1>1, <1>5, <2>1
<1>8. Balance'
  BY <1>7 DEF Balance, Booked
<1> QED BY <1>4, <1>8

LEMMA NextToday == TodayInv /\ [Next]_vars => TodayInv'
<1> SUFFICES ASSUME TodayInv, [Next]_vars PROVE TodayInv'
  OBVIOUS
<1>1. Types /\ Meters /\ Balance
  BY DEF TodayInv
<1>2. Types'
  BY <1>1, NextTypes
<1>3. CASE Elapse
  BY <1>1, <1>2, <1>3, TodayElapses DEF TodayInv
<1>4. CASE Flush
  BY <1>1, <1>2, <1>4, TodayFlushes DEF TodayInv
<1>5. CASE ~Elapse /\ ~Flush
  <2>1. /\ UNCHANGED <<timeVars, meter, real, exported>>
        /\ \/ UNCHANGED <<upsets, produced>>
           \/ upsets' = upsets + 1 /\ produced' \in {0, produced}
    <3>1. /\ UNCHANGED <<timeVars, meter, real, exported>>
          /\ \/ UNCHANGED <<upsets, produced>>
             \/ upsets' = upsets + 1 /\ produced' = 0
             \/ upsets' = upsets + 1 /\ produced' = produced
      BY <1>5, Zenon DEF Next, Switch, SwitchFails, Flip, Reconcile, Poll, Weather, CounterReset,
                         Upset, vars, plantVars, moveVars, tables
    <3> QED BY <3>1
  <2> QED BY <1>1, <1>2, <2>1, TodayKept DEF TodayInv
<1> QED BY <1>3, <1>4, <1>5

LEMMA TodayRight == TodayInv => TodayIsReal
<1> SUFFICES ASSUME TodayInv, NEW d \in Days
             PROVE  LET slack == Peak * (flushS * (upsets + 2) + late)
                    IN /\ real[d].produced - slack <= ProducedOn(d)
                       /\ ProducedOn(d) <= real[d].produced
                       /\ real[d].exported - slack <= ExportedOn(d)
                       /\ ExportedOn(d) <= real[d].exported
  BY DEF TodayIsReal, Peak
<1>1. Types /\ Meters /\ Balance
  BY DEF TodayInv
<1>2. /\ Day(clock) \in Days /\ upsets \in Nat /\ flushS \in Nat /\ late \in Nat /\ Peak \in Nat
      /\ Brought \in Nat /\ Peak * flushS \in Nat /\ Peak * late \in Nat
      /\ Brought <= Peak * flushS
  BY <1>1, TodayFacts, PeriodsNow, PeakIsMost
<1> DEFINE slack == Peak * (flushS * (upsets + 2) + late)
<1>3. ASSUME NEW rows, NEW T \in Nat, NEW c \in Nat, Booked(rows, T, c, d)
      PROVE  PositiveDeltas(rows) <= T /\ T - slack <= PositiveDeltas(rows)
  <2>1. PICK today \in Days, e \in Nat, n \in Nat, F \in Nat, Z \in Nat :
           /\ today = Day(clock) /\ e = Brought /\ n = upsets /\ F = Peak * flushS
           /\ Z = Peak * late /\ e <= F
    BY <1>2
  <2>2. Books(rows, T, c, d, today, e, n, F, Z)
    BY <1>3, <2>1 DEF Booked
  <2>3. Sound(rows) /\ PositiveDeltas(rows) \in Nat
    BY <2>2, SoundType DEF Books
  <2>4. Closed(rows, T, n, F, Z)
    <3>1. CASE d = today
      BY <2>1, <2>2, <2>3, <3>1, TallyCloses DEF Books
    <3>2. CASE d < today
      BY <2>2, <3>2 DEF Books
    <3>3. CASE d > today
      <4>1. rows = {} /\ T = 0
        BY <2>2, <3>3 DEF Books
      <4>2. PositiveDeltas(rows) = 0
        BY <4>1, NoRows, Zenon
      <4>3. n + 2 \in Nat /\ F * (n + 2) \in Nat
        BY Product
      <4> QED BY <4>1, <4>2, <4>3 DEF Closed
    <3> QED BY <3>1, <3>2, <3>3 DEF Days
  <2>5. PICK z \in Nat : z = F * (n + 2)
    BY Product
  <2>6. z + Z = slack
    <3>1. PICK f \in Nat, l \in Nat, P \in Nat : f = flushS /\ l = late /\ P = Peak
      BY <1>2
    <3>2. (P * f) * (n + 2) + P * l = P * (f * (n + 2) + l)
      BY SMT
    <3> QED BY <2>1, <2>5, <3>1, <3>2
  <2>7. PositiveDeltas(rows) <= T /\ T <= PositiveDeltas(rows) + z + Z
    BY <2>4, <2>5 DEF Closed
  <2>8. T - (z + Z) <= PositiveDeltas(rows)
    BY <2>3, <2>7
  <2> QED BY <2>6, <2>7, <2>8
<1> HIDE DEF slack
<1>4. /\ Booked(Productions(d), real[d].produced, produced, d)
      /\ Booked(Exports(d), real[d].exported, exported, d)
      /\ produced \in Nat /\ exported \in Nat
  BY <1>1 DEF Balance, Meters
<1>5. real[d].produced \in Nat /\ real[d].exported \in Nat
  BY <1>4 DEF Booked, Books
<1>6. /\ real[d].produced - slack <= ProducedOn(d) /\ ProducedOn(d) <= real[d].produced
      /\ real[d].exported - slack <= ExportedOn(d) /\ ExportedOn(d) <= real[d].exported
  BY <1>3, <1>4, <1>5 DEF ProducedOn, ExportedOn
<1> QED BY <1>6 DEF slack

\* Today's balance is today's, whatever the weather did, however often the inverter
\* lost its counter, and whichever rows are missing: no more than there was, and no
\* less but a flush a disturbance, one at either end, and what the flushes took of
\* the time themselves (today_summary).
THEOREM BalanceIsReal == Spec => []TodayIsReal
<1>1. Spec => []TodayInv
  BY InitToday, NextToday, PTL DEF Spec
<1> QED BY <1>1, TodayRight, PTL

=============================================================================
