-------------------------- MODULE LiveState_proofs --------------------------
(***************************************************************************)
(* Proofs about LiveState for every value of its constants: what /state    *)
(* shows is as recent as the controller takes it to be.                    *)
(***************************************************************************)
EXTENDS LiveState, TLAPS

\* A stamp by the wall clock understates an age by what the clock was set back.
StampsHonest ==
    /\ shmAge # NULL => -shmBack <= shmAge /\ metered <= shmAge + shmBack
    /\ productionAge # NULL =>
          -sunBack <= productionAge /\ produced <= productionAge + sunBack

\* The view is wrong only between a switch and the poll after it.
ViewLags ==
    reachable = TRUE /\ shellyOn # relay => rested = 0 \/ (rested = 1 /\ ~polled)

LInv == TypeOK /\ StampsHonest /\ ViewLags

LEMMA BoundsAreInts ==
    /\ MaxStep \in Nat /\ StaleLimit \in Nat /\ FreshFor \in Nat /\ RecvTimeout \in Nat
    /\ Older \in Nat /\ Oldest \in Nat
    /\ Older = StaleLimit + MaxStep + 1 /\ Oldest = FreshFor + MaxStep + 1
    /\ NULL \notin Int /\ NULL # TRUE /\ NULL # FALSE
<1>1. NULL \notin Int /\ NULL \notin BOOLEAN
    BY LiveStateAssumption
<1>2. NULL # TRUE /\ NULL # FALSE
    BY <1>1, Zenon
<1>3. Older = StaleLimit + MaxStep + 1 /\ Oldest = FreshFor + MaxStep + 1
    BY DEF Older, Oldest
<1>4. MaxStep \in Nat /\ StaleLimit \in Nat /\ FreshFor \in Nat /\ RecvTimeout \in Nat
    BY LiveStateAssumption
<1>5. Older \in Nat /\ Oldest \in Nat
    BY <1>3, <1>4
<1> QED BY <1>1, <1>2, <1>3, <1>4, <1>5, Zenon

LEMMA LInit == Init => LInv
<1>1. SUFFICES ASSUME Init PROVE LInv
    OBVIOUS
<1>2. TypeOK
    <2>1. metered \in 0..Older /\ produced \in 0..Oldest /\ quiet \in 0..RecvTimeout
        BY <1>1, BoundsAreInts DEF Init, Unknown
    <2>2. shmBack \in 0..MaxStep /\ sunBack \in 0..MaxStep /\ rested \in 0..2
        BY <1>1, BoundsAreInts DEF Init
    <2>3. polled \in BOOLEAN /\ up \in BOOLEAN /\ relay \in BOOLEAN
        BY <1>1 DEF Init
    <2>4. /\ shellyOn \in BOOLEAN \union {NULL} /\ reachable \in BOOLEAN \union {NULL}
          /\ shmAge \in (-MaxStep..Older) \union {NULL}
          /\ productionAge \in (-MaxStep..Oldest) \union {NULL}
        BY <1>1 DEF Init, Unknown
    <2> QED BY <1>1, <2>1, <2>2, <2>3, <2>4 DEF TypeOK, Init, Unknown
<1>3. StampsHonest
    BY <1>1 DEF Init, Unknown, StampsHonest
<1>4. ViewLags
    BY <1>1, BoundsAreInts DEF Init, Unknown, ViewLags
<1> QED BY <1>2, <1>3, <1>4 DEF LInv

LEMMA LTick == LInv /\ Tick => LInv'
<1>1. SUFFICES ASSUME LInv, Tick PROVE LInv'
    OBVIOUS
<1> USE BoundsAreInts
<1>2. TypeOK'
    <2>1. /\ metered' \in 0..Older /\ produced' \in 0..Oldest
          /\ quiet' \in 0..RecvTimeout /\ rested' \in 0..2
        BY <1>1 DEF LInv, TypeOK, Tick, Aged
    <2>2. shmAge' \in (-MaxStep..Older) \union {NULL}
        BY <1>1 DEF LInv, TypeOK, Tick, Aged
    <2>3. productionAge' \in (-MaxStep..Oldest) \union {NULL}
        BY <1>1 DEF LInv, TypeOK, Tick, Aged
    <2> QED BY <1>1, <2>1, <2>2, <2>3 DEF LInv, TypeOK, Tick
<1>3. StampsHonest'
    BY <1>1 DEF LInv, TypeOK, StampsHonest, Tick, Aged
<1>4. ViewLags'
    BY <1>1 DEF LInv, TypeOK, ViewLags, Tick, Aged
<1> QED BY <1>2, <1>3, <1>4 DEF LInv

LEMMA LStep == LInv /\ [Next]_vars => LInv'
<1>1. SUFFICES ASSUME LInv, [Next]_vars PROVE LInv'
    OBVIOUS
<1> USE BoundsAreInts DEF LInv, TypeOK, StampsHonest, ViewLags
<1>2. CASE Telegram
    BY <1>1, <1>2 DEF Telegram, SetShm, sunVars, relayVars
<1>3. CASE StrayDatagram \/ Timeout \/ RunAgain
    BY <1>1, <1>3 DEF StrayDatagram, Timeout, RunAgain, surplusVars, sunVars, relayVars
<1>4. CASE PollRelay
    BY <1>1, <1>4 DEF PollRelay, SetState, meterVars, surplusVars, sunVars
<1>5. CASE RelayUnreachable
    BY <1>1, <1>5 DEF RelayUnreachable, SetState, meterVars, surplusVars, sunVars
<1>6. CASE PollInverter
    BY <1>1, <1>6 DEF PollInverter, SetProduction, meterVars, surplusVars, relayVars
<1>7. CASE Tick
    BY <1>1, <1>7, LTick
<1>8. CASE SwitchRelay
    BY <1>1, <1>8 DEF SwitchRelay, meterVars, surplusVars, sunVars
<1>9. CASE Deafen
    BY <1>1, <1>9 DEF Deafen, surplusVars, sunVars, relayVars
<1>10. CASE MeterComesAndGoes
    BY <1>1, <1>10 DEF MeterComesAndGoes, meterVars, surplusVars, sunVars, relayVars
<1>11. CASE SetClockBack
    <2>1. ViewLags'
        BY <1>1, <1>11 DEF SetClockBack, relayVars
    <2>4. StampsHonest'
        BY <1>1, <1>11 DEF SetClockBack, Earlier
    <2>2. shmAge' \in (-MaxStep..Older) \union {NULL} /\ shmBack' \in 0..MaxStep
        BY <1>1, <1>11 DEF SetClockBack, Earlier
    <2>3. productionAge' \in (-MaxStep..Oldest) \union {NULL} /\ sunBack' \in 0..MaxStep
        BY <1>1, <1>11 DEF SetClockBack, Earlier
    <2>5. UNCHANGED <<up, socket, quiet, metered, produced>>
          /\ UNCHANGED <<relay, shellyOn, reachable, polled, rested>>
        BY <1>11 DEF SetClockBack, meterVars, relayVars
    <2>6. TypeOK'
        BY <1>1, <2>2, <2>3, <2>5
    <2> QED BY <2>1, <2>4, <2>6
<1>12. CASE Restart
    <2>1. ViewLags'
        <3>1. reachable' # TRUE
            BY <1>12 DEF Restart
        <3> QED BY <3>1
    <2>2. StampsHonest'
        BY <1>12 DEF Restart
    <2>3. TypeOK'
        BY <1>1, <1>12 DEF Restart
    <2> QED BY <2>1, <2>2, <2>3
<1>13. CASE UNCHANGED vars
    BY <1>1, <1>13 DEF vars, meterVars, surplusVars, sunVars, relayVars
<1> QED BY <1>1, <1>2, <1>3, <1>4, <1>5, <1>6, <1>7, <1>8, <1>9, <1>10, <1>11, <1>12, <1>13
        DEF Next, Disturbance

\* The stamps and the view of /state are kept by every step of every thread.
THEOREM LiveInvariance == Spec => []LInv
BY LInit, LStep, PTL DEF Spec

\* Stamps, view and threads keep their types.
THEOREM LiveTypes == Spec => []TypeOK
BY LiveInvariance, PTL DEF LInv

\* What the controller takes for fresh was measured within its limit, but for
\* what the wall clock was set back since (set_shm, _snapshot, normalize_state).
THEOREM FreshnessHonest == Spec => []FreshIsMetered
<1>1. LInv => FreshIsMetered
    BY BoundsAreInts DEF LInv, TypeOK, StampsHonest, FreshIsMetered, Fresh
<1> QED BY <1>1, LiveInvariance, PTL

\* No production older than PRODUCTION_FRESH_S is served, with the same proviso
\* (set_production, _snapshot).
THEOREM ProductionHonest == Spec => []ServedIsProduced
<1>1. LInv => ServedIsProduced
    BY BoundsAreInts DEF LInv, TypeOK, StampsHonest, ServedIsProduced, ProductionServed
<1> QED BY <1>1, LiveInvariance, PTL

\* A relay at rest for two polls is where a reachable /state says (_shelly_cycle).
THEOREM ViewHonest == Spec => []ViewFollows
<1>1. LInv => ViewFollows
    BY DEF LInv, TypeOK, ViewLags, ViewFollows
<1> QED BY <1>1, LiveInvariance, PTL

=============================================================================
