----------------------------- MODULE LiveState -----------------------------
(***************************************************************************)
(* What the energy-exporter shows the controller: the meter thread with    *)
(* its multicast socket, the relay and inverter pollers, and /state, which *)
(* dates the meter's and the inverter's values by the wall clock.          *)
(* Of the values only the relay's position matters; of the others, when    *)
(* they were measured.  A tick is a poll period of both pollers.           *)
(***************************************************************************)
EXTENDS Integers

CONSTANTS
    StaleLimit,   \* STATE_STALE_SECONDS of the controller, in ticks
    FreshFor,     \* PRODUCTION_FRESH_S, in ticks
    RecvTimeout,  \* RECV_TIMEOUT_S, in ticks
    MaxStep,      \* bound: how far the wall clock is set back between two telegrams
    NULL

ASSUME LiveStateAssumption ==
    /\ StaleLimit \in Nat /\ FreshFor \in Nat /\ RecvTimeout \in Nat /\ MaxStep \in Nat
    /\ NULL \notin Int \union BOOLEAN

VARIABLES
    up,          \* does the meter send, and the network carry it?
    socket,      \* "closed"; "joined", or "deaf": its membership was dropped
    quiet,       \* ticks the socket has waited for data, up to RecvTimeout
    shmAge,      \* now - _shm_ts by the wall clock, NULL while there is none
    productionAge,  \* now - _production_ts, as shmAge
    relay,       \* the relay's contact
    shellyOn,    \* shelly_on in /state, NULL while it is missing
    reachable,   \* shelly_reachable in /state
    polled,      \* has the relay poller had its turn in this tick?
    metered,     \* history: ticks since the surplus in /state was measured
    produced,    \* history: ticks since its production was measured
    shmBack,     \* history: ticks the clock was set back since _shm_ts
    sunBack,     \* history: the same since _production_ts
    rested       \* history: ticks the relay has not moved, up to 2

meterVars  == <<socket, quiet>>
surplusVars == <<shmAge, metered, shmBack>>
sunVars    == <<productionAge, produced, sunBack>>
relayVars  == <<relay, shellyOn, reachable, polled, rested>>
vars == <<up, meterVars, surplusVars, sunVars, relayVars>>

Older == StaleLimit + MaxStep + 1   \* bound: ages are counted up to here
Oldest == FreshFor + MaxStep + 1

TypeOK ==
    /\ up \in BOOLEAN
    /\ socket \in {"closed", "joined", "deaf"} /\ quiet \in 0..RecvTimeout
    /\ shmAge \in (-MaxStep..Older) \union {NULL} /\ metered \in 0..Older
    /\ productionAge \in (-MaxStep..Oldest) \union {NULL} /\ produced \in 0..Oldest
    /\ relay \in BOOLEAN
    /\ shellyOn \in BOOLEAN \union {NULL} /\ reachable \in BOOLEAN \union {NULL}
    /\ polled \in BOOLEAN /\ shmBack \in 0..MaxStep /\ sunBack \in 0..MaxStep
    /\ rested \in 0..2

\* What a process that has just started knows.
Unknown ==
    /\ socket = "closed" /\ quiet = 0
    /\ shmAge = NULL /\ productionAge = NULL
    /\ shellyOn = NULL /\ reachable = NULL

Init ==
    /\ Unknown
    /\ up \in BOOLEAN /\ relay \in BOOLEAN
    /\ metered = Older /\ produced = Oldest
    /\ polled = FALSE /\ shmBack = 0 /\ sunBack = 0 /\ rested = 2

-----------------------------------------------------------------------------
(* The meter thread: SmaSpeedwireMeter.run under run_meter_guarded         *)

\* A telegram dated by the meter's clock, which may run ahead.
TelegramByItsClock ==
    /\ up /\ socket = "joined"
    /\ quiet' = 0 /\ shmAge' = -(MaxStep + 1)
    /\ metered' = 0 /\ shmBack' = 0
    /\ UNCHANGED <<up, socket, sunVars, relayVars>>

\* set_shm stamps, and it alone.
SetShm == shmAge' = 0 /\ metered' = 0 /\ shmBack' = 0

\* on_meter_reading of a telegram.
Telegram ==
    /\ up /\ socket = "joined"
    /\ quiet' = 0 /\ SetShm
    /\ UNCHANGED <<up, socket, sunVars, relayVars>>

\* A datagram of somebody else is dropped, but recvfrom begins to wait anew.
StrayDatagram ==
    /\ socket # "closed" /\ quiet > 0 /\ quiet < RecvTimeout
    /\ quiet' = 0
    /\ UNCHANGED <<up, socket, surplusVars, sunVars, relayVars>>

\* A socket can be opened where the network is there; where it is not,
\* opening it may raise.
Opened(s) == s = "joined" \/ (~up /\ s = "closed")

\* recvfrom timed out: the group is joined again on a new socket.
TimeoutWaitsOn ==
    /\ socket # "closed" /\ quiet = RecvTimeout
    /\ quiet' = 0
    /\ UNCHANGED <<up, socket, surplusVars, sunVars, relayVars>>

Timeout ==
    /\ socket # "closed" /\ quiet = RecvTimeout
    /\ \E s \in {"joined", "closed"} : Opened(s) /\ socket' = s
    /\ quiet' = 0
    /\ UNCHANGED <<up, surplusVars, sunVars, relayVars>>

\* run raised: it is called again.
RunAgain ==
    /\ socket = "closed"
    /\ \E s \in {"joined", "closed"} : Opened(s) /\ socket' = s
    /\ quiet' = 0
    /\ UNCHANGED <<up, surplusVars, sunVars, relayVars>>

-----------------------------------------------------------------------------
(* The pollers                                                             *)

SetState(on, answered) == shellyOn' = on /\ reachable' = answered

\* _shelly_cycle, of a relay that answers.
PollRelay ==
    /\ ~polled /\ polled' = TRUE
    /\ SetState(relay, TRUE)
    /\ UNCHANGED <<up, meterVars, surplusVars, sunVars, relay, rested>>

\* A poll that stamps the meter's freshness as well.
UnreachableAsFresh ==
    /\ ~polled /\ polled' = TRUE
    /\ reachable' = FALSE /\ shellyOn' = shellyOn
    /\ shmAge' = (IF shmAge = NULL THEN NULL ELSE 0)
    /\ metered' = metered /\ shmBack' = 0
    /\ UNCHANGED <<up, meterVars, sunVars, relay, rested>>

\* A poll that leaves the last answer standing.
UnreachableIgnored ==
    /\ ~polled /\ polled' = TRUE
    /\ UNCHANGED <<up, meterVars, surplusVars, sunVars, relay, shellyOn, reachable, rested>>

\* One that does not answer keeps the position it was last seen in.
RelayUnreachable ==
    /\ ~polled /\ polled' = TRUE
    /\ SetState(shellyOn, FALSE)
    /\ UNCHANGED <<up, meterVars, surplusVars, sunVars, relay, rested>>

SetProduction == productionAge' = 0 /\ produced' = 0 /\ sunBack' = 0

\* _inverter_cycle.  A poll without an answer leaves /state alone.
PollInverter ==
    /\ SetProduction
    /\ UNCHANGED <<up, meterVars, surplusVars, relayVars>>

-----------------------------------------------------------------------------
(* _snapshot, as the controller reads it                                   *)

\* normalize_state's state_fresh.
Fresh == shmAge # NULL /\ shmAge <= StaleLimit

\* production_w is served.
ServedForever == productionAge # NULL

ProductionServed == productionAge # NULL /\ productionAge <= FreshFor

-----------------------------------------------------------------------------
(* The world                                                               *)

Aged(age, bound) == IF age = NULL \/ age = bound THEN age ELSE age + 1

Tick ==
    /\ polled /\ polled' = FALSE
    /\ quiet' = IF socket = "closed" \/ quiet = RecvTimeout THEN quiet ELSE quiet + 1
    /\ shmAge' = Aged(shmAge, Older) /\ metered' = Aged(metered, Older)
    /\ productionAge' = Aged(productionAge, Oldest) /\ produced' = Aged(produced, Oldest)
    /\ rested' = Aged(rested, 2)
    /\ UNCHANGED <<up, socket, relay, shellyOn, reachable, shmBack, sunBack>>

\* The wall clock is set back by a tick.
Earlier(age) == IF age = NULL THEN NULL ELSE age - 1

SetClockBack ==
    /\ shmBack < MaxStep /\ shmBack' = shmBack + 1
    /\ sunBack < MaxStep /\ sunBack' = sunBack + 1
    /\ shmAge' = Earlier(shmAge) /\ productionAge' = Earlier(productionAge)
    /\ UNCHANGED <<up, meterVars, metered, produced, relayVars>>

SwitchRelay ==
    /\ relay' = ~relay /\ rested' = 0
    /\ UNCHANGED <<up, meterVars, surplusVars, sunVars, shellyOn, reachable, polled>>

\* A switch drops the membership without a word.
Deafen ==
    /\ socket = "joined" /\ socket' = "deaf"
    /\ UNCHANGED <<up, quiet, surplusVars, sunVars, relayVars>>

MeterComesAndGoes ==
    /\ up' = ~up
    /\ UNCHANGED <<meterVars, surplusVars, sunVars, relayVars>>

\* The process dies and is started again.
Restart ==
    /\ socket' = "closed" /\ quiet' = 0
    /\ shmAge' = NULL /\ productionAge' = NULL
    /\ shellyOn' = NULL /\ reachable' = NULL
    /\ UNCHANGED <<up, metered, shmBack, produced, sunBack, relay, polled, rested>>

Disturbance == Deafen \/ MeterComesAndGoes \/ SetClockBack \/ Restart

Next ==
    \/ Telegram \/ StrayDatagram \/ Timeout \/ RunAgain
    \/ PollRelay \/ RelayUnreachable \/ PollInverter
    \/ Tick \/ SwitchRelay \/ Disturbance

\* The threads run, and the meter sends about once a second.
Fairness ==
    /\ WF_vars(Telegram) /\ WF_vars(Timeout) /\ WF_vars(RunAgain)
    /\ WF_vars(PollRelay \/ RelayUnreachable) /\ WF_vars(Tick)

Spec == Init /\ [][Next]_vars /\ Fairness

-----------------------------------------------------------------------------
(* Properties                                                              *)

\* What the controller takes for fresh was measured no longer ago than its
\* limit, but for what the wall clock was set back since.
FreshIsMetered == Fresh => metered <= StaleLimit + shmBack

\* No frozen production is served (set_production, _snapshot).
ServedIsProduced == ProductionServed => produced <= FreshFor + sunBack

\* A relay that /state calls reachable and that has not moved for two polls is
\* where /state says: the controller's reconciliation relies on it.
ViewFollows == reachable = TRUE /\ rested = 2 => shellyOn = relay

\* A meter that falls silent ends up stale, whatever the pollers still do.
SilenceBlinds == <>[]~up /\ <>[][~SetClockBack]_vars => <>[]~Fresh

\* The meter thread recovers by itself: when the disturbances end and the
\* meter sends, its readings are fresh again and again, unless others keep a
\* socket that lost its membership from timing out.
MeterReturns ==
    /\ <>[]up
    /\ <>[][~Disturbance /\ ~(socket = "deaf" /\ StrayDatagram)]_vars
    => []<>Fresh

=============================================================================
