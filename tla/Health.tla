------------------------------- MODULE Health -------------------------------
(***************************************************************************)
(* The controller under its liveness probe (status_server.py).  A call     *)
(* without a timeout, any of those to TimescaleDB, may never return: the   *)
(* loop hangs while the HTTP thread goes on answering.  Every cycle beats; *)
(* /healthz compares the last beat with the wall clock, and the kubelet    *)
(* (deploy/k8s/surplus-controller.yaml) restarts the process after         *)
(* Failures failed probes in a row, one in every tick.                     *)
(***************************************************************************)
EXTENDS Controller

CONSTANTS
    Budget,     \* HEARTBEAT_BUDGET_S, in ticks
    Failures,   \* failureThreshold of the probe
    Back,       \* bound: how far the wall clock is set back, in ticks
    ClockSets   \* bound: how often the wall clock is set

\* A loop that works beats within the budget; and the clock is not set forward in
\* so many cycles in a row that the probe gives up on it.
ASSUME HealthAssumption ==
    /\ Budget \in Nat /\ Budget >= Loop + Busy
    /\ Failures \in Nat /\ Failures > ClockSets * (Loop + Busy)
    /\ Back \in Nat /\ ClockSets \in Nat

VARIABLES
    hung,     \* the loop, or the start of the process, waits for good
    age,      \* heartbeat_age(), saturating once it is over the budget
    fails,    \* probes failed in a row
    clockSet  \* how often the wall clock has been set

healthVars == <<hung, age, fails, clockSet>>
hvars == <<vars, healthVars>>

Late == Budget + 1

HealthTypeOK ==
    /\ hung \in BOOLEAN
    /\ age \in (0 - Back * ClockSets)..Late
    /\ fails \in 0..Failures
    /\ clockSet \in 0..ClockSets

HealthInit == Init /\ hung = FALSE /\ age = Late /\ fails = 0 /\ clockSet = 0

-----------------------------------------------------------------------------
(* The loop, as in Controller, with its heartbeat.                         *)

AnsweringIsAlive == pc # "down"

\* _alive(); before the first beat, and before the server listens, there is
\* nothing to answer with.
Alive == pc # "down" /\ age <= Budget

BeatWhenOn == age' = IF pc' = "sleep" /\ relayOn THEN 0 ELSE age

\* Every cycle ends in a beat: one that raised and was skipped does, too.
Beat == age' = IF pc' = "sleep" THEN 0 ELSE age

\* The process starts, and is healthy before its first cycle.
Begin == ~hung /\ Start /\ Beat /\ UNCHANGED <<hung, fails, clockSet>>

Work == ~hung /\ LoopStep /\ Beat /\ UNCHANGED <<hung, fails, clockSet>>

Around ==
    /\ PollRelay \/ PollFails \/ FlipByHand \/ SaveSettings
    /\ UNCHANGED healthVars

-----------------------------------------------------------------------------
(* Hanging and being restarted.                                            *)

\* In the start, in live_conn or load_config, or in write_decision.
Hang ==
    /\ ~hung /\ (pc \in {"down", "log"} \/ (pc = "sleep" /\ left = 0))
    /\ hung' = TRUE
    /\ UNCHANGED <<vars, age, fails, clockSet>>

\* Time passes for everything but the loop.
HungTick ==
    /\ "poll" \in Faults \/ view = Shown(out)
    /\ DeviceTick
    /\ sinceOn' = Sat(sinceOn, MinRun) /\ sinceOff' = Sat(sinceOff, MinOff)
    /\ logOn' = Sat(logOn, MinRun) /\ logOff' = Sat(logOff, MinOff)
    /\ UNCHANGED <<pc, left, loopVars, decision, row, lastLogged, unlogged, view, credit>>

\* The kubelet asks once in a tick, as long as there is a container to ask.
Probe ==
    fails' = IF Alive' \/ (pc = "down" /\ ~hung) THEN 0 ELSE fails + 1

Time ==
    /\ fails < Failures
    /\ IF hung THEN HungTick ELSE Tick
    /\ age' = Sat(age, Late)
    /\ Probe
    /\ UNCHANGED <<hung, clockSet>>

\* The container is gone, and its memory with it.
Gone == age' = Late /\ hung' = FALSE /\ fails' = 0 /\ UNCHANGED clockSet

Die == Crash /\ Gone

\* One probe too many has failed: the kubelet restarts the container.
Kill ==
    /\ fails = Failures
    /\ pc' = "down" /\ left' = 0 /\ decision' = Nothing
    /\ Gone
    /\ UNCHANGED <<relayVars, loopVars, ageVars, row, logVars, view, credit>>

\* time.time() is stepped: forward, and the last beat looks old at once; or
\* back, and it looks fresh for longer.
StepClock ==
    /\ clockSet < ClockSets /\ clockSet' = clockSet + 1
    /\ pc # "down"
    /\ age' \in {Late, age - Back}
    /\ UNCHANGED <<vars, hung, fails>>

HealthNext ==
    \/ Begin \/ Work \/ Around \/ Hang \/ Time \/ Die \/ Kill \/ StepClock

HealthSpec == HealthInit /\ [][HealthNext]_hvars

HealthFairness ==
    /\ WF_hvars(Begin) /\ WF_hvars(Work) /\ WF_hvars(PollRelay /\ Around)
    /\ WF_hvars(Kill) /\ SF_hvars(Time)

HealthFairSpec == HealthSpec /\ HealthFairness

-----------------------------------------------------------------------------
(* Properties                                                              *)

\* Whoever works is left alone: the kubelet gets to restart a hung process
\* only, however slow its cycles are, and though the wall clock jumps.
LiveIsLeft == fails = Failures => hung

\* A hung process does not stay: /healthz sees through the HTTP thread that
\* still answers, and the process is started again.
HungIsRestarted == hung ~> ~hung

=============================================================================
