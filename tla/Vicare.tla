------------------------------- MODULE Vicare -------------------------------
(***************************************************************************)
(* The heatpump-exporter with its ViCare driver: a loop that polls the     *)
(* vendor's API within a budget, keeps quiet after an HTTP 429, retries    *)
(* its connection with a growing backoff and exits when its credentials    *)
(* are rejected again and again.  A tick is a poll period (POLL_S).        *)
(***************************************************************************)
EXTENDS RateBudget

CONSTANTS
    Cooldown,     \* _COOLDOWN_S
    MaxBackoff,   \* 1800 s, of both backoffs
    MaxInvalid,   \* max_invalid_attempts
    SlipBound     \* bound: crashes and losses of the file happen while fewer calls
                  \* than this slipped

ASSUME VicareAssumption ==
    /\ Cooldown \in Nat \ {0} /\ MaxBackoff \in Nat \ {0}
    /\ Cooldown <= MaxBackoff + 1
    /\ MaxInvalid \in Nat \ {0} /\ SlipBound \in Nat

VARIABLES
    pc,        \* "down", "sleep", "connect", "request", "record"
    left,      \* ticks left to sleep, between polls or attempts to connect
    backoff,   \* main's backoff
    device,    \* _device: is it connected?
    cooldown,  \* ticks until _cooldown_until
    retry,     \* connect_with_retry's backoff
    invalid,   \* invalid_attempts
    waited,    \* ticks since the poll took its "now", up to Window
    conn,      \* does the connection that live_conn returned still work?
    vendor,    \* how the vendor answers: "fine", "limits", "fails", "rejects"
    dbUp,      \* does TimescaleDB answer?
    made,      \* history: answered calls by their true age
    slipped,   \* history: those the budget lost or dated too early
    quiet,     \* history: ticks since this process met a 429, up to Cooldown
    late       \* history: those its poll had waited when it met it, up to Cooldown

loopVars == <<pc, left, backoff, conn>>
driverVars == <<device, cooldown, retry, invalid, waited>>
worldVars == <<vendor, dbUp>>
madeVars == <<made, slipped>>
quietVars == <<quiet, late>>
vars == <<calls, file, loopVars, driverVars, worldVars, madeVars, quietVars>>

TypeOK ==
    /\ calls \in Budgets /\ file \in Budgets /\ made \in Budgets /\ slipped \in Budgets
    /\ pc \in {"down", "sleep", "connect", "request", "record"}
    /\ left \in 0..(1 + MaxBackoff) /\ backoff \in 0..MaxBackoff /\ retry \in 0..MaxBackoff
    /\ device \in BOOLEAN /\ cooldown \in 0..Cooldown
    /\ quiet \in 0..Cooldown /\ late \in 0..Cooldown
    /\ invalid \in 0..(MaxInvalid - 1) /\ waited \in 0..Window
    /\ vendor \in {"fine", "limits", "fails", "rejects"}
    /\ conn \in BOOLEAN /\ dbUp \in BOOLEAN

Init ==
    /\ BudgetInit /\ made = Empty /\ slipped = Empty
    /\ pc = "down" /\ left = 0 /\ backoff = 0 /\ conn = FALSE
    /\ device = FALSE /\ cooldown = 0 /\ retry = 0 /\ invalid = 0 /\ waited = 0
    /\ vendor = "fine" /\ dbUp = TRUE /\ quiet = Cooldown /\ late = 0

AtMost(n, cap) == IF n < cap THEN n ELSE cap
Ramped(b) == AtMost(b + 1, MaxBackoff)

-----------------------------------------------------------------------------
(* main: the process and its loop                                          *)

StartAfresh ==
    /\ pc = "down" /\ pc' = "sleep" /\ left' = 0 /\ backoff' = 0 /\ conn' = FALSE
    /\ calls' = Empty
    /\ device' = FALSE /\ cooldown' = 0 /\ retry' = 0 /\ invalid' = 0 /\ waited' = 0
    /\ quiet' = Cooldown /\ late' = 0
    /\ UNCHANGED <<file, worldVars, madeVars>>

\* The budget comes from the file, as far as it can be read; nothing else outlives
\* a process.
Start ==
    /\ pc = "down" /\ pc' = "sleep" /\ left' = 0 /\ backoff' = 0 /\ conn' = FALSE
    /\ Loaded
    /\ Total(slipped) < SlipBound \/ calls' = file
    /\ slipped' = Plus(slipped, Beyond(file, calls'))
    /\ device' = FALSE /\ cooldown' = 0 /\ retry' = 0 /\ invalid' = 0 /\ waited' = 0
    /\ quiet' = Cooldown /\ late' = 0
    /\ UNCHANGED <<file, worldVars, made>>

\* The cycle is over: cleanly, or by an exception that lengthens the sleep.
Done(cleanly) ==
    /\ backoff' = IF cleanly THEN 0 ELSE Ramped(backoff)
    /\ pc' = "sleep" /\ left' = 1 + backoff' /\ conn' = FALSE

\* live_conn first: while the database is down the vendor is not asked.
NoDatabase ==
    /\ pc = "sleep" /\ left = 0 /\ ~dbUp
    /\ Done(FALSE)
    /\ UNCHANGED <<calls, file, driverVars, worldVars, madeVars, quietVars>>

\* poll, as far as its connection.
Poll ==
    /\ pc = "sleep" /\ left = 0 /\ dbUp
    /\ IF cooldown > 0 THEN Done(TRUE) /\ UNCHANGED <<retry, invalid>>
       ELSE /\ pc' = IF device THEN "request" ELSE "connect"
            /\ conn' = TRUE /\ retry' = 0 /\ invalid' = 0
            /\ UNCHANGED <<left, backoff>>
    /\ UNCHANGED <<calls, file, device, cooldown, waited, worldVars, madeVars, quietVars>>

-----------------------------------------------------------------------------
(* connect_with_retry                                                      *)

RampedAlways(limited) == Ramped(retry)

\* _next_backoff
NextBackoff(limited) == IF limited THEN MaxBackoff ELSE Ramped(retry)

Connected ==
    /\ vendor = "fine"
    /\ device' = TRUE /\ pc' = "request"
    /\ UNCHANGED <<calls, left, retry, invalid, waited, quietVars>>

TryAgain(limited) ==
    /\ retry' = NextBackoff(limited) /\ left' = 1 + retry'
    /\ IF limited THEN quiet' = 0 /\ late' = 0 ELSE UNCHANGED quietVars
    /\ UNCHANGED <<calls, pc, device, waited>>

\* Anything but a rejection ends a row of rejections.
NotConnected ==
    /\ vendor \in {"limits", "fails"}
    /\ invalid' = 0
    /\ TryAgain(vendor = "limits")

RejectedUncounted ==
    /\ vendor = "rejects"
    /\ invalid' = 0 /\ TryAgain(FALSE)

Rejected ==
    /\ vendor = "rejects"
    /\ IF invalid + 1 < MaxInvalid
       THEN invalid' = invalid + 1 /\ TryAgain(FALSE)
       ELSE /\ pc' = "down"     \* SystemExit, which no handler of main takes
            /\ calls' = Empty /\ invalid' = 0 /\ waited' = 0
            /\ UNCHANGED <<left, device, retry, quietVars>>

Connect ==
    /\ pc = "connect" /\ left = 0
    /\ Connected \/ NotConnected \/ Rejected
    /\ UNCHANGED <<file, backoff, conn, cooldown, worldVars, madeVars>>

-----------------------------------------------------------------------------
(* poll, from its connection on.  Its "now" is waited ticks old: calls is  *)
(* the budget as of then.                                                  *)

\* The poll returns None.
Nothing ==
    /\ Done(TRUE)
    /\ calls' = Older(calls, waited) /\ waited' = 0
    /\ UNCHANGED <<file, device, retry, invalid, worldVars, madeVars>>

Exhausted ==
    /\ pc = "request" /\ ~Allow
    /\ Nothing /\ UNCHANGED <<cooldown, quietVars>>

Request ==
    /\ pc = "request" /\ Allow
    /\ \/ /\ vendor = "fine"
          /\ pc' = "record" /\ made' = OneMore(made)
          /\ UNCHANGED <<calls, file, left, backoff, conn, driverVars, worldVars, slipped, quietVars>>
       \/ /\ vendor = "limits"
          /\ late' = AtMost(waited, Cooldown)
          /\ cooldown' = Cooldown - late' /\ quiet' = 0
          /\ Nothing
       \/ /\ vendor \in {"fails", "rejects"}
          /\ Nothing /\ UNCHANGED <<cooldown, quietVars>>

\* A connection that has died since the cycle began raises.
Write == Done(conn)

\* record, and back in run_cycle the reading's row.
Record ==
    /\ pc = "record"
    /\ RecordCall(waited)
    /\ slipped' = IF waited > 0 THEN OneMore(slipped) ELSE slipped
    /\ Write /\ waited' = 0
    /\ UNCHANGED <<device, cooldown, retry, invalid, worldVars, made, quietVars>>

-----------------------------------------------------------------------------
(* The world                                                               *)

\* The process dies; a call it has not recorded, or not saved, is forgotten.
Crash ==
    /\ pc # "down" /\ Total(slipped) < SlipBound
    /\ pc' = "down" /\ left' = 0
    /\ slipped' = Plus(Plus(slipped, Beyond(Older(calls, waited), file)),
                       IF pc = "record" THEN OneMore(Empty) ELSE Empty)
    /\ calls' = Empty /\ waited' = 0
    /\ UNCHANGED <<file, backoff, conn, device, cooldown, retry, invalid, worldVars, made, quietVars>>

VendorChanges ==
    /\ vendor' \in {"fine", "limits", "fails", "rejects"} \ {vendor}
    /\ UNCHANGED <<calls, file, loopVars, driverVars, dbUp, madeVars, quietVars>>

DatabaseChanges ==
    /\ dbUp' = ~dbUp
    /\ conn' = (conn /\ dbUp')
    /\ UNCHANGED <<calls, file, pc, left, backoff, driverVars, vendor, madeVars, quietVars>>

\* A tick passes in a sleep, or while the process is down.
Tick ==
    /\ pc = "down" \/ left > 0
    /\ left' = IF pc = "down" THEN 0 ELSE left - 1
    /\ IF pc = "connect" THEN waited' = AtMost(waited + 1, Window) /\ calls' = calls
       ELSE waited' = waited /\ calls' = Older(calls, 1)
    /\ file' = Older(file, 1) /\ made' = Older(made, 1) /\ slipped' = Older(slipped, 1)
    /\ cooldown' = IF cooldown > 0 THEN cooldown - 1 ELSE 0
    /\ quiet' = AtMost(quiet + 1, Cooldown) /\ late' = late
    /\ UNCHANGED <<pc, backoff, conn, device, retry, invalid, worldVars>>

Step == NoDatabase \/ Poll \/ Connect \/ Exhausted \/ Request \/ Record

Next ==
    \/ Start \/ Step \/ Tick
    \/ Crash \/ VendorChanges \/ DatabaseChanges

\* The process runs and is started again when it ends, and time passes.
Spec == Init /\ [][Next]_vars /\ WF_vars(Start) /\ WF_vars(Step) /\ WF_vars(Tick)

-----------------------------------------------------------------------------
(* Properties                                                              *)

\* No window holds more answered calls than the cap, over any number of
\* processes, but for those the budget lost: with a process that died before
\* it saved them, with a file that could not be read, or by a stamp from before
\* a long connection.
WithinCap == Total(made) <= Cap + Total(slipped)

\* After a 429 a process asks the vendor for nothing at all until the cooldown
\* is over, be it for a reading or for its devices.  A 429 met by a reading counts
\* from the beginning of its poll, so that what the poll waited for its connection
\* is missing at the end; a poll period stays quiet in any case.
QuietAfterLimit ==
    [][Connect \/ Request => quiet >= 1 /\ quiet + late >= Cooldown]_vars

\* Credentials that are rejected for good do not burn calls in silence: the
\* process exits again and again.
RejectionShows ==
    <>[](vendor = "rejects" /\ ~device /\ dbUp) => []<>(pc = "down")

\* Telemetry comes back by itself: when vendor and database answer for good
\* readings are written again and again, whatever was used up or backed off.
TelemetryReturns ==
    <>[](vendor = "fine" /\ dbUp) /\ <>[][~Crash]_vars => []<><<Record /\ conn>>_vars

=============================================================================
