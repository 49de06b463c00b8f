------------------------------ MODULE History ------------------------------
(***************************************************************************)
(* How the energy-exporter records what it measures: the meter thread      *)
(* fills a buffer, the flusher takes it once a minute and writes the       *)
(* minute's mean, the inverter's strings and the relay's position to a     *)
(* database that goes down and comes back.  A telegram is known by whether *)
(* the heat pump could draw when it was sent, and by whether it is the one *)
(* whose way is followed.                                                  *)
(***************************************************************************)
EXTENDS Naturals, Sequences

CONSTANTS Bound,  \* bound: telegrams in a minute
          NULL

ASSUME HistoryAssumption == Bound \in Nat /\ NULL \notin BOOLEAN

VARIABLES
    relay,     \* the relay's contact
    lastShelly,    \* _last_shelly: its position as last polled, or NULL
    lastInverter,  \* _last_inverter: did the last poll of it succeed?
    buf,       \* _buf
    pc,        \* the flusher: "sleep", "connect", "meter", "strings", "heatpump"
    samples, inv, she,   \* its local variables
    conn,      \* _tsdb_conn: "none", "live", or "dead" without knowing
    dbUp,      \* does the database answer?
    written,   \* the tables the last flush wrote to
    moved,     \* history: the relay has moved since the buffer was last taken
    still,     \* history: it had not in the samples' minute, and was seen open
    outage,    \* history: the database was down during this flush
    followed,  \* history: the followed telegram has come in
    rows,      \* history: the energy_meter rows it was counted in
    excused    \* history: a restart or an outage took it

flushVars == <<pc, samples, inv, she, conn, written, outage, still>>
wayVars == <<followed, rows, excused>>
vars == <<relay, moved, lastShelly, lastInverter, buf, flushVars, dbUp, wayVars>>

Telegrams == [draw : BOOLEAN, followed : BOOLEAN]

TypeOK ==
    /\ relay \in BOOLEAN /\ moved \in BOOLEAN /\ still \in BOOLEAN
    /\ lastShelly \in BOOLEAN \union {NULL} /\ lastInverter \in BOOLEAN
    /\ buf \in Seq(Telegrams) /\ Len(buf) <= Bound
    /\ samples \in Seq(Telegrams) /\ Len(samples) <= Bound
    /\ pc \in {"sleep", "connect", "meter", "strings", "heatpump"}
    /\ inv \in BOOLEAN /\ she \in BOOLEAN \union {NULL}
    /\ conn \in {"none", "live", "dead"} /\ dbUp \in BOOLEAN
    /\ written \subseteq {"meter", "strings", "heatpump"}
    /\ outage \in BOOLEAN /\ followed \in BOOLEAN /\ rows \in 0..2 /\ excused \in BOOLEAN

Init ==
    /\ relay \in BOOLEAN /\ moved = FALSE /\ still = FALSE
    /\ lastShelly = NULL /\ lastInverter = FALSE
    /\ buf = <<>>
    /\ pc = "sleep" /\ samples = <<>> /\ inv = FALSE /\ she = NULL
    /\ conn = "none" /\ dbUp \in BOOLEAN
    /\ written = {} /\ outage = FALSE
    /\ followed = FALSE /\ rows = 0 /\ excused = FALSE

Carries(ts) == \E i \in DOMAIN ts : ts[i].followed

-----------------------------------------------------------------------------
(* The meter thread and the pollers                                        *)

Telegram ==
    /\ Len(buf) < Bound
    /\ \E f \in {FALSE, ~followed} :
          /\ buf' = Append(buf, [draw |-> relay, followed |-> f])
          /\ followed' = (followed \/ f)
    /\ UNCHANGED <<relay, moved, lastShelly, lastInverter, flushVars, dbUp, rows, excused>>

\* _shelly_cycle: an answer, or none.
PollRelay ==
    /\ lastShelly' \in {relay, NULL}
    /\ UNCHANGED <<relay, moved, lastInverter, buf, flushVars, dbUp, wayVars>>

\* _inverter_cycle
PollInverter ==
    /\ lastInverter' \in BOOLEAN
    /\ UNCHANGED <<relay, moved, lastShelly, buf, flushVars, dbUp, wayVars>>

-----------------------------------------------------------------------------
(* The flusher                                                             *)

\* The samples are taken, and left where they are.
SwapLeaves ==
    /\ pc = "sleep" /\ pc' = "connect"
    /\ samples' = buf /\ buf' = buf
    /\ inv' = lastInverter /\ she' = lastShelly
    /\ moved' = FALSE /\ still' = (~moved /\ ~relay /\ lastShelly = FALSE)
    /\ written' = {} /\ outage' = ~dbUp
    /\ UNCHANGED <<relay, lastShelly, lastInverter, conn, dbUp, wayVars>>

\* The buffer is swapped under its lock, and the pollers' last values taken.
Swap ==
    /\ pc = "sleep" /\ pc' = "connect"
    /\ samples' = buf /\ buf' = <<>>
    /\ inv' = lastInverter /\ she' = lastShelly
    /\ moved' = FALSE /\ still' = (~moved /\ ~relay /\ lastShelly = FALSE)
    /\ written' = {} /\ outage' = ~dbUp
    /\ UNCHANGED <<relay, lastShelly, lastInverter, conn, dbUp, wayVars>>

\* The flusher's locals, between two cycles.
Asleep ==
    /\ pc' = "sleep" /\ samples' = <<>> /\ inv' = FALSE /\ she' = NULL
    /\ written' = {} /\ outage' = FALSE /\ still' = FALSE

\* The followed telegram is on its way to a row.
Pending ==
    \/ Carries(buf)
    \/ Carries(samples) /\ pc \in {"connect", "meter"}

\* What is raised ends the thread.
GiveUpForGood(c) ==
    /\ conn' = c /\ pc' = "ended"
    /\ UNCHANGED <<samples, inv, she, written, outage, still, rows, excused>>

\* The rest of the cycle, and of the minute, is given up; run_guarded survives it.
GiveUp(c) ==
    /\ conn' = c
    /\ excused' = (excused \/ (outage /\ Pending /\ Carries(samples)))
    /\ Asleep
    /\ UNCHANGED rows

\* live_conn: a connection that answers a ping is kept, any other one replaced.
LiveUnpinged == IF conn # "none" THEN conn ELSE IF dbUp THEN "live" ELSE "none"

Live == IF dbUp THEN "live" ELSE "none"

Connect ==
    /\ pc = "connect"
    /\ IF Live = "none" THEN GiveUp(conn)
       ELSE /\ conn' = Live
            /\ pc' = IF samples = <<>> THEN "heatpump" ELSE "meter"
            /\ UNCHANGED <<samples, inv, she, written, outage, still, rows, excused>>
    /\ UNCHANGED <<relay, moved, lastShelly, lastInverter, buf, dbUp, followed>>

\* An INSERT goes through, or raises on a connection that has died.
WriteMeter ==
    /\ pc = "meter"
    /\ IF conn # "live" THEN GiveUp("none")
       ELSE /\ written' = {"meter"} /\ pc' = IF inv THEN "strings" ELSE "heatpump"
            /\ rows' = rows + (IF Carries(samples) THEN 1 ELSE 0)
            /\ UNCHANGED <<samples, inv, she, conn, outage, still, excused>>
    /\ UNCHANGED <<relay, moved, lastShelly, lastInverter, buf, dbUp, followed>>

WriteStrings ==
    /\ pc = "strings"
    /\ IF conn # "live" THEN GiveUp("none")
       ELSE /\ written' = written \union {"strings"} /\ pc' = "heatpump"
            /\ UNCHANGED <<samples, inv, she, conn, outage, still, rows, excused>>
    /\ UNCHANGED <<relay, moved, lastShelly, lastInverter, buf, dbUp, followed>>

WriteHeatpump ==
    /\ pc = "heatpump"
    /\ IF she # NULL /\ conn # "live" THEN GiveUp("none")
       ELSE Asleep /\ UNCHANGED <<conn, rows, excused>>
    /\ UNCHANGED <<relay, moved, lastShelly, lastInverter, buf, dbUp, followed>>

-----------------------------------------------------------------------------
(* The world                                                               *)

SwitchRelay ==
    /\ relay' = ~relay /\ moved' = TRUE
    /\ UNCHANGED <<lastShelly, lastInverter, buf, flushVars, dbUp, wayVars>>

DatabaseFails ==
    /\ dbUp /\ dbUp' = FALSE
    /\ conn' = IF conn = "live" THEN "dead" ELSE conn
    /\ outage' = (outage \/ pc # "sleep")
    /\ UNCHANGED <<relay, moved, lastShelly, lastInverter, buf, pc, samples, inv, she, written, still, wayVars>>

DatabaseReturns ==
    /\ ~dbUp /\ dbUp' = TRUE
    /\ UNCHANGED <<relay, moved, lastShelly, lastInverter, buf, flushVars, wayVars>>

\* The process dies and is started again.
Restart ==
    /\ lastShelly' = NULL /\ lastInverter' = FALSE
    /\ buf' = <<>> /\ moved' = FALSE /\ conn' = "none" /\ Asleep
    /\ excused' = (excused \/ Pending)
    /\ UNCHANGED <<relay, dbUp, followed, rows>>

\* recent_household_samples will find the minute to be one without the heat pump.
TakenForOff == conn = "live" /\ she = FALSE /\ inv /\ "meter" \in written

Flush == Swap \/ Connect \/ WriteMeter \/ WriteStrings \/ WriteHeatpump

Next ==
    \/ Telegram \/ PollRelay \/ PollInverter \/ Flush
    \/ SwitchRelay \/ DatabaseFails \/ DatabaseReturns \/ Restart

\* The flusher's thread runs, its calls end, and the meter sends.
Spec == Init /\ [][Next]_vars /\ WF_vars(Flush) /\ WF_vars(Telegram)

-----------------------------------------------------------------------------
(* Properties                                                              *)

\* No telegram is counted in two minutes, whatever step of a flush fails.
CountedOnce == rows + (IF Pending THEN 1 ELSE 0) <= 1

\* A minute is only lost to a database that was down during its own flush, or
\* with the process: an outage that ended before costs nothing (live_conn).
LostOnlyInOutage == followed => Pending \/ rows = 1 \/ excused

\* Once the database answers for good, minutes are recorded again and again.
HistoryReturns ==
    <>[]dbUp /\ <>[][~Restart]_vars => []<>("meter" \in written)

\* A minute the relay was open in, and seen open, gives _backfill_baseload the
\* house alone: a row carries no other minute's telegrams, whatever is polled,
\* switched or raised between the buffer's swap and the last INSERT.
SeedsClean ==
    [][WriteHeatpump /\ TakenForOff /\ still
       => \A i \in DOMAIN samples : ~samples[i].draw]_vars

=============================================================================
