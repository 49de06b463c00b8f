-------------------------- MODULE History_proofs ---------------------------
(***************************************************************************)
(* Proofs about History for any number of telegrams in a minute: what the  *)
(* flusher records, it records once, and loses only with the database or   *)
(* the process.                                                            *)
(***************************************************************************)
EXTENDS History, TLAPS

Busy == {"connect", "meter", "strings", "heatpump"}
Writing == {"meter", "strings", "heatpump"}

\* What the counting rests on, of the types.
Sequenced ==
    /\ buf \in Seq(Telegrams) /\ samples \in Seq(Telegrams)
    /\ pc \in {"sleep"} \union Busy
    /\ conn \in {"none", "live", "dead"}
    /\ relay \in BOOLEAN /\ dbUp \in BOOLEAN /\ outage \in BOOLEAN /\ followed \in BOOLEAN /\ excused \in BOOLEAN

\* The flusher holds samples only within a cycle.
EmptyHanded == pc = "sleep" => samples = <<>>

\* A connection is found dead, within a cycle, only by an outage of that cycle.
OutageKnown ==
    /\ conn = "live" => dbUp
    /\ pc \in Writing => conn = "live" \/ outage
    /\ pc = "connect" => dbUp \/ outage

\* The followed telegram is in one place.
OnePlace ==
    /\ ~followed => ~Carries(buf) /\ ~Carries(samples) /\ rows = 0
    /\ Carries(buf) => ~Carries(samples) /\ rows = 0
    /\ rows \in {0, 1}
    /\ pc \in {"connect", "meter"} /\ Carries(samples) => rows = 0
    /\ followed => Pending \/ rows = 1 \/ excused

HInv == Sequenced /\ EmptyHanded /\ OutageKnown /\ OnePlace

\* A telegram that comes in is found where it was put.
LEMMA CarriesAppend ==
    ASSUME NEW s \in Seq(Telegrams), NEW t \in Telegrams
    PROVE  Carries(Append(s, t)) <=> Carries(s) \/ t.followed
<1>1. /\ DOMAIN s = 1..Len(s) /\ Len(s) \in Nat
      /\ DOMAIN Append(s, t) = 1..(Len(s) + 1)
      /\ \A i \in 1..Len(s) : Append(s, t)[i] = s[i]
      /\ Append(s, t)[Len(s) + 1] = t
    OBVIOUS
<1> QED BY <1>1 DEF Carries

LEMMA CarriesNone == ~Carries(<<>>) /\ <<>> \in Seq(Telegrams)
BY DEF Carries

LEMMA HInit == Init => HInv
<1>1. SUFFICES ASSUME Init PROVE HInv
    OBVIOUS
<1>2. Sequenced
    BY <1>1, CarriesNone DEF Init, Sequenced, Busy
<1>3. EmptyHanded /\ OutageKnown
    BY <1>1 DEF Init, EmptyHanded, OutageKnown, Writing
<1>4. OnePlace
    BY <1>1, CarriesNone DEF Init, OnePlace, Pending
<1> QED BY <1>2, <1>3, <1>4 DEF HInv

LEMMA HTelegram == HInv /\ Telegram => HInv'
<1>1. SUFFICES ASSUME HInv, Telegram PROVE HInv'
    OBVIOUS
<1>2. PICK f \in {FALSE, ~followed} :
          /\ buf' = Append(buf, [draw |-> relay, followed |-> f])
          /\ followed' = (followed \/ f)
    BY <1>1 DEF Telegram
<1>3. UNCHANGED <<relay, flushVars, dbUp, rows, excused>>
    BY <1>1 DEF Telegram
<1> DEFINE t == [draw |-> relay, followed |-> f]
<1>4. t \in Telegrams /\ t.followed = f
    BY <1>1, <1>2 DEF Telegrams, HInv, Sequenced
<1>5. Carries(buf') <=> Carries(buf) \/ f
    BY <1>1, <1>2, <1>4, CarriesAppend DEF HInv, Sequenced
<1> HIDE DEF t
<1>6. buf' \in Seq(Telegrams)
    BY <1>1, <1>2, <1>4 DEF HInv, Sequenced, t
<1>7. Sequenced' /\ EmptyHanded' /\ OutageKnown'
    BY <1>1, <1>2, <1>3, <1>6
       DEF HInv, Sequenced, EmptyHanded, OutageKnown, Busy, Writing, flushVars
<1>8. Carries(samples') <=> Carries(samples)
    BY <1>3 DEF flushVars
<1>9. OnePlace'
    BY <1>1, <1>2, <1>3, <1>5, <1>8 DEF HInv, OnePlace, Pending, flushVars
<1> QED BY <1>7, <1>9 DEF HInv

LEMMA HSwap == HInv /\ Swap => HInv'
<1>1. SUFFICES ASSUME HInv, Swap PROVE HInv'
    OBVIOUS
<1>2. Carries(samples') = Carries(buf) /\ ~Carries(buf') /\ ~Carries(samples)
    BY <1>1, CarriesNone DEF Swap, HInv, EmptyHanded
<1>3. Sequenced'
    BY <1>1, CarriesNone DEF HInv, Sequenced, Busy, Swap, wayVars
<1>5. EmptyHanded' /\ OutageKnown'
    BY <1>1 DEF HInv, Sequenced, EmptyHanded, OutageKnown, Writing, Swap
<1>4. OnePlace'
    BY <1>1, <1>2 DEF HInv, OnePlace, Pending, Swap, wayVars
<1> QED BY <1>3, <1>4, <1>5 DEF HInv

LEMMA HGiveUp ==
    ASSUME HInv, NEW c \in {"none", "live", "dead"}, pc \in Busy, c # "live", outage,
           GiveUp(c), UNCHANGED <<relay, buf, dbUp, followed>>
    PROVE  HInv'
<1>1. ~Carries(samples')
    BY CarriesNone DEF GiveUp, Asleep
<1>2. Sequenced' /\ EmptyHanded' /\ OutageKnown'
    <2>1. Sequenced'
        BY CarriesNone DEF HInv, Sequenced, Busy, GiveUp, Asleep
    <2>2. EmptyHanded' /\ OutageKnown'
        BY DEF HInv, EmptyHanded, OutageKnown, Writing, GiveUp, Asleep
    <2> QED BY <2>1, <2>2
<1>3. Carries(buf') = Carries(buf)
    OBVIOUS
<1>4. OnePlace'
    BY <1>1, <1>3 DEF HInv, OnePlace, Pending, GiveUp, Asleep, Busy
<1> QED BY <1>2, <1>4 DEF HInv

LEMMA HConnect == HInv /\ Connect => HInv'
<1>1. SUFFICES ASSUME HInv, Connect PROVE HInv'
    OBVIOUS
<1>2. CASE Live = "none"
    <2>1. GiveUp(conn) /\ ~dbUp
        BY <1>1, <1>2 DEF Connect, Live
    <2> QED BY <1>1, <2>1, HGiveUp DEF Connect, HInv, Sequenced, OutageKnown, Busy
<1>3. CASE Live # "none"
    <2>1. conn' = "live" /\ dbUp /\ pc' \in {"heatpump", "meter"}
        BY <1>1, <1>3 DEF Connect, Live
    <2>2. pc = "connect" /\ UNCHANGED <<relay, samples, buf, outage, rows, excused, dbUp, followed>>
        BY <1>1, <1>3 DEF Connect
    <2>3. pc' = "meter" \/ ~Carries(samples)
        BY <1>1, <1>3, CarriesNone DEF Connect
    <2>4. Sequenced' /\ EmptyHanded' /\ OutageKnown'
        BY <1>1, <2>1, <2>2
           DEF HInv, Sequenced, EmptyHanded, OutageKnown, Busy, Writing
    <2>5. Carries(buf') = Carries(buf) /\ Carries(samples') = Carries(samples)
        BY <2>2
    <2>6. OnePlace'
        BY <1>1, <2>1, <2>2, <2>3, <2>5 DEF HInv, OnePlace, Pending
    <2> QED BY <2>4, <2>6 DEF HInv
<1> QED BY <1>2, <1>3

LEMMA HWriteMeter == HInv /\ WriteMeter => HInv'
<1>1. SUFFICES ASSUME HInv, WriteMeter PROVE HInv'
    OBVIOUS
<1>2. CASE conn # "live"
    <2>1. GiveUp("none") /\ UNCHANGED <<relay, buf, dbUp, followed>> /\ pc = "meter"
        BY <1>1, <1>2 DEF WriteMeter
    <2>2. outage
        BY <1>1, <1>2, <2>1 DEF HInv, OutageKnown, Writing
    <2> QED BY <1>1, <2>1, <2>2, HGiveUp DEF Busy
<1>3. CASE conn = "live"
    <2>1. /\ pc = "meter" /\ pc' \in {"strings", "heatpump"}
          /\ UNCHANGED <<samples, buf, conn, outage, excused, dbUp, followed, relay>>
          /\ rows' = rows + (IF Carries(samples) THEN 1 ELSE 0)
        BY <1>1, <1>3 DEF WriteMeter
    <2>2. Sequenced' /\ EmptyHanded' /\ OutageKnown'
        BY <1>1, <1>3, <2>1
           DEF HInv, Sequenced, EmptyHanded, OutageKnown, Busy, Writing
    <2>3. Carries(buf') = Carries(buf) /\ Carries(samples') = Carries(samples)
        BY <2>1
    <2>4. OnePlace'
        BY <1>1, <2>1, <2>3 DEF HInv, OnePlace, Pending
    <2> QED BY <2>2, <2>4 DEF HInv
<1> QED BY <1>2, <1>3

LEMMA HWriteStrings == HInv /\ WriteStrings => HInv'
<1>1. SUFFICES ASSUME HInv, WriteStrings PROVE HInv'
    OBVIOUS
<1>2. CASE conn # "live"
    <2>1. GiveUp("none") /\ UNCHANGED <<relay, buf, dbUp, followed>> /\ pc = "strings"
        BY <1>1, <1>2 DEF WriteStrings
    <2>2. outage
        BY <1>1, <1>2, <2>1 DEF HInv, OutageKnown, Writing
    <2> QED BY <1>1, <2>1, <2>2, HGiveUp DEF Busy
<1>3. CASE conn = "live"
    <2>1. /\ pc = "strings" /\ pc' = "heatpump"
          /\ UNCHANGED <<samples, buf, conn, outage, rows, excused, dbUp, followed, relay>>
        BY <1>1, <1>3 DEF WriteStrings
    <2>2. Sequenced' /\ EmptyHanded' /\ OutageKnown'
        BY <1>1, <1>3, <2>1
           DEF HInv, Sequenced, EmptyHanded, OutageKnown, Busy, Writing
    <2>3. Carries(buf') = Carries(buf) /\ Carries(samples') = Carries(samples)
        BY <2>1
    <2>4. OnePlace'
        BY <1>1, <2>1, <2>3 DEF HInv, OnePlace, Pending
    <2> QED BY <2>2, <2>4 DEF HInv
<1> QED BY <1>2, <1>3

LEMMA HWriteHeatpump == HInv /\ WriteHeatpump => HInv'
<1>1. SUFFICES ASSUME HInv, WriteHeatpump PROVE HInv'
    OBVIOUS
<1>2. CASE she # NULL /\ conn # "live"
    <2>1. GiveUp("none") /\ UNCHANGED <<relay, buf, dbUp, followed>> /\ pc = "heatpump"
        BY <1>1, <1>2 DEF WriteHeatpump
    <2>2. outage
        BY <1>1, <1>2, <2>1 DEF HInv, OutageKnown, Writing
    <2> QED BY <1>1, <2>1, <2>2, HGiveUp DEF Busy
<1>3. CASE ~(she # NULL /\ conn # "live")
    <2>1. /\ pc = "heatpump" /\ Asleep
          /\ UNCHANGED <<relay, buf, conn, rows, excused, dbUp, followed>>
        BY <1>1, <1>3 DEF WriteHeatpump
    <2>2. Sequenced' /\ EmptyHanded' /\ OutageKnown'
        BY <1>1, <2>1, CarriesNone
           DEF HInv, Sequenced, EmptyHanded, OutageKnown, Busy, Writing, Asleep
    <2>3. Carries(buf') = Carries(buf) /\ ~Carries(samples')
        BY <2>1, CarriesNone DEF Asleep
    <2>4. OnePlace'
        BY <1>1, <2>1, <2>3 DEF HInv, OnePlace, Pending, Asleep
    <2> QED BY <2>2, <2>4 DEF HInv
<1> QED BY <1>2, <1>3

LEMMA HRestart == HInv /\ Restart => HInv'
<1>1. SUFFICES ASSUME HInv, Restart PROVE HInv'
    OBVIOUS
<1>2. Sequenced' /\ EmptyHanded' /\ OutageKnown'
    <2>1. Sequenced'
        BY <1>1, CarriesNone DEF HInv, Sequenced, Busy, Restart, Asleep
    <2>2. EmptyHanded' /\ OutageKnown'
        BY <1>1 DEF HInv, EmptyHanded, OutageKnown, Writing, Restart, Asleep
    <2> QED BY <2>1, <2>2
<1>3. ~Carries(buf') /\ ~Carries(samples')
    BY <1>1, CarriesNone DEF Restart, Asleep
<1>4. OnePlace'
    BY <1>1, <1>3 DEF HInv, OnePlace, Pending, Restart
<1> QED BY <1>2, <1>4 DEF HInv

\* The pollers, the relay and the database's coming and going.
LEMMA HElse ==
    ASSUME HInv, relay' \in BOOLEAN, UNCHANGED <<buf, pc, samples, wayVars>>,
           \/ UNCHANGED <<conn, outage, dbUp>>
           \/ DatabaseFails \/ DatabaseReturns
    PROVE  HInv'
<1>1. Sequenced' /\ EmptyHanded'
    BY DEF HInv, Sequenced, EmptyHanded, Busy, wayVars, flushVars,
           DatabaseFails, DatabaseReturns
<1>2. OutageKnown'
    BY DEF HInv, Sequenced, OutageKnown, Busy, Writing, flushVars,
           DatabaseFails, DatabaseReturns
<1>3. Carries(buf') = Carries(buf) /\ Carries(samples') = Carries(samples)
    OBVIOUS
<1>4. OnePlace'
    BY <1>3 DEF HInv, OnePlace, Pending, wayVars
<1> QED BY <1>1, <1>2, <1>4 DEF HInv

LEMMA HStep == HInv /\ [Next]_vars => HInv'
<1>1. SUFFICES ASSUME HInv, [Next]_vars PROVE HInv'
    OBVIOUS
<1>2. CASE PollRelay \/ PollInverter \/ SwitchRelay
    BY <1>1, <1>2, HElse DEF HInv, Sequenced, PollRelay, PollInverter, SwitchRelay, flushVars
<1>3. CASE DatabaseFails \/ DatabaseReturns
    BY <1>1, <1>3, HElse DEF HInv, Sequenced, DatabaseFails, DatabaseReturns, flushVars
<1>4. CASE UNCHANGED vars
    BY <1>1, <1>4, HElse DEF HInv, Sequenced, vars, flushVars
<1> QED BY <1>1, <1>2, <1>3, <1>4, HTelegram, HSwap, HConnect, HWriteMeter, HWriteStrings,
           HWriteHeatpump, HRestart DEF Next, Flush

\* The flusher knows what it holds: each step of each thread keeps it.
THEOREM HistoryInvariance == Spec => []HInv
BY HInit, HStep, PTL DEF Spec

\* No telegram is counted in two minutes (_flush_once's swap and its error path).
THEOREM RecordsOnce == Spec => []CountedOnce
<1>1. HInv => CountedOnce
    BY DEF HInv, OnePlace, Pending, CountedOnce
<1> QED BY <1>1, HistoryInvariance, PTL

\* A minute is lost only to an outage during its flush, or to a restart
\* (live_conn, _flush_once).
THEOREM LosesOnlyInOutage == Spec => []LostOnlyInOutage
<1>1. HInv => LostOnlyInOutage
    BY DEF HInv, OnePlace, LostOnlyInOutage
<1> QED BY <1>1, HistoryInvariance, PTL

-----------------------------------------------------------------------------
(* Types, and what of the heat pump is in the minutes.                     *)

\* A buffer is as full as its bound at most, and is taken whole.
Fits(ts) == ts \in Seq(Telegrams) /\ Len(ts) <= Bound

Kinds ==
    /\ moved \in BOOLEAN /\ still \in BOOLEAN
    /\ lastShelly \in BOOLEAN \union {NULL} /\ lastInverter \in BOOLEAN
    /\ inv \in BOOLEAN /\ she \in BOOLEAN \union {NULL}
    /\ written \subseteq {"meter", "strings", "heatpump"}

LEMMA TypesSplit == HInv => (TypeOK <=> Kinds /\ Fits(buf) /\ Fits(samples))
<1>1. HInv => rows \in 0..2
    BY DEF HInv, OnePlace
<1> QED BY <1>1 DEF HInv, Sequenced, Busy, TypeOK, Kinds, Fits

LEMMA KindsStep == HInv /\ Kinds /\ [Next]_vars => Kinds'
<1> SUFFICES ASSUME HInv, Kinds, [Next]_vars PROVE Kinds'
    OBVIOUS
<1>1. relay \in BOOLEAN
    BY DEF HInv, Sequenced
<1>2. CASE Telegram
    BY <1>2 DEF Kinds, Telegram, flushVars
<1>3. CASE PollRelay \/ PollInverter \/ SwitchRelay
    BY <1>1, <1>3 DEF Kinds, PollRelay, PollInverter, SwitchRelay, flushVars
<1>4. CASE Swap
    BY <1>4 DEF Kinds, Swap
<1>5. CASE Connect
    BY <1>5 DEF Kinds, Connect, GiveUp, Asleep
<1>6. CASE WriteMeter \/ WriteStrings \/ WriteHeatpump
    BY <1>6 DEF Kinds, WriteMeter, WriteStrings, WriteHeatpump, GiveUp, Asleep
<1>7. CASE DatabaseFails \/ DatabaseReturns
    BY <1>7 DEF Kinds, DatabaseFails, DatabaseReturns, flushVars
<1>8. CASE Restart
    BY <1>8 DEF Kinds, Restart, Asleep
<1>9. CASE UNCHANGED vars
    BY <1>9 DEF Kinds, vars, flushVars
<1> QED BY <1>2, <1>3, <1>4, <1>5, <1>6, <1>7, <1>8, <1>9 DEF Next, Flush

LEMMA FitsStep ==
    HInv /\ Fits(buf) /\ Fits(samples) /\ [Next]_vars => Fits(buf') /\ Fits(samples')
<1> SUFFICES ASSUME HInv, Fits(buf), Fits(samples), [Next]_vars
             PROVE  Fits(buf') /\ Fits(samples')
    OBVIOUS
<1>1. Fits(<<>>)
    BY HistoryAssumption DEF Fits
<1>2. CASE Telegram
    <2>1. PICK f \in {FALSE, ~followed} : buf' = Append(buf, [draw |-> relay, followed |-> f])
        BY <1>2 DEF Telegram
    <2>2. [draw |-> relay, followed |-> f] \in Telegrams
        BY <2>1 DEF HInv, Sequenced, Telegrams
    <2>3. Len(buf) < Bound /\ samples' = samples
        BY <1>2 DEF Telegram, flushVars
    <2> HIDE DEF Telegrams
    <2>4. Len(buf') = Len(buf) + 1 /\ buf' \in Seq(Telegrams)
        BY <2>1, <2>2 DEF Fits
    <2> QED BY <2>3, <2>4, HistoryAssumption DEF Fits
<1>3. CASE ~Telegram
    <2>1. buf' \in {buf, <<>>} /\ samples' \in {samples, buf, <<>>}
        BY <1>3 DEF Next, Flush, PollRelay, PollInverter, SwitchRelay, Swap, Connect, WriteMeter,
           WriteStrings, WriteHeatpump, GiveUp, Asleep, DatabaseFails, DatabaseReturns, Restart,
           vars, flushVars
    <2> QED BY <1>1, <2>1
<1> QED BY <1>2, <1>3

\* Buffer, flush and history keep their types; buffers do not outgrow a minute.
THEOREM HistoryTypeCorrect == Spec => []TypeOK
<1>1. Init => Kinds /\ Fits(buf) /\ Fits(samples)
    <2>1. Fits(<<>>)
        BY HistoryAssumption DEF Fits
    <2>2. Init => Kinds
        BY DEF Init, Kinds
    <2> QED BY <2>1, <2>2 DEF Init
<1>2. HInv /\ TypeOK /\ [Next]_vars => TypeOK'
    <2>1. HInv' => rows' \in 0..2
        BY DEF HInv, OnePlace
    <2>2. HInv' => (TypeOK' <=> Kinds' /\ Fits(buf') /\ Fits(samples'))
        BY <2>1 DEF HInv, Sequenced, Busy, TypeOK, Kinds, Fits
    <2> QED BY <2>2, TypesSplit, KindsStep, FitsStep, HStep
<1>3. Init => TypeOK
    BY <1>1, HInit, TypesSplit
<1> QED BY <1>2, <1>3, HInit, HStep, PTL DEF Spec

\* Every telegram of these was sent while the relay was there.
SentWhile(ts, position) == \A i \in DOMAIN ts : ts[i].draw = position

\* While the relay has not moved the buffer tells where it is; and what is flushed
\* of a still minute was sent with the relay open.
SInv ==
    /\ moved = FALSE => SentWhile(buf, relay)
    /\ still = TRUE => SentWhile(samples, FALSE)

LEMMA SentNone == \A position : SentWhile(<<>>, position)
BY DEF SentWhile

LEMMA SentAppend ==
    ASSUME NEW ts \in Seq(Telegrams), NEW t \in Telegrams, NEW position,
           SentWhile(ts, position), t.draw = position
    PROVE  SentWhile(Append(ts, t), position)
<1>1. /\ DOMAIN ts = 1..Len(ts) /\ Len(ts) \in Nat
      /\ DOMAIN Append(ts, t) = 1..(Len(ts) + 1)
      /\ \A i \in 1..Len(ts) : Append(ts, t)[i] = ts[i]
      /\ Append(ts, t)[Len(ts) + 1] = t
    OBVIOUS
<1> QED BY <1>1 DEF SentWhile

LEMMA SStep == TypeOK /\ SInv /\ [Next]_vars => SInv'
<1> SUFFICES ASSUME TypeOK, SInv, [Next]_vars PROVE SInv'
    OBVIOUS
<1>1. CASE Telegram
    <2>1. PICK f \in {FALSE, ~followed} : buf' = Append(buf, [draw |-> relay, followed |-> f])
        BY <1>1 DEF Telegram
    <2>2. [draw |-> relay, followed |-> f] \in Telegrams
        BY <2>1 DEF TypeOK, Telegrams
    <2>3. moved = FALSE => SentWhile(buf', relay)
        BY <2>1, <2>2, SentAppend DEF TypeOK, SInv
    <2> QED BY <1>1, <2>3 DEF Telegram, SInv, flushVars
<1>2. CASE Swap
    <2>1. SentWhile(buf', relay')
        BY <1>2, SentNone DEF Swap
    <2>2. still' = TRUE => SentWhile(samples', FALSE)
        <3>1. SUFFICES ASSUME still' = TRUE PROVE SentWhile(buf, FALSE)
            BY <1>2 DEF Swap
        <3>2. moved = FALSE /\ relay = FALSE
            BY <1>2, <3>1 DEF Swap, TypeOK
        <3> QED BY <3>2 DEF SInv
    <2> QED BY <2>1, <2>2 DEF SInv
<1>3. CASE Connect \/ WriteMeter \/ WriteStrings \/ WriteHeatpump
    <2>1. moved' = moved /\ buf' = buf /\ relay' = relay
        BY <1>3 DEF Connect, WriteMeter, WriteStrings, WriteHeatpump
    <2>2. (samples' = samples /\ still' = still) \/ still' = FALSE
        BY <1>3 DEF Connect, WriteMeter, WriteStrings, WriteHeatpump, GiveUp, Asleep
    <2> QED BY <2>1, <2>2 DEF SInv
<1>4. CASE PollRelay \/ PollInverter \/ DatabaseFails \/ DatabaseReturns
    <2>1. /\ moved' = moved /\ buf' = buf /\ relay' = relay
          /\ samples' = samples /\ still' = still
        BY <1>4 DEF PollRelay, PollInverter, DatabaseFails, DatabaseReturns, flushVars
    <2> QED BY <2>1 DEF SInv
<1>5. CASE SwitchRelay
    BY <1>5 DEF SwitchRelay, flushVars, SInv
<1>6. CASE Restart
    BY <1>6, SentNone DEF Restart, Asleep, SInv
<1>7. CASE UNCHANGED vars
    BY <1>7 DEF vars, flushVars, SInv
<1> QED BY <1>1, <1>2, <1>3, <1>4, <1>5, <1>6, <1>7 DEF Next, Flush

\* No draw of the heat pump reaches a minute it was still open in, and so none
\* the base load's backfill, however the flush goes (_flush_once).
THEOREM SeedsStayClean == Spec => SeedsClean
<1>1. Init => SInv
    BY SentNone DEF Init, SInv
<1>2. TypeOK /\ SInv /\ [Next]_vars
        => [WriteHeatpump /\ TakenForOff /\ still => \A i \in DOMAIN samples : ~samples[i].draw]_vars
    <2>1. TypeOK /\ SInv /\ still => \A i \in DOMAIN samples : ~samples[i].draw
        BY DEF TypeOK, SInv, SentWhile
    <2> QED BY <2>1
<1> QED BY <1>1, <1>2, SStep, HistoryTypeCorrect, PTL DEF Spec, SeedsClean

=============================================================================
