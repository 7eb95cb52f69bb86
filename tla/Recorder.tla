------------------------------ MODULE Recorder ------------------------------
(***************************************************************************)
(* What a VenueRecorder notices and keeps an account of: the streams that  *)
(* fall silent, and the frames that an hour could not take.  Its only clock*)
(* is the receipt of frames, whichever stream they are of; a kill takes    *)
(* everything that is not in the ledger.                                   *)
(*                                                                         *)
(* A subscription is answered by frames under its own name or under the    *)
(* names the venue archives it as.                                         *)
(***************************************************************************)
EXTENDS Naturals, Sequences, FiniteSets, FiniteSetsExt

CONSTANTS
    Feeds,          \* the streams that are subscribed
    ArchivedAs,     \* feed -> the names its frames are filed under, if not its own
    DeclaredCadence,\* feed -> its polling interval, 0 for a pushed stream
    Grace, Ceiling, \* _SILENCE_CEILING_SECONDS, and how long any stream may be quiet
    SilenceWindow,  \* _SILENCE_WINDOW_FRAMES
    HourLength, DayLength,
    LastMoment,     \* bound: of the clock
    MaxSessions     \* bound: sessions started

StallMultiple == 3

ASSUME RecorderAssumption ==
    /\ Grace \in Nat \ {0} /\ Ceiling \in Nat /\ Ceiling >= Grace
    /\ SilenceWindow \in Nat \ {0} /\ HourLength \in Nat \ {0} /\ DayLength \in Nat \ {0}
    /\ DeclaredCadence \in [Feeds -> Nat]
    /\ LastMoment \in Nat /\ MaxSessions \in Nat

(* The names that frames are filed under.                                  *)
FiledAs(f) == IF ArchivedAs[f] = {} THEN {f} ELSE ArchivedAs[f]
Arriving == UNION {FiledAs(f) : f \in Feeds}
Names == Feeds \union Arriving
Moments == 0 .. LastMoment
Day(t) == t \div DayLength
Hour(t) == t \div HourLength
Never == LastMoment + 1

VARIABLES
    now,
    session,        \* the process: whether it runs, since when, and its next check
    lastFrame,      \* _last_frame_ns: name -> the moment, or Never
    recentGaps,     \* _recent_gaps_ns
    silentDays,     \* _recorded_silent_days
    quarantine,     \* _unwritable_hours: name -> the hour, and the frames lost in it
    unwritable,     \* the hour whose files a crash left damaged, if any
    silentRows,     \* the silent_stream rows of the ledger: feed and day
    totalRows,      \* <<name, hour>> -> frames in its unwritable_stream_total rows
    lost,           \* history: <<name, hour>> -> frames lost in accounts that no kill took
    sessions

sessionVars == <<session, lastFrame, recentGaps, silentDays, quarantine>>
recordVars == <<silentRows, totalRows, lost>>
recordingVars == <<now, sessionVars, unwritable, recordVars, sessions>>

Hours == 0 .. Hour(LastMoment)
NoHour == [hour |-> 0, lost |-> 0]

RecorderTypeOK ==
    /\ now \in Moments
    /\ session \in [up : BOOLEAN, since : Moments, check : Nat]
    /\ lastFrame \in [Names -> 0 .. Never]
    /\ recentGaps \in [Names -> Seq(Nat)] /\ \A n \in Names : Len(recentGaps[n]) <= SilenceWindow
    /\ silentDays \subseteq Feeds \X Nat
    /\ quarantine \in [Names -> [hour : Hours, lost : Nat]]
    /\ unwritable \subseteq Names \X Hours
    /\ silentRows \subseteq Feeds \X Nat
    /\ totalRows \in [Names \X Hours -> Nat] /\ lost \in [Names \X Hours -> Nat]
    /\ sessions \in 0 .. MaxSessions

NoSession == [up |-> FALSE, since |-> 0, check |-> 0]

RecorderInit ==
    /\ now = 0
    /\ session = NoSession
    /\ lastFrame = [n \in Names |-> Never]
    /\ recentGaps = [n \in Names |-> <<>>]
    /\ silentDays = {}
    /\ quarantine = [n \in Names |-> NoHour]
    /\ unwritable \in {{}} \union {{<<n, 0>>} : n \in Arriving}
    /\ silentRows = {}
    /\ totalRows = [x \in Names \X Hours |-> 0] /\ lost = [x \in Names \X Hours |-> 0]
    /\ sessions = 0

-----------------------------------------------------------------------------
(* quantile_ns, of a bag of gaps that is given as a sequence: the share is *)
(* num of den.  In order, it is the gap at a place counted from 0: the     *)
(* least that more gaps than those before the place do not exceed.         *)
Quantile(gaps, num, den) ==
    LET place == Min({(Len(gaps) * num) \div den, Len(gaps) - 1})
    IN  Min({gaps[j] : j \in {k \in DOMAIN gaps :
                Cardinality({i \in DOMAIN gaps : gaps[i] <= gaps[k]}) > place}})

(* What a stream does routinely, or is declared to do.                     *)
Routine(f, gaps) ==
    Max({DeclaredCadence[f], IF gaps[f] = <<>> THEN 0 ELSE Quantile(gaps[f], 9, 10)})

(* Mutant of ThresholdOf: a stream may be as slow as it was.               *)
ThresholdUncapped(f, gaps) == Max({Grace, StallMultiple * Routine(f, gaps)})

(* _silence_threshold_ns: three times its routine, between the grace and   *)
(* the ceiling.                                                            *)
ThresholdOf(f, gaps) == Min({Ceiling, Max({Grace, StallMultiple * Routine(f, gaps)})})

(* The moment a feed was last heard of, under any of its names.            *)
LastHeard(f, last, since) ==
    Max({IF last[f] = Never THEN since ELSE last[f]} \union
        {last[n] : n \in {m \in ArchivedAs[f] : last[m] # Never}})

(* _note_stream_spoke.                                                     *)
NoteSpoke(n) ==
    /\ lastFrame' = [lastFrame EXCEPT ![n] = now]
    /\ recentGaps' =
         IF lastFrame[n] = Never THEN recentGaps
         ELSE [recentGaps EXCEPT ![n] =
                 LET longer == Append(@, now - lastFrame[n])
                 IN  IF Len(longer) > SilenceWindow THEN Tail(longer) ELSE longer]

(* Which feeds _record_silent_streams writes a row of, one a day at most.  *)
FallenSilent(last, gaps) ==
    {f \in Feeds :
        /\ <<f, Day(now)>> \notin silentDays
        /\ now - LastHeard(f, last, session.since) >= ThresholdOf(f, gaps)}

RowsOfToday(feeds) == {<<f, Day(now)>> : f \in feeds}

(* _check_stream_health, after the frame: once in a while.                 *)
CheckHealth ==
    IF now < session.check
    THEN UNCHANGED <<session, silentDays, silentRows>>
    ELSE /\ session' = [session EXCEPT !.check = now + 1]
         /\ silentDays' = silentDays \union RowsOfToday(FallenSilent(lastFrame', recentGaps'))
         /\ silentRows' = silentRows \union RowsOfToday(FallenSilent(lastFrame', recentGaps'))

-----------------------------------------------------------------------------
Quarantined(n) == quarantine[n].lost > 0

(* The rows of the hours in q.                                             *)
WithTotals(names) ==
    [x \in Names \X Hours |->
        totalRows[x] + (IF x[1] \in names /\ quarantine[x[1]].hour = x[2]
                        THEN quarantine[x[1]].lost ELSE 0)]

Lose(n, h, so_far) ==
    /\ quarantine' = [quarantine EXCEPT ![n] = [hour |-> h, lost |-> so_far + 1]]
    /\ lost' = [lost EXCEPT ![<<n, h>>] = @ + 1]

(* Mutant of AppendOrQuarantine: what was lost in the hours that the stream*)
(* left behind is only forgotten.                                          *)
AppendOrForget(n) ==
    LET h == Hour(now) IN
    /\ UNCHANGED totalRows
    /\ IF Quarantined(n) /\ quarantine[n].hour = h THEN Lose(n, h, quarantine[n].lost)
       ELSE IF <<n, h>> \in unwritable THEN Lose(n, h, 0)
       ELSE quarantine' = [quarantine EXCEPT ![n] = NoHour] /\ UNCHANGED lost

(* _append_or_quarantine_stream: an hour that could not be written is not  *)
(* tried again; when the stream comes to another hour the account of the   *)
(* one before is put in the ledger.                                        *)
AppendOrQuarantine(n) ==
    LET h == Hour(now)
        left == Quarantined(n) /\ quarantine[n].hour # h
    IN
    /\ totalRows' = IF left THEN WithTotals({n}) ELSE totalRows
    /\ IF Quarantined(n) /\ ~left THEN Lose(n, h, quarantine[n].lost)
       ELSE IF <<n, h>> \in unwritable THEN Lose(n, h, 0)
       ELSE quarantine' = [quarantine EXCEPT ![n] = NoHour] /\ UNCHANGED lost

(* One frame through consume; bound: one of a name at a moment.            *)
Receive(n) ==
    /\ session.up /\ lastFrame[n] # now
    /\ NoteSpoke(n)
    /\ AppendOrQuarantine(n)
    /\ CheckHealth
    /\ UNCHANGED <<now, unwritable, sessions>>

StartSession ==
    /\ ~session.up /\ sessions < MaxSessions
    /\ session' = [up |-> TRUE, since |-> now, check |-> 0]
    /\ sessions' = sessions + 1
    /\ UNCHANGED <<now, lastFrame, recentGaps, silentDays, quarantine, unwritable, recordVars>>

(* The memory of the process is gone.                                      *)
Forget ==
    /\ session' = NoSession
    /\ lastFrame' = [n \in Names |-> Never]
    /\ recentGaps' = [n \in Names |-> <<>>]
    /\ silentDays' = {}
    /\ quarantine' = [n \in Names |-> NoHour]

(* close, when frames end or raise: the accounts, and the silence of now.  *)
CloseSession ==
    /\ session.up
    /\ totalRows' = WithTotals({n \in Names : Quarantined(n)})
    /\ silentRows' = silentRows \union RowsOfToday(FallenSilent(lastFrame, recentGaps))
    /\ Forget
    /\ UNCHANGED <<now, unwritable, lost, sessions>>

(* What was not in the ledger is forgotten; the account of these hours is  *)
(* lost for good.                                                          *)
KillSession ==
    /\ session.up
    /\ lost' = [x \in Names \X Hours |->
                   IF Quarantined(x[1]) /\ quarantine[x[1]].hour = x[2]
                   THEN lost[x] - quarantine[x[1]].lost ELSE lost[x]]
    /\ Forget
    /\ UNCHANGED <<now, unwritable, silentRows, totalRows, sessions>>

ClockMoves ==
    /\ now < LastMoment
    /\ now' = now + 1
    /\ UNCHANGED <<sessionVars, unwritable, recordVars, sessions>>

RecorderNext ==
    \/ \E n \in Arriving : Receive(n)
    \/ StartSession \/ CloseSession \/ KillSession \/ ClockMoves

-----------------------------------------------------------------------------
(* A stream that was quiet for the longest time any stream may be has its  *)
(* row in the ledger of the day, each day anew, once a frame of any other  *)
(* stream let the recorder look: no cadence that a stream has shown or     *)
(* declared, and no row of an earlier day, excuses it.                     *)
SilenceIsOnRecord ==
    session.up /\ session.check > now =>
        \A f \in Feeds :
            now - LastHeard(f, lastFrame, session.since) >= Ceiling =>
                <<f, Day(now)>> \in silentRows

(* Every frame that reached the recorder and could not be stored is in the *)
(* ledger's total of its hour, or in the account that is still open; only a*)
(* kill loses an account.                                                  *)
LossesAreOnRecord ==
    \A n \in Names : \A h \in Hours :
        lost[<<n, h>>] = totalRows[<<n, h>>] +
            (IF quarantine[n].hour = h THEN quarantine[n].lost ELSE 0)

(* What was not received and what could not be kept are both on record.    *)
AbsenceIsOnRecord == SilenceIsOnRecord /\ LossesAreOnRecord
=============================================================================
