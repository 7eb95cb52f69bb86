---------------------------- MODULE AbsenceProofs ----------------------------
(***************************************************************************)
(* That what was not recorded is on record, and that datasets of polls and *)
(* reconstructions are whole as far as they claim, for any streams,        *)
(* datasets, symbols and bounds.  The recorder, the datasets of polls and  *)
(* the reconstructions each have an invariant, and a behaviour of MCHost   *)
(* takes the steps of one of them.                                         *)
(***************************************************************************)
EXTENDS Integers, MCHost, LineLogProofs, FiniteSetTheorems

LEMMA LargestIn ==
    ASSUME NEW top \in Nat, NEW S \in SUBSET (0..top), S # {}
    PROVE  Max(S) \in S /\ \A x \in S : x <= Max(S)
<1> DEFINE I == {x + 1 : x \in S}
<1>1. I \in SUBSET (1..(top + 1)) /\ I # {} /\ top + 1 \in Nat
    <2>1. PICK x \in S : TRUE
        OBVIOUS
    <2>2. x + 1 \in I
        BY <2>1
    <2>3. \A i \in I : i \in 1..(top + 1)
        OBVIOUS
    <2> QED BY <2>2, <2>3
<1>2. Last(I) \in I /\ \A j \in I : j <= Last(I)
    <2> HIDE DEF I
    <2> QED BY <1>1, LastIn
<1>3. PICK m \in S : Last(I) = m + 1
    BY <1>2
<1>4. \A x \in S : m >= x
    <2> SUFFICES ASSUME NEW x \in S PROVE m >= x
        OBVIOUS
    <2>1. x + 1 <= m + 1
        BY <1>2, <1>3
    <2> QED BY <2>1
<1>5. Max(S) \in S /\ \A x \in S : Max(S) >= x
    BY <1>4, Zenon DEF Max
<1> QED BY <1>5

LEMMA LargestOrNone ==
    ASSUME NEW top \in Nat, NEW S \in SUBSET (0..top)
    PROVE  LET m == Max({-1} \union S) IN
           m \in {-1} \union S /\ m \in Int /\ \A x \in S : x <= m
<1> DEFINE I == {x + 1 : x \in {-1} \union S}
<1>1. I \in SUBSET (0..(top + 1)) /\ I # {} /\ top + 1 \in Nat
    <2>1. -1 + 1 \in I
        OBVIOUS
    <2>2. \A i \in I : i \in 0..(top + 1)
        OBVIOUS
    <2> QED BY <2>1, <2>2
<1>2. Max(I) \in I /\ \A j \in I : j <= Max(I)
    <2> HIDE DEF I
    <2> QED BY <1>1, LargestIn
<1>3. PICK m \in {-1} \union S : Max(I) = m + 1
    BY <1>2
<1>4. m \in Int /\ \A x \in {-1} \union S : x \in Int
    <2>1. \A x \in S : x \in 0..top
        OBVIOUS
    <2> QED BY <2>1
<1>5. \A x \in {-1} \union S : m >= x
    <2> SUFFICES ASSUME NEW x \in {-1} \union S PROVE m >= x
        OBVIOUS
    <2>1. x \in Int /\ x + 1 \in I
        BY <1>4
    <2>2. x + 1 <= m + 1
        <3> HIDE DEF I
        <3> QED BY <1>2, <1>3, <2>1
    <2> QED BY <1>4, <2>1, <2>2
<1>6. Max({-1} \union S) \in {-1} \union S /\ \A x \in {-1} \union S : Max({-1} \union S) >= x
    BY <1>5, Zenon DEF Max
<1>7. Max({-1} \union S) \in Int /\ \A x \in S : x \in Int
    BY <1>4, <1>6
<1> QED BY <1>6, <1>7

LEMMA LeastIn ==
    ASSUME NEW top \in Nat, NEW S \in SUBSET (0..top), S # {}
    PROVE  Min(S) \in S /\ \A x \in S : Min(S) <= x
<1> DEFINE I == {top - x : x \in S}
<1>1. I \in SUBSET (0..top) /\ I # {}
    <2>1. PICK x \in S : TRUE
        OBVIOUS
    <2>2. top - x \in I
        BY <2>1
    <2>3. \A i \in I : i \in 0..top
        OBVIOUS
    <2> QED BY <2>2, <2>3
<1>2. Max(I) \in I /\ \A j \in I : j <= Max(I)
    <2> HIDE DEF I
    <2> QED BY <1>1, LargestIn
<1>3. PICK m \in S : Max(I) = top - m
    BY <1>2
<1>4. \A x \in S : m <= x
    <2> SUFFICES ASSUME NEW x \in S PROVE m <= x
        OBVIOUS
    <2>1. top - x <= top - m
        BY <1>2, <1>3
    <2> QED BY <2>1
<1>5. Min(S) \in S /\ \A x \in S : Min(S) <= x
    BY <1>4, Zenon DEF Min
<1> QED BY <1>5

LEMMA LargerOfTwo ==
    ASSUME NEW x \in Int, NEW y \in Int
    PROVE  Max({x, y}) = IF x >= y THEN x ELSE y
BY DEF Max

LEMMA LesserOfTwo ==
    ASSUME NEW x \in Int, NEW y \in Int
    PROVE  Min({x, y}) = IF x <= y THEN x ELSE y
BY DEF Min

LEMMA RoundedDown ==
    ASSUME NEW t \in Nat, NEW u \in Nat, NEW d \in Nat \ {0}, t <= u
    PROVE  t \div d \in Nat /\ t \div d <= u \div d
<1>1. /\ t \div d \in Int /\ d * (t \div d) <= t /\ t < d * (t \div d) + d
      /\ u \div d \in Int /\ d * (u \div d) <= u /\ u < d * (u \div d) + d
    OBVIOUS
<1>2. PICK q \in Int, r \in Int : q = t \div d /\ r = u \div d
    BY <1>1
<1>3. ~(q > r)
    <2> SUFFICES ASSUME q > r PROVE FALSE
        OBVIOUS
    <2>1. PICK k \in Nat : q = r + 1 + k
        <3>1. q - r - 1 \in Nat /\ q = r + 1 + (q - r - 1)
            OBVIOUS
        <3> QED BY <3>1
    <2>2. d * q = d * r + d + d * k /\ d * k >= 0
        BY <2>1
    <2> QED BY <1>1, <1>2, <2>2
<1>4. q >= 0
    <2> SUFFICES ASSUME q < 0 PROVE FALSE
        OBVIOUS
    <2>1. PICK k \in Nat : q = -1 - k
        <3>1. -1 - q \in Nat /\ q = -1 - (-1 - q)
            OBVIOUS
        <3> QED BY <3>1
    <2>2. d * q = -d - d * k /\ d * k >= 0
        BY <2>1
    <2> QED BY <1>1, <1>2, <2>2
<1> QED BY <1>2, <1>3, <1>4

-----------------------------------------------------------------------------
(* The recorder.  What it remembers is of the past; its next check is a    *)
(* moment away at most; and what it will not repeat today is in the ledger.*)

RecorderShape ==
    /\ now \in Moments
    /\ session \in [up : BOOLEAN, since : 0..now, check : 0..(now + 1)]
    /\ lastFrame \in [Names -> (0..now) \union {Never}]
    /\ recentGaps \in [Names -> Seq(Moments)]
    /\ silentDays \subseteq silentRows

AccountShape ==
    /\ quarantine \in [Names -> [hour : Hours, lost : Nat]]
    /\ totalRows \in [Names \X Hours -> Nat] /\ lost \in [Names \X Hours -> Nat]

RecorderInv == RecorderShape /\ AccountShape /\ SilenceIsOnRecord /\ LossesAreOnRecord

LEMMA MomentFacts ==
    /\ LastMoment \in Nat /\ Moments = 0..LastMoment /\ Never = LastMoment + 1 /\ Never \notin Moments
    /\ \A f \in Feeds : f \in Names /\ ArchivedAs[f] \subseteq Names
    /\ Arriving \subseteq Names
<1>1. \A f \in Feeds : ArchivedAs[f] \subseteq FiledAs(f)
    BY DEF FiledAs
<1> QED BY <1>1, RecorderAssumption DEF Moments, Never, Names, Arriving

LEMMA HourFacts ==
    ASSUME NEW t \in Moments
    PROVE  Hour(t) \in Hours
BY RecorderAssumption, MomentFacts, RoundedDown DEF Hour, Hours

LEMMA QuantileTyped ==
    ASSUME NEW gaps \in Seq(Moments), gaps # <<>>
    PROVE  Quantile(gaps, 9, 10) \in Nat
<1> DEFINE spot == Min({(Len(gaps) * 9) \div 10, Len(gaps) - 1})
           Under(k) == {i \in DOMAIN gaps : gaps[i] <= gaps[k]}
           G == {gaps[j] : j \in DOMAIN gaps}
           Q == {gaps[j] : j \in {k \in DOMAIN gaps : Cardinality(Under(k)) > spot}}
<1>1. Len(gaps) \in Nat /\ DOMAIN gaps = 1..Len(gaps) /\ Len(gaps) > 0
    OBVIOUS
<1>2. spot \in Int /\ spot <= Len(gaps) - 1
    <2>1. (Len(gaps) * 9) \div 10 \in Int /\ Len(gaps) - 1 \in Int
        BY <1>1
    <2> QED BY <2>1, LesserOfTwo
<1> HIDE DEF spot
<1>3. G \in SUBSET (0..LastMoment) /\ G # {} /\ Q \subseteq G
    <2>1. \A j \in DOMAIN gaps : gaps[j] \in 0..LastMoment
        BY MomentFacts
    <2>2. gaps[1] \in G
        BY <1>1
    <2> QED BY <2>1, <2>2
<1>4. PICK k \in DOMAIN gaps : \A i \in DOMAIN gaps : gaps[i] <= gaps[k]
    <2>1. LastMoment \in Nat
        BY MomentFacts
    <2>2. Max(G) \in G /\ \A x \in G : x <= Max(G)
        <3> HIDE DEF G
        <3> QED BY <1>3, <2>1, LargestIn, Zenon
    <2>3. PICK k \in DOMAIN gaps : Max(G) = gaps[k]
        BY <2>2
    <2>4. \A i \in DOMAIN gaps : gaps[i] \in G
        OBVIOUS
    <2> HIDE DEF G
    <2> QED BY <2>2, <2>3, <2>4
<1>5. Under(k) = 1..Len(gaps)
    BY <1>1, <1>4
<1>6. Cardinality(Under(k)) = Len(gaps)
    <2>1. Cardinality(1..Len(gaps)) = IF 1 > Len(gaps) THEN 0 ELSE Len(gaps) - 1 + 1
        BY <1>1, FS_Interval
    <2>2. Cardinality(1..Len(gaps)) = Len(gaps)
        BY <1>1, <2>1
    <2> QED BY <1>5, <2>2
<1>7. gaps[k] \in Q
    <2>1. Cardinality(Under(k)) > spot
        <3> HIDE DEF Under
        <3> QED BY <1>1, <1>2, <1>6
    <2> HIDE DEF Under
    <2> QED BY <1>4, <2>1
<1>8. Q \in SUBSET (0..LastMoment) /\ Q # {}
    BY <1>3, <1>7
<1>9. Min(Q) \in Nat
    <2> HIDE DEF Q
    <2>1. LastMoment \in Nat
        BY MomentFacts
    <2>2. Min(Q) \in Q
        <3>1. PICK S \in SUBSET (0..LastMoment) : S = Q /\ S # {}
            BY <1>8
        <3>2. Min(S) \in S
            BY <2>1, <3>1, LeastIn, Zenon
        <3> QED BY <3>1, <3>2
    <2>3. Min(Q) \in 0..LastMoment
        BY <1>8, <2>2, Zenon
    <2> QED BY <2>1, <2>3
<1> QED BY <1>9 DEF Quantile, spot

(* However slow a stream has been, nothing is expected of it later than    *)
(* the ceiling.                                                            *)
LEMMA ThresholdCapped ==
    ASSUME NEW f \in Feeds, NEW gaps \in [Names -> Seq(Moments)]
    PROVE  ThresholdOf(f, gaps) \in Int /\ ThresholdOf(f, gaps) <= Ceiling
<1>1. f \in Names /\ gaps[f] \in Seq(Moments) /\ DeclaredCadence[f] \in Nat
    BY MomentFacts, RecorderAssumption
<1> DEFINE shown == IF gaps[f] = <<>> THEN 0 ELSE Quantile(gaps[f], 9, 10)
<1>2. shown \in Nat
    BY <1>1, QuantileTyped
<1>3. Routine(f, gaps) \in Nat
    <2>1. Routine(f, gaps) = Max({DeclaredCadence[f], shown})
        BY DEF Routine
    <2> HIDE DEF shown
    <2> QED BY <1>1, <1>2, <2>1, LargerOfTwo
<1>4. StallMultiple * Routine(f, gaps) \in Nat /\ Grace \in Nat /\ Ceiling \in Nat
    BY <1>3, RecorderAssumption DEF StallMultiple
<1>5. Max({Grace, StallMultiple * Routine(f, gaps)}) \in Int
    BY <1>4, LargerOfTwo
<1> QED BY <1>4, <1>5, LesserOfTwo, SMTT(60) DEF ThresholdOf

HeardMoments(f, last, since) ==
    {IF last[f] = Never THEN since ELSE last[f]} \union
        {last[n] : n \in {m \in ArchivedAs[f] : last[m] # Never}}

LEMMA HeardIn ==
    ASSUME NEW t \in Moments, NEW f \in Feeds, NEW last \in [Names -> (0..t) \union {Never}],
           NEW since \in 0..t
    PROVE  /\ LastHeard(f, last, since) \in HeardMoments(f, last, since)
           /\ \A x \in HeardMoments(f, last, since) : x <= LastHeard(f, last, since)
           /\ LastHeard(f, last, since) \in 0..t
<1>1. HeardMoments(f, last, since) \in SUBSET (0..t) /\ HeardMoments(f, last, since) # {}
    BY MomentFacts DEF HeardMoments
<1>2. LastHeard(f, last, since) = Max(HeardMoments(f, last, since))
    BY DEF LastHeard, HeardMoments
<1>3. t \in Nat
    BY MomentFacts
<1>4. /\ Max(HeardMoments(f, last, since)) \in HeardMoments(f, last, since)
      /\ \A x \in HeardMoments(f, last, since) : x <= Max(HeardMoments(f, last, since))
    BY <1>1, <1>3, LargestIn, Zenon
<1> QED BY <1>1, <1>2, <1>4

(* A frame makes no feed be heard of earlier.                              *)
LEMMA HeardLater ==
    ASSUME NEW t \in Moments, NEW f \in Feeds, NEW last \in [Names -> (0..t) \union {Never}],
           NEW since \in 0..t, NEW n \in Names
    PROVE  LastHeard(f, last, since) <= LastHeard(f, [last EXCEPT ![n] = t], since)
<1> DEFINE later == [last EXCEPT ![n] = t]
<1>1. later \in [Names -> (0..t) \union {Never}] /\ t \in 0..t
    BY MomentFacts
<1>2. \A m \in Names : later[m] = IF m = n THEN t ELSE last[m]
    OBVIOUS
<1>3. \A x \in HeardMoments(f, last, since) : \E y \in HeardMoments(f, later, since) : x <= y
    <2> SUFFICES ASSUME NEW x \in HeardMoments(f, last, since)
                 PROVE  \E y \in HeardMoments(f, later, since) : x <= y
        OBVIOUS
    <2> HIDE DEF later
    <2>1. x \in 0..t
        BY MomentFacts DEF HeardMoments
    <2>2. t # Never
        BY MomentFacts
    <2>3. CASE x = IF last[f] = Never THEN since ELSE last[f]
        <3>1. (IF later[f] = Never THEN since ELSE later[f]) \in {x, t}
            BY <1>2, <2>2, <2>3, MomentFacts
        <3>2. (IF later[f] = Never THEN since ELSE later[f]) \in HeardMoments(f, later, since)
            BY DEF HeardMoments
        <3> QED BY <2>1, <3>1, <3>2, MomentFacts
    <2>4. CASE \E m \in ArchivedAs[f] : last[m] # Never /\ x = last[m]
        <3>1. PICK m \in ArchivedAs[f] : last[m] # Never /\ x = last[m]
            BY <2>4
        <3>2. later[m] \in {x, t} /\ later[m] # Never
            BY <1>2, <2>2, <3>1, MomentFacts
        <3>3. later[m] \in HeardMoments(f, later, since)
            BY <3>2 DEF HeardMoments
        <3>4. x <= t /\ x <= x
            BY <2>1, MomentFacts
        <3> QED BY <3>2, <3>3, <3>4
    <2> QED BY <2>3, <2>4 DEF HeardMoments
<1>4. PICK y \in HeardMoments(f, later, since) : LastHeard(f, last, since) <= y
    BY <1>3, HeardIn
<1>5. /\ y <= LastHeard(f, later, since) /\ LastHeard(f, later, since) \in 0..t
      /\ LastHeard(f, last, since) \in 0..t /\ y \in 0..t
    <2> HIDE DEF later
    <2> QED BY <1>1, HeardIn, MomentFacts, ZenonT(60) DEF HeardMoments
<1> QED BY <1>4, <1>5

LEMMA RecorderStarts == RecorderInit => RecorderInv
<1> SUFFICES ASSUME RecorderInit PROVE RecorderInv
    OBVIOUS
<1> USE DEF RecorderInit
<1>1. 0 \in Moments /\ 0 \in Hours /\ <<>> \in Seq(Moments)
    <2>1. 0 \in Moments
        BY MomentFacts
    <2>2. LastMoment \div HourLength \in Nat
        <3>1. LastMoment \in Nat /\ HourLength \in Nat \ {0} /\ LastMoment <= LastMoment
            BY MomentFacts, RecorderAssumption
        <3> QED BY <3>1, RoundedDown
    <2> QED BY <2>1, <2>2 DEF Hours, Hour
<1>2. RecorderShape
    BY <1>1 DEF RecorderShape, NoSession
<1>3. AccountShape
    BY <1>1 DEF AccountShape, NoHour
<1>4. SilenceIsOnRecord
    BY DEF SilenceIsOnRecord, NoSession
<1>5. LossesAreOnRecord
    BY DEF LossesAreOnRecord, NoHour
<1> QED BY <1>2, <1>3, <1>4, <1>5 DEF RecorderInv

LEMMA SpokeTyped ==
    ASSUME RecorderInv, NEW n \in Arriving, NoteSpoke(n)
    PROVE  /\ n \in Names /\ lastFrame' = [lastFrame EXCEPT ![n] = now]
           /\ lastFrame' \in [Names -> (0..now) \union {Never}]
           /\ recentGaps' \in [Names -> Seq(Moments)]
<1> USE DEF RecorderInv, RecorderShape
<1>1. n \in Names /\ now \in 0..now /\ now \in 0..LastMoment /\ LastMoment \in Nat
    BY MomentFacts
<1>2. /\ lastFrame' = [lastFrame EXCEPT ![n] = now]
      /\ lastFrame' \in [Names -> (0..now) \union {Never}]
    BY <1>1 DEF NoteSpoke
<1>3. recentGaps' \in [Names -> Seq(Moments)]
    <2>1. CASE lastFrame[n] = Never
        BY <2>1 DEF NoteSpoke
    <2>2. CASE lastFrame[n] # Never
        <3> DEFINE longer == Append(recentGaps[n], now - lastFrame[n])
                   kept == IF Len(longer) > SilenceWindow THEN Tail(longer) ELSE longer
        <3>1. now - lastFrame[n] \in Moments
            BY <1>1, <2>2, MomentFacts
        <3>2. longer \in Seq(Moments) /\ longer # <<>>
            BY <1>1, <3>1
        <3>3. kept \in Seq(Moments)
            <4> HIDE DEF longer
            <4> QED BY <3>2
        <3>4. recentGaps' = [recentGaps EXCEPT ![n] = kept]
            BY <2>2 DEF NoteSpoke
        <3> HIDE DEF kept
        <3> QED BY <1>1, <3>3, <3>4
    <2> QED BY <2>1, <2>2
<1> QED BY <1>1, <1>2, <1>3

LEMMA HealthIsChecked ==
    ASSUME RecorderInv, NEW n \in Arriving, NoteSpoke(n), CheckHealth, session.up, UNCHANGED now
    PROVE  RecorderShape' /\ SilenceIsOnRecord'
<1> USE DEF RecorderInv
<1>1. /\ n \in Names /\ lastFrame' = [lastFrame EXCEPT ![n] = now]
      /\ lastFrame' \in [Names -> (0..now) \union {Never}]
      /\ recentGaps' \in [Names -> Seq(Moments)]
    BY SpokeTyped
<1>2. /\ session.up \in BOOLEAN /\ session.since \in 0..now /\ session.check \in 0..(now + 1)
      /\ now \in Moments /\ now \in Nat
    BY MomentFacts DEF RecorderShape
<1>3. CASE now < session.check
    <2>1. UNCHANGED <<session, silentDays, silentRows>>
        BY <1>3 DEF CheckHealth
    <2>2. RecorderShape'
        BY <1>1, <2>1 DEF RecorderShape
    <2>3. SilenceIsOnRecord'
        <3> SUFFICES ASSUME NEW f \in Feeds,
                            now - LastHeard(f, lastFrame', session.since) >= Ceiling
                     PROVE  <<f, Day(now)>> \in silentRows
            BY <2>1 DEF SilenceIsOnRecord
        <3>1. /\ LastHeard(f, lastFrame, session.since) \in 0..now
              /\ LastHeard(f, lastFrame', session.since) \in 0..now
            BY <1>1, <1>2, HeardIn DEF RecorderShape
        <3>2. LastHeard(f, lastFrame, session.since) <= LastHeard(f, lastFrame', session.since)
            BY <1>1, <1>2, HeardLater DEF RecorderShape
        <3>3. Ceiling \in Nat
            BY RecorderAssumption
        <3>4. now - LastHeard(f, lastFrame, session.since) >= Ceiling
            BY <1>2, <3>1, <3>2, <3>3
        <3> QED BY <1>2, <1>3, <3>4 DEF SilenceIsOnRecord
    <2> QED BY <2>2, <2>3
<1>4. CASE ~(now < session.check)
    <2> DEFINE fallen == FallenSilent(lastFrame', recentGaps')
    <2>1. /\ session' = [session EXCEPT !.check = now + 1]
          /\ silentDays' = silentDays \union RowsOfToday(fallen)
          /\ silentRows' = silentRows \union RowsOfToday(fallen)
        BY <1>4 DEF CheckHealth
    <2>2. session' \in [up : BOOLEAN, since : 0..now, check : 0..(now + 1)]
        BY <1>2, <2>1 DEF RecorderShape
    <2>3. session'.since = session.since
        BY <2>1 DEF RecorderShape
    <2>4. RecorderShape'
        <3> HIDE DEF fallen
        <3> QED BY <1>1, <2>1, <2>2 DEF RecorderShape
    <2>5. SilenceIsOnRecord'
        <3> SUFFICES ASSUME NEW f \in Feeds,
                            now - LastHeard(f, lastFrame', session.since) >= Ceiling
                     PROVE  <<f, Day(now)>> \in silentRows'
            BY <2>3 DEF SilenceIsOnRecord
        <3>1. LastHeard(f, lastFrame', session.since) \in 0..now
            BY <1>1, <1>2, HeardIn
        <3>2. ThresholdOf(f, recentGaps') \in Int /\ ThresholdOf(f, recentGaps') <= Ceiling
            BY <1>1, ThresholdCapped
        <3>3. Ceiling \in Nat
            BY RecorderAssumption
        <3>4. now - LastHeard(f, lastFrame', session.since) >= ThresholdOf(f, recentGaps')
            BY <1>2, <3>1, <3>2, <3>3
        <3>5. CASE <<f, Day(now)>> \in silentDays
            BY <2>1, <3>5 DEF RecorderShape
        <3>6. CASE <<f, Day(now)>> \notin silentDays
            <4>1. f \in fallen
                BY <3>4, <3>6 DEF FallenSilent
            <4> HIDE DEF fallen
            <4> QED BY <2>1, <4>1 DEF RowsOfToday
        <3> QED BY <3>5, <3>6
    <2> QED BY <2>4, <2>5
<1> QED BY <1>3, <1>4

LEMMA NoHourFacts == NoHour \in [hour : Hours, lost : Nat] /\ NoHour.lost = 0
<1>1. LastMoment \div HourLength \in Nat
    BY RecorderAssumption, RoundedDown
<1>2. 0 \in Hours
    BY <1>1 DEF Hour, Hours
<1> QED BY <1>2 DEF NoHour

LEMMA RowsTyped ==
    ASSUME AccountShape, NEW S
    PROVE  /\ WithTotals(S) \in [Names \X Hours -> Nat]
           /\ \A n \in Names, h \in Hours :
                WithTotals(S)[<<n, h>>] = totalRows[<<n, h>>] +
                    (IF n \in S /\ quarantine[n].hour = h THEN quarantine[n].lost ELSE 0)
<1>1. \A x \in Names \X Hours :
        /\ totalRows[x] \in Nat /\ quarantine[x[1]].lost \in Nat
        /\ totalRows[x] + (IF x[1] \in S /\ quarantine[x[1]].hour = x[2]
                           THEN quarantine[x[1]].lost ELSE 0) \in Nat
    BY DEF AccountShape
<1> QED BY <1>1 DEF WithTotals

(* What the open account of n says of the hour h.                          *)
OpenAccount(n, h) == IF quarantine[n].hour = h THEN quarantine[n].lost ELSE 0

(* What is lost, but for the account of n in the hour h, which is k.       *)
AllButOne(n, h, k, totals) ==
    /\ lost[<<n, h>>] = totals[<<n, h>>] + k
    /\ \A m \in Names : \A g \in Hours :
        m # n \/ g # h =>
            lost[<<m, g>>] = totals[<<m, g>>] + (IF m = n THEN 0 ELSE OpenAccount(m, g))

(* One more frame is lost, in an hour that has the account or begins it.   *)
LEMMA OneMoreLost ==
    ASSUME AccountShape, NEW n \in Names, NEW h \in Hours, NEW k \in Nat, Lose(n, h, k),
           NEW totals \in [Names \X Hours -> Nat], totalRows' = totals, AllButOne(n, h, k, totals)
    PROVE  AccountShape' /\ LossesAreOnRecord'
<1> USE DEF AllButOne
<1> DEFINE entry == [hour |-> h, lost |-> k + 1]
<1>1. entry \in [hour : Hours, lost : Nat] /\ entry.hour = h /\ entry.lost = k + 1
    OBVIOUS
<1>2. /\ quarantine' = [quarantine EXCEPT ![n] = entry]
      /\ lost' = [lost EXCEPT ![<<n, h>>] = lost[<<n, h>>] + 1]
    BY DEF Lose
<1> HIDE DEF entry
<1>3. <<n, h>> \in Names \X Hours /\ lost[<<n, h>>] + 1 \in Nat
    BY DEF AccountShape
<1>4. AccountShape'
    BY <1>1, <1>2, <1>3 DEF AccountShape
<1>5. LossesAreOnRecord'
    <2> SUFFICES ASSUME NEW m \in Names, NEW g \in Hours
                 PROVE  lost'[<<m, g>>] = totals[<<m, g>>] +
                          (IF quarantine'[m].hour = g THEN quarantine'[m].lost ELSE 0)
        BY DEF LossesAreOnRecord
    <2>1. <<m, g>> \in Names \X Hours /\ (<<m, g>> = <<n, h>> <=> m = n /\ g = h)
        OBVIOUS
    <2>2. totals[<<m, g>>] \in Nat
        BY <2>1
    <2>3. quarantine'[m] = IF m = n THEN entry ELSE quarantine[m]
        BY <1>2 DEF AccountShape
    <2>4. lost'[<<m, g>>] = IF m = n /\ g = h THEN lost[<<n, h>>] + 1 ELSE lost[<<m, g>>]
        BY <1>2, <2>1 DEF AccountShape
    <2>5. CASE m = n /\ g = h
        BY <1>1, <2>2, <2>3, <2>4, <2>5
    <2>6. CASE ~(m = n /\ g = h)
        BY <1>1, <2>2, <2>3, <2>4, <2>6 DEF OpenAccount
    <2> QED BY <2>5, <2>6
<1> QED BY <1>4, <1>5

LEMMA FrameIsAccounted ==
    ASSUME RecorderInv, NEW n \in Names, AppendOrQuarantine(n)
    PROVE  AccountShape' /\ LossesAreOnRecord'
<1> USE DEF Quarantined
<1> DEFINE h == Hour(now)
           left == quarantine[n].lost > 0 /\ quarantine[n].hour # h
           totals == IF left THEN WithTotals({n}) ELSE totalRows
<1>1. h \in Hours
    BY HourFacts DEF RecorderInv, RecorderShape
<1>2. AccountShape /\ LossesAreOnRecord
    BY DEF RecorderInv
<1>3. totals \in [Names \X Hours -> Nat]
    BY <1>2, RowsTyped DEF AccountShape
<1>4. \A m \in Names : quarantine[m].hour \in Hours /\ quarantine[m].lost \in Nat
    BY <1>2 DEF AccountShape
<1>5. \A m \in Names, g \in Hours :
        /\ totalRows[<<m, g>>] \in Nat /\ OpenAccount(m, g) \in Nat
        /\ lost[<<m, g>>] = totalRows[<<m, g>>] + OpenAccount(m, g)
    <2>1. \A m \in Names, g \in Hours : <<m, g>> \in Names \X Hours
        OBVIOUS
    <2> QED BY <1>2, <1>4, <2>1 DEF AccountShape, LossesAreOnRecord, OpenAccount
<1>6. ASSUME NEW m \in Names, NEW g \in Hours
      PROVE  totals[<<m, g>>] =
                totalRows[<<m, g>>] + (IF left /\ m = n THEN OpenAccount(m, g) ELSE 0)
    <2>1. totalRows[<<m, g>>] \in Nat
        BY <1>5
    <2>2. CASE left
        <3>1. totals = WithTotals({n})
            BY <2>2
        <3>2. WithTotals({n})[<<m, g>>] = totalRows[<<m, g>>] +
                (IF m \in {n} /\ quarantine[m].hour = g THEN quarantine[m].lost ELSE 0)
            BY <1>2, RowsTyped
        <3> HIDE DEF totals, h
        <3> QED BY <2>2, <3>1, <3>2 DEF OpenAccount
    <2>3. CASE ~left
        <3>1. totals = totalRows
            BY <2>3
        <3> HIDE DEF totals, h
        <3> QED BY <2>1, <2>3, <3>1
    <2> QED BY <2>2, <2>3
<1>7. totalRows' = totals
    BY DEF AppendOrQuarantine
<1>8. CASE Quarantined(n) /\ ~left
    <2>1. Lose(n, h, quarantine[n].lost)
        BY <1>8 DEF AppendOrQuarantine
    <2>2. \A m \in Names, g \in Hours : totals[<<m, g>>] = totalRows[<<m, g>>]
        BY <1>8
    <2>0. quarantine[n].hour = h
        BY <1>8
    <2> HIDE DEF totals, h
    <2>3. lost[<<n, h>>] = totals[<<n, h>>] + quarantine[n].lost
        BY <1>1, <1>5, <2>0, <2>2 DEF OpenAccount
    <2>4. AllButOne(n, h, quarantine[n].lost, totals)
        BY <1>5, <2>0, <2>2, <2>3 DEF OpenAccount, AllButOne
    <2>5. quarantine[n].lost \in Nat
        BY <1>4
    <2> QED BY <1>1, <1>2, <1>3, <1>7, <2>1, <2>4, <2>5, OneMoreLost, Zenon
<1>9. ASSUME ~(Quarantined(n) /\ ~left), NEW m \in Names, NEW g \in Hours
      PROVE  lost[<<m, g>>] = totals[<<m, g>>] + (IF m = n THEN 0 ELSE OpenAccount(m, g))
    <2>1. /\ totalRows[<<m, g>>] \in Nat /\ OpenAccount(m, g) \in Nat
          /\ lost[<<m, g>>] = totalRows[<<m, g>>] + OpenAccount(m, g)
        BY <1>5
    <2>2. CASE left
        <3>1. totals[<<m, g>>] = totalRows[<<m, g>>] + (IF m = n THEN OpenAccount(m, g) ELSE 0)
            BY <1>6, <2>2
        <3> HIDE DEF totals, h
        <3> QED BY <2>1, <3>1
    <2>3. CASE ~left
        <3>1. m = n => OpenAccount(m, g) = 0
            BY <1>4, <1>9, <2>3 DEF OpenAccount
        <3>2. totals[<<m, g>>] = totalRows[<<m, g>>]
            BY <2>3
        <3> HIDE DEF totals, h
        <3> QED BY <2>1, <3>1, <3>2
    <2> QED BY <2>2, <2>3
<1>10. CASE ~(Quarantined(n) /\ ~left) /\ <<n, h>> \in unwritable
    <2>1. Lose(n, h, 0)
        BY <1>10 DEF AppendOrQuarantine
    <2>2. <<n, h>> \in Names \X Hours
        BY <1>1
    <2>3. lost[<<n, h>>] = totals[<<n, h>>] + 0
        BY <1>1, <1>3, <1>9, <1>10, <2>2
    <2>4. AllButOne(n, h, 0, totals)
        <3> HIDE DEF totals, h
        <3> QED BY <1>9, <1>10, <2>3 DEF AllButOne
    <2> HIDE DEF totals, h
    <2> QED BY <1>1, <1>2, <1>3, <1>7, <2>1, <2>4, OneMoreLost, Zenon
<1>11. CASE ~(Quarantined(n) /\ ~left) /\ <<n, h>> \notin unwritable
    <2>1. quarantine' = [quarantine EXCEPT ![n] = NoHour] /\ lost' = lost
        <3>1. /\ ~(Quarantined(n) /\ ~left)
              /\ <<n, h>> \notin unwritable
            BY <1>11
        <3>2. /\ Quarantined(n) /\ ~left => Lose(n, h, quarantine[n].lost)
              /\ ~(Quarantined(n) /\ ~left) =>
                   IF <<n, h>> \in unwritable THEN Lose(n, h, 0)
                   ELSE quarantine' = [quarantine EXCEPT ![n] = NoHour] /\ UNCHANGED lost
            BY DEF AppendOrQuarantine
        <3> HIDE DEF left, h, Quarantined
        <3> QED BY <3>1, <3>2
    <2>2. NoHour \in [hour : Hours, lost : Nat] /\ NoHour.lost = 0
        BY NoHourFacts
    <2>3. AccountShape'
        <3> HIDE DEF totals
        <3> QED BY <1>2, <1>3, <1>7, <2>1, <2>2 DEF AccountShape
    <2>4. \A m \in Names : quarantine'[m] = IF m = n THEN NoHour ELSE quarantine[m]
        BY <1>2, <2>1 DEF AccountShape
    <2>5. LossesAreOnRecord'
        <3> SUFFICES ASSUME NEW m \in Names, NEW g \in Hours
                     PROVE  lost[<<m, g>>] = totals[<<m, g>>] +
                              (IF quarantine'[m].hour = g THEN quarantine'[m].lost ELSE 0)
            BY <1>7, <2>1 DEF LossesAreOnRecord
        <3>1. lost[<<m, g>>] = totals[<<m, g>>] + (IF m = n THEN 0 ELSE OpenAccount(m, g))
            BY <1>9, <1>11
        <3> HIDE DEF totals
        <3> QED BY <2>2, <2>4, <3>1 DEF OpenAccount
    <2> QED BY <2>3, <2>5
<1> QED BY <1>8, <1>10, <1>11

LEMMA RecorderSteps ==
    ASSUME RecorderInv, [RecorderNext]_recordingVars
    PROVE  RecorderInv'
<1>1. RecorderShape /\ AccountShape /\ SilenceIsOnRecord /\ LossesAreOnRecord
    BY DEF RecorderInv
<1>2. ASSUME NEW n \in Arriving, Receive(n)
      PROVE  RecorderInv'
    <2>1. n \in Names
        BY MomentFacts
    <2>2. RecorderShape' /\ SilenceIsOnRecord'
        BY <1>2, <2>1, HealthIsChecked DEF Receive
    <2>3. AccountShape' /\ LossesAreOnRecord'
        BY <1>2, <2>1, FrameIsAccounted DEF Receive
    <2> QED BY <2>2, <2>3 DEF RecorderInv
<1>3. CASE StartSession
    <2>1. RecorderShape'
        BY <1>1, <1>3 DEF StartSession, RecorderShape, recordVars, Moments
    <2>2. SilenceIsOnRecord'
        BY <1>1, <1>3 DEF StartSession, SilenceIsOnRecord, RecorderShape, Moments
    <2>3. AccountShape' /\ LossesAreOnRecord'
        BY <1>1, <1>3 DEF StartSession, AccountShape, LossesAreOnRecord, recordVars
    <2> QED BY <2>1, <2>2, <2>3 DEF RecorderInv
<1>4. ASSUME Forget, now' = now, silentRows \subseteq silentRows'
      PROVE  /\ RecorderShape' /\ SilenceIsOnRecord'
             /\ quarantine' \in [Names -> [hour : Hours, lost : Nat]]
             /\ \A n \in Names : quarantine'[n].lost = 0
    <2>1. RecorderShape'
        BY <1>1, <1>4 DEF Forget, NoSession, RecorderShape, Moments
    <2>2. SilenceIsOnRecord'
        BY <1>4 DEF Forget, NoSession, SilenceIsOnRecord
    <2> QED BY <1>4, <2>1, <2>2, NoHourFacts DEF Forget
<1>5. CASE CloseSession
    <2>0. Forget /\ now' = now /\ silentRows \subseteq silentRows' /\ lost' = lost
        BY <1>5 DEF CloseSession
    <2>1. /\ totalRows' \in [Names \X Hours -> Nat]
          /\ \A n \in Names, g \in Hours : lost[<<n, g>>] = totalRows'[<<n, g>>]
        <3> DEFINE S == {n \in Names : Quarantined(n)}
        <3>1. totalRows' = WithTotals(S)
            BY <1>5 DEF CloseSession
        <3>2. /\ WithTotals(S) \in [Names \X Hours -> Nat]
              /\ \A n \in Names, g \in Hours :
                    WithTotals(S)[<<n, g>>] = totalRows[<<n, g>>] +
                        (IF n \in S /\ quarantine[n].hour = g THEN quarantine[n].lost ELSE 0)
            <4> HIDE DEF S
            <4> QED BY <1>1, RowsTyped, ZenonT(60)
        <3>3. ASSUME NEW n \in Names, NEW g \in Hours
              PROVE  lost[<<n, g>>] = totalRows'[<<n, g>>]
            <4>1. lost[<<n, g>>] = totalRows[<<n, g>>] +
                    (IF quarantine[n].hour = g THEN quarantine[n].lost ELSE 0)
                BY <1>1 DEF LossesAreOnRecord
            <4>2. quarantine[n].lost \in Nat /\ (n \in S <=> quarantine[n].lost > 0)
                BY <1>1 DEF AccountShape, Quarantined
            <4> HIDE DEF S
            <4> QED BY <3>1, <3>2, <4>1, <4>2
        <3> QED BY <3>1, <3>2, <3>3
    <2>2. AccountShape'
        BY <1>1, <1>4, <2>0, <2>1 DEF AccountShape
    <2>3. LossesAreOnRecord'
        <3> SUFFICES ASSUME NEW n \in Names, NEW g \in Hours
                     PROVE  lost'[<<n, g>>] = totalRows'[<<n, g>>] +
                              (IF quarantine'[n].hour = g THEN quarantine'[n].lost ELSE 0)
            BY DEF LossesAreOnRecord
        <3>1. totalRows'[<<n, g>>] \in Nat
            <4>1. <<n, g>> \in Names \X Hours
                OBVIOUS
            <4> QED BY <2>1, <4>1
        <3> QED BY <1>4, <2>0, <2>1, <3>1
    <2> QED BY <1>4, <2>0, <2>2, <2>3 DEF RecorderInv
<1>6. CASE KillSession
    <2>0. Forget /\ now' = now /\ silentRows' = silentRows /\ totalRows' = totalRows
        BY <1>6 DEF KillSession
    <2>1. ASSUME NEW n \in Names, NEW g \in Hours
          PROVE  <<n, g>> \in Names \X Hours /\ lost'[<<n, g>>] = totalRows[<<n, g>>]
        <3>1. <<n, g>> \in Names \X Hours
            OBVIOUS
        <3>2. lost'[<<n, g>>] = IF Quarantined(n) /\ quarantine[n].hour = g
                               THEN lost[<<n, g>>] - quarantine[n].lost ELSE lost[<<n, g>>]
            BY <1>6, <3>1 DEF KillSession
        <3>3. lost[<<n, g>>] = totalRows[<<n, g>>] +
                    (IF quarantine[n].hour = g THEN quarantine[n].lost ELSE 0)
            BY <1>1 DEF LossesAreOnRecord
        <3>4. quarantine[n].lost \in Nat /\ totalRows[<<n, g>>] \in Nat
            BY <1>1, <3>1 DEF AccountShape
        <3> QED BY <3>1, <3>2, <3>3, <3>4 DEF Quarantined
    <2>2. lost' \in [Names \X Hours -> Nat]
        <3>1. \A x \in Names \X Hours : x[1] \in Names /\ x[2] \in Hours /\ x = <<x[1], x[2]>>
            OBVIOUS
        <3>2. \A x \in Names \X Hours : lost'[x] = totalRows[x]
            BY <2>1, <3>1
        <3>3. \A x \in Names \X Hours : totalRows[x] \in Nat
            BY <1>1 DEF AccountShape
        <3>4. DOMAIN lost' = Names \X Hours /\ lost' = [x \in Names \X Hours |-> lost'[x]]
            BY <1>6 DEF KillSession
        <3> QED BY <3>2, <3>3, <3>4
    <2>3. AccountShape'
        BY <1>1, <1>4, <2>0, <2>2 DEF AccountShape
    <2>4. LossesAreOnRecord'
        <3> SUFFICES ASSUME NEW n \in Names, NEW g \in Hours
                     PROVE  lost'[<<n, g>>] = totalRows'[<<n, g>>] +
                              (IF quarantine'[n].hour = g THEN quarantine'[n].lost ELSE 0)
            BY DEF LossesAreOnRecord
        <3>1. totalRows[<<n, g>>] \in Nat
            BY <1>1, <2>1 DEF AccountShape
        <3> QED BY <1>4, <2>0, <2>1, <3>1
    <2> QED BY <1>4, <2>0, <2>3, <2>4 DEF RecorderInv
<1>7. CASE ClockMoves
    <2>1. RecorderShape'
        <3>1. now' \in Moments /\ 0..now \subseteq 0..now' /\ 0..(now + 1) \subseteq 0..(now' + 1)
            BY <1>1, <1>7, MomentFacts DEF ClockMoves, RecorderShape
        <3> QED BY <1>1, <1>7, <3>1 DEF ClockMoves, sessionVars, recordVars, RecorderShape
    <2>2. SilenceIsOnRecord'
        <3>1. session' = session /\ session.check \in 0..(now + 1) /\ now' = now + 1 /\ now \in Nat
            BY <1>1, <1>7, MomentFacts DEF ClockMoves, sessionVars, RecorderShape
        <3>2. ~(session'.check > now')
            BY <3>1
        <3> QED BY <3>2 DEF SilenceIsOnRecord
    <2>3. AccountShape' /\ LossesAreOnRecord'
        BY <1>1, <1>7 DEF ClockMoves, sessionVars, recordVars, AccountShape, LossesAreOnRecord
    <2> QED BY <2>1, <2>2, <2>3 DEF RecorderInv
<1>8. CASE UNCHANGED recordingVars
    <2>1. /\ now' = now /\ session' = session /\ lastFrame' = lastFrame
          /\ recentGaps' = recentGaps /\ silentDays' = silentDays /\ silentRows' = silentRows
          /\ quarantine' = quarantine /\ totalRows' = totalRows /\ lost' = lost
        BY <1>8 DEF recordingVars, sessionVars, recordVars
    <2>2. RecorderShape' /\ AccountShape' /\ LossesAreOnRecord'
        BY <1>1, <2>1 DEF RecorderShape, AccountShape, LossesAreOnRecord
    <2>3. SilenceIsOnRecord'
        BY <1>1, <2>1 DEF SilenceIsOnRecord
    <2> QED BY <2>2, <2>3 DEF RecorderInv
<1> QED BY <1>2, <1>3, <1>5, <1>6, <1>7, <1>8 DEF RecorderNext

-----------------------------------------------------------------------------
(* The reconstructions.  What a walk has is whole from where it began to   *)
(* where it is: of bars up to the cursor, of funding down to it.           *)

WholeBars(stored, end) ==
    \A t \in GapStart .. end - 1 : t + 1 <= backfill.fetched /\ t \notin unusable => t \in stored

NoHoleAbove(stored, floor) ==
    /\ \A r \in stored : r > floor
    /\ \A r \in stored, t \in Nat : floor < t /\ t <= r /\ t \notin unusable => t \in stored

Walked == [symbol : WalkSymbols, fetched : Nat, rows : SUBSET Nat, ended : Reasons]

BackfillShape ==
    /\ time \in Nat
    /\ backfill \in [step : {"none", "next", "walk"}, kind : {"bars", "funding"}, began : Nat,
                     todo : SUBSET WalkSymbols,
                     walks : SUBSET Walked,
                     at : Int, pages : Int, rows : SUBSET (0..time), fetched : Nat]
    /\ backfill.step = "walk" => backfill.todo # {}

WalkIsWhole ==
    backfill.step = "walk" =>
        IF backfill.kind = "bars"
        THEN /\ backfill.fetched <= time /\ GapStart <= backfill.at
             /\ \A t \in backfill.rows : t + 1 <= backfill.fetched /\ t < backfill.at
             /\ WholeBars(backfill.rows, backfill.at)
        ELSE NoHoleAbove(backfill.rows, backfill.at)

WalkIsHonest(kind, w) == IF kind = "bars" THEN BarsHaveNoHole(w) ELSE FundingHasNoHole(w)

BackfillInv ==
    /\ BackfillShape /\ WalkIsWhole
    /\ \A w \in backfill.walks : WalkIsHonest(backfill.kind, w)
    /\ BackfillsHaveNoHoles

(* How many of S are below t, and above it.                                *)
Below(S, t) == Cardinality({u \in S : u < t})
Above(S, t) == Cardinality({u \in S : u > t})

LEMMA FirstAndLatest ==
    ASSUME NEW S, NEW n
    PROVE  First(S, n) = {t \in S : Below(S, t) < n} /\ Latest(S, n) = {t \in S : Above(S, t) < n}
BY Zenon DEF First, Latest, Below, Above

(* Fewer are below what is lower, and no more than there is room for; and  *)
(* fewer are above what is higher.                                         *)
LEMMA FewerBelow ==
    ASSUME NEW top \in Nat, NEW S \in SUBSET (0..top), NEW t \in Int, NEW m \in Int, t <= m
    PROVE  /\ Below(S, t) \in Nat /\ Below(S, m) \in Nat /\ Below(S, t) <= Below(S, m)
           /\ Above(S, t) \in Nat /\ Above(S, m) \in Nat /\ Above(S, m) <= Above(S, t)
<1>1. IsFiniteSet(0..top)
    BY FS_Interval
<1>2. \A T \in SUBSET (0..top) : IsFiniteSet(T) /\ Cardinality(T) \in Nat
    BY <1>1, FS_Subset, FS_CardinalityType
<1>3. ASSUME NEW T \in SUBSET S, NEW U \in SUBSET T
      PROVE  /\ Cardinality(T) \in Nat /\ Cardinality(U) \in Nat
             /\ Cardinality(U) <= Cardinality(T)
    <2>1. T \in SUBSET (0..top) /\ U \in SUBSET (0..top)
        OBVIOUS
    <2> QED BY <1>2, <2>1, FS_Subset
<1>4. \A u \in S : (u < t => u < m) /\ (u > m => u > t)
    <2> SUFFICES ASSUME NEW u \in S PROVE (u < t => u < m) /\ (u > m => u > t)
        OBVIOUS
    <2>1. u \in Int
        OBVIOUS
    <2> QED BY <2>1
<1>5. /\ {u \in S : u < m} \in SUBSET S /\ {u \in S : u < t} \in SUBSET {u \in S : u < m}
      /\ {u \in S : u > t} \in SUBSET S /\ {u \in S : u > m} \in SUBSET {u \in S : u > t}
    BY <1>4, Zenon
<1> QED BY <1>3, <1>5 DEF Below, Above

LEMMA FirstAreBefore ==
    ASSUME NEW top \in Nat, NEW S \in SUBSET (0..top), NEW n \in Nat,
           NEW m \in First(S, n), NEW t \in S, t <= m
    PROVE  t \in First(S, n)
<1>1. m \in S /\ Below(S, m) < n
    BY FirstAndLatest
<1>2. t \in Int /\ m \in Int
    BY <1>1
<1>3. Below(S, t) \in Nat /\ Below(S, m) \in Nat /\ Below(S, t) <= Below(S, m)
    BY <1>2, FewerBelow
<1> QED BY <1>1, <1>3, FirstAndLatest

LEMMA LatestAreAfter ==
    ASSUME NEW top \in Nat, NEW S \in SUBSET (0..top), NEW n \in Nat,
           NEW m \in Latest(S, n), NEW t \in S, m <= t
    PROVE  t \in Latest(S, n)
<1>1. m \in S /\ Above(S, m) < n
    BY FirstAndLatest
<1>2. t \in Int /\ m \in Int
    BY <1>1
<1>3. Above(S, t) \in Nat /\ Above(S, m) \in Nat /\ Above(S, t) <= Above(S, m)
    BY <1>2, FewerBelow
<1> QED BY <1>1, <1>3, FirstAndLatest

LEMMA BarsOfPage ==
    ASSUME BackfillInv, BarsAreWanted
    PROVE  /\ BarsFrom(backfill.at) \in SUBSET (0..time)
           /\ \A t \in BarsFrom(backfill.at) : backfill.at <= t
           /\ \A m \in BarsFrom(backfill.at), t \in Int :
                backfill.at <= t /\ t <= m => t \in BarsFrom(backfill.at)
<1> DEFINE S == Listed \intersect (backfill.at .. GapEnd)
<1>1. time \in Nat /\ backfill.at \in Int /\ PageLimit \in Nat /\ GapEnd \in Int
    BY BackfillAssumption DEF BackfillInv, BackfillShape
<1>0. 0 <= backfill.at
    BY <1>1, BackfillAssumption DEF BackfillInv, WalkIsWhole, BarsAreWanted
<1>2. S \in SUBSET (0..time) /\ \A t \in S : t \in Int /\ backfill.at <= t
    BY <1>1 DEF Listed
<1>3. BarsFrom(backfill.at) = First(S, PageLimit) /\ BarsFrom(backfill.at) \subseteq S
    BY DEF BarsFrom, First
<1>6. \A t \in Int : backfill.at <= t /\ t <= time /\ t <= GapEnd => t \in S
    BY <1>0, <1>1 DEF Listed
<1>7. \A m \in S : m <= time /\ m <= GapEnd /\ m \in Int
    BY <1>1 DEF Listed
<1> HIDE DEF S
<1>4. ASSUME NEW m \in BarsFrom(backfill.at), NEW t \in Int, backfill.at <= t, t <= m
      PROVE  t \in BarsFrom(backfill.at)
    <2>1. t \in S
        BY <1>1, <1>3, <1>4, <1>6, <1>7
    <2> QED BY <1>1, <1>2, <1>3, <1>4, <2>1, FirstAreBefore
<1> QED BY <1>2, <1>3, <1>4

LEMMA SettledPage ==
    ASSUME BackfillInv, FundingIsWanted, NEW page, page = SettledUntil(backfill.at) \ unusable
    PROVE  /\ page \in SUBSET (0..time)
           /\ NoHoleAbove(backfill.rows \union page, backfill.at) \/ page # {}
           /\ page # {} => /\ Min(page) \in Nat
                           /\ NoHoleAbove(backfill.rows \union page, Min(page) - 1)
<1> DEFINE S == {t \in Listed : t <= backfill.at}
           latest == Latest(S, PageLimit)
<1>1. time \in Nat /\ backfill.at \in Int /\ PageLimit \in Nat /\ backfill.rows \in SUBSET (0..time)
    BY BackfillAssumption DEF BackfillInv, BackfillShape
<1>2. S \in SUBSET (0..time) /\ \A t \in Int : t \in S <=> 0 <= t /\ t <= time /\ t <= backfill.at
    BY <1>1 DEF Listed
<1>3. latest \subseteq S /\ page = latest \ unusable
    BY DEF SettledUntil, Latest
<1>4. NoHoleAbove(backfill.rows, backfill.at)
    BY DEF BackfillInv, WalkIsWhole, FundingIsWanted
<1>5. \A m \in latest, t \in S : m <= t => t \in latest
    <2> SUFFICES ASSUME NEW m \in latest, NEW t \in S, m <= t PROVE t \in latest
        OBVIOUS
    <2> HIDE DEF S
    <2> QED BY <1>1, <1>2, LatestAreAfter
<1> HIDE DEF S, latest
<1>6. page \in SUBSET (0..time)
    BY <1>2, <1>3
<1>7. page = {} => NoHoleAbove(backfill.rows \union page, backfill.at)
    BY <1>4 DEF NoHoleAbove
<1>8. ASSUME page # {}
      PROVE  Min(page) \in Nat /\ NoHoleAbove(backfill.rows \union page, Min(page) - 1)
    <2>1. Min(page) \in page /\ \A x \in page : Min(page) <= x
        BY <1>1, <1>6, <1>8, LeastIn
    <2>2. Min(page) \in 0..time /\ Min(page) <= backfill.at /\ Min(page) \in latest
        BY <1>2, <1>3, <1>6, <2>1
    <2>3. ASSUME NEW r \in backfill.rows \union page
          PROVE  r > Min(page) - 1
        <3>1. CASE r \in page
            <4>1. Min(page) <= r /\ r \in Int /\ Min(page) \in Int
                BY <1>6, <2>1, <2>2, <3>1
            <4> QED BY <4>1
        <3>2. CASE r \in backfill.rows
            <4>1. r \in 0..time /\ r > backfill.at
                BY <1>1, <1>4, <3>2 DEF NoHoleAbove
            <4> QED BY <1>1, <2>2, <4>1
        <3> QED BY <2>3, <3>1, <3>2
    <2>4. ASSUME NEW r \in backfill.rows \union page, NEW t \in Nat, Min(page) - 1 < t, t <= r,
                 t \notin unusable
          PROVE  t \in backfill.rows \union page
        <3>1. r \in 0..time
            BY <1>1, <1>6
        <3>2. CASE t <= backfill.at
            <4>1. t \in S /\ Min(page) <= t
                BY <1>1, <1>2, <2>2, <2>4, <3>1, <3>2
            <4> QED BY <1>3, <1>5, <2>2, <2>4, <4>1
        <3>3. CASE t > backfill.at
            <4>1. r \in backfill.rows
                <5>1. r > backfill.at
                    BY <1>1, <2>4, <3>1, <3>3
                <5>2. \A x \in page : x <= backfill.at /\ x \in Int
                    BY <1>2, <1>3
                <5> QED BY <1>1, <3>1, <5>1, <5>2
            <4> QED BY <1>4, <2>4, <3>3, <4>1 DEF NoHoleAbove
        <3>4. t <= backfill.at \/ t > backfill.at
            BY <1>1, <2>4
        <3> QED BY <3>2, <3>3, <3>4
    <2> QED BY <2>2, <2>3, <2>4 DEF NoHoleAbove
<1> QED BY <1>6, <1>7, <1>8

(* What has no hole above a floor has none between its ends.               *)
LEMMA NoHoleBetween ==
    ASSUME NEW stored \in SUBSET (0..time), time \in Nat, NEW floor \in Int, NoHoleAbove(stored, floor),
           stored # {}
    PROVE  (Min(stored) .. Max(stored)) \ unusable \subseteq stored
<1>1. Min(stored) \in stored /\ Max(stored) \in stored
    BY LeastIn, LargestIn
<1>2. Min(stored) \in Nat /\ Max(stored) \in Nat /\ floor < Min(stored)
    <2>1. \A x \in stored : x \in Nat /\ x > floor
        BY DEF NoHoleAbove
    <2> QED BY <1>1, <2>1
<1> SUFFICES ASSUME NEW t \in Min(stored) .. Max(stored), t \notin unusable PROVE t \in stored
    OBVIOUS
<1>3. t \in Nat /\ floor < t /\ t <= Max(stored)
    BY <1>2
<1> QED BY <1>1, <1>3 DEF NoHoleAbove

LEMMA BackfillStarts == BackfillInit => BackfillInv
<1> SUFFICES ASSUME BackfillInit PROVE BackfillInv
    OBVIOUS
<1>1. BackfillShape
    BY BackfillAssumption DEF BackfillInit, BackfillShape, NoBackfill, Newest
<1>2. backfill.step = "none" /\ backfill.walks = {} /\ reports = {}
    BY DEF BackfillInit, NoBackfill
<1> QED BY <1>1, <1>2 DEF BackfillInv, WalkIsWhole, BackfillsHaveNoHoles

(* A walk that ends honestly leaves the rest as it was.                    *)
LEMMA AWalkEnds ==
    ASSUME BackfillInv, backfill.step = "walk", NEW why \in Reasons, NEW stored \in SUBSET (0..time),
           backfill' = Ended(why, stored), UNCHANGED <<time, unusable, reports>>,
           \A w : w.rows = stored /\ w.fetched = backfill.fetched /\ w.ended = why
                    => WalkIsHonest(backfill.kind, w)
    PROVE  BackfillInv'
<1> DEFINE symbol == CHOOSE s \in backfill.todo : TRUE
           walk == [symbol |-> symbol, fetched |-> backfill.fetched, rows |-> stored, ended |-> why]
<1>1. BackfillShape
    BY DEF BackfillInv
<1>2. symbol \in WalkSymbols
    BY <1>1 DEF BackfillShape
<1>3. /\ walk \in Walked
      /\ walk.rows = stored /\ walk.fetched = backfill.fetched /\ walk.ended = why
    BY <1>1, <1>2 DEF BackfillShape, Walked
<1>4. WalkIsHonest(backfill.kind, walk)
    BY <1>3
<1>5. backfill' = [backfill EXCEPT !.step = "next", !.todo = backfill.todo \ {symbol},
                        !.at = Newest, !.pages = 0, !.rows = {}, !.fetched = 0,
                        !.walks = backfill.walks \union {walk}]
    BY DEF Ended
<1> HIDE DEF walk, symbol
<1>6. Newest \in Int
    BY BackfillAssumption DEF Newest
<1>7. /\ backfill'.step = "next" /\ backfill'.kind = backfill.kind
      /\ backfill'.walks = backfill.walks \union {walk}
    BY <1>1, <1>5 DEF BackfillShape
<1>8. BackfillShape'
    <2>1. backfill.walks \union {walk} \in SUBSET Walked /\ backfill.todo \ {symbol} \in SUBSET WalkSymbols
        BY <1>1, <1>3 DEF BackfillShape
    <2>2. backfill' = [step |-> "next", kind |-> backfill.kind, began |-> backfill.began,
                       todo |-> backfill.todo \ {symbol}, walks |-> backfill.walks \union {walk},
                       at |-> Newest, pages |-> 0, rows |-> {}, fetched |-> 0]
        BY <1>1, <1>5 DEF BackfillShape
    <2>3. backfill.kind \in {"bars", "funding"} /\ backfill.began \in Nat
        BY <1>1 DEF BackfillShape
    <2>4. {} \in SUBSET (0..time') /\ time' \in Nat /\ "next" \in {"none", "next", "walk"}
        BY <1>1 DEF BackfillShape
    <2> QED BY <1>6, <1>7, <2>1, <2>2, <2>3, <2>4 DEF BackfillShape
<1>9. \A w \in backfill'.walks : WalkIsHonest(backfill'.kind, w)
    BY <1>4, <1>7 DEF BackfillInv
<1>10. BackfillsHaveNoHoles'
    BY DEF BackfillInv, BackfillsHaveNoHoles, BarsHaveNoHole, BarsReached, FundingHasNoHole
<1>11. (\A w \in backfill.walks : WalkIsHonest(backfill.kind, w))'
    BY <1>9 DEF WalkIsHonest, BarsHaveNoHole, BarsReached, FundingHasNoHole
<1> QED BY <1>7, <1>8, <1>10, <1>11 DEF BackfillInv, WalkIsWhole

LEMMA AWalkGoesOn ==
    ASSUME BackfillInv, backfill.step = "walk", NEW cursor \in Int, NEW stored \in SUBSET (0..time),
           backfill' = [backfill EXCEPT !.pages = backfill.pages + 1, !.at = cursor, !.rows = stored],
           UNCHANGED <<time, unusable, reports>>,
           IF backfill.kind = "bars"
           THEN /\ GapStart <= cursor /\ WholeBars(stored, cursor)
                /\ \A t \in stored : t + 1 <= backfill.fetched /\ t < cursor
           ELSE NoHoleAbove(stored, cursor)
    PROVE  BackfillInv'
<1>1. BackfillShape /\ WalkIsWhole
    BY DEF BackfillInv
<1>2. /\ backfill'.step = "walk" /\ backfill'.kind = backfill.kind
      /\ backfill'.walks = backfill.walks /\ backfill'.rows = stored /\ backfill'.at = cursor
      /\ backfill'.fetched = backfill.fetched /\ backfill'.todo = backfill.todo
    BY <1>1 DEF BackfillShape
<1>3. BackfillShape'
    <2>1. backfill' = [step |-> "walk", kind |-> backfill.kind, began |-> backfill.began,
                       todo |-> backfill.todo, walks |-> backfill.walks, at |-> cursor,
                       pages |-> backfill.pages + 1, rows |-> stored, fetched |-> backfill.fetched]
        BY <1>1 DEF BackfillShape
    <2>2. backfill.pages + 1 \in Int
        BY <1>1 DEF BackfillShape
    <2> QED BY <1>1, <1>2, <2>1, <2>2 DEF BackfillShape
<1>4. WalkIsWhole'
    BY <1>1, <1>2 DEF WalkIsWhole, WholeBars, NoHoleAbove
<1>5. BackfillsHaveNoHoles'
    BY DEF BackfillInv, BackfillsHaveNoHoles, BarsHaveNoHole, BarsReached, FundingHasNoHole
<1>6. (\A w \in backfill.walks : WalkIsHonest(backfill.kind, w))'
    BY <1>2 DEF BackfillInv, WalkIsHonest, BarsHaveNoHole, BarsReached, FundingHasNoHole
<1> QED BY <1>3, <1>4, <1>5, <1>6 DEF BackfillInv

LEMMA BarsAreHonest ==
    ASSUME BackfillInv, backfill.step = "walk", backfill.kind = "bars", NEW w,
           w.rows = backfill.rows, w.fetched = backfill.fetched,
           w.ended = "reached" => WholeBars(backfill.rows, GapEnd)
    PROVE  WalkIsHonest(backfill.kind, w)
<1>1. /\ WholeBars(backfill.rows, backfill.at) /\ backfill.at \in Int
      /\ \A t \in backfill.rows : t + 1 <= backfill.fetched /\ t < backfill.at
      /\ time \in Nat /\ backfill.rows \in SUBSET (0..time) /\ GapStart \in Nat /\ GapEnd \in Nat
    BY BackfillAssumption DEF BackfillInv, BackfillShape, WalkIsWhole
<1>2. ASSUME NEW t \in GapStart .. BarsReached(w), t + 1 <= w.fetched, t \notin unusable
      PROVE  t \in w.rows
    <2>1. CASE w.ended = "reached"
        <3>1. t \in GapStart .. GapEnd - 1
            BY <1>2, <2>1 DEF BarsReached
        <3> QED BY <1>2, <2>1, <3>1 DEF WholeBars
    <2>2. CASE w.ended # "reached"
        <3> DEFINE last == Max({-1} \union backfill.rows)
        <3>1. t \in GapStart .. last
            BY <1>2, <2>2 DEF BarsReached
        <3>2. last \in {-1} \union backfill.rows /\ last \in Int
            BY <1>1, LargestOrNone
        <3> HIDE DEF last
        <3>3. last \in backfill.rows /\ t \in Int /\ GapStart <= t /\ t <= last
            BY <1>1, <3>1, <3>2
        <3>4. t \in GapStart .. backfill.at - 1
            BY <1>1, <3>2, <3>3
        <3> QED BY <1>1, <1>2, <3>4 DEF WholeBars
    <2> QED BY <2>1, <2>2
<1>3. {t \in GapStart .. BarsReached(w) : t + 1 <= w.fetched /\ t \notin unusable} \subseteq w.rows
    BY <1>2
<1> QED BY <1>1, <1>3 DEF WalkIsHonest, BarsHaveNoHole

LEMMA FundingIsHonest ==
    ASSUME BackfillInv, backfill.kind = "funding", NEW stored \in SUBSET (0..time),
           NEW floor \in Int, NoHoleAbove(stored, floor), NEW w, w.rows = stored
    PROVE  WalkIsHonest(backfill.kind, w)
<1>1. stored # {} => (Min(stored) .. Max(stored)) \ unusable \subseteq stored
    BY NoHoleBetween DEF BackfillInv, BackfillShape
<1> QED BY <1>1 DEF WalkIsHonest, FundingHasNoHole

LEMMA BackfillSteps ==
    ASSUME BackfillInv, [BackfillNext]_backfillVars
    PROVE  BackfillInv'
<1>1. /\ BackfillShape /\ WalkIsWhole /\ BackfillsHaveNoHoles
      /\ \A w \in backfill.walks : WalkIsHonest(backfill.kind, w)
    BY DEF BackfillInv
<1>2. time \in Nat /\ backfill.rows \in SUBSET (0..time) /\ backfill.kind \in {"bars", "funding"}
    BY <1>1 DEF BackfillShape
<1>3. CASE MomentGoesBy
    <2>1. time' \in Nat /\ SUBSET (0..time) \subseteq SUBSET (0..time') /\ time <= time'
        BY <1>2, <1>3 DEF MomentGoesBy
    <2>2. BackfillShape'
        BY <1>1, <1>3, <2>1 DEF MomentGoesBy, BackfillShape
    <2>3. WalkIsWhole'
        <3>1. backfill.fetched \in Nat
            BY <1>1 DEF BackfillShape
        <3> QED BY <1>1, <1>2, <1>3, <2>1, <3>1 DEF MomentGoesBy, WalkIsWhole, WholeBars, NoHoleAbove
    <2>4. (BackfillsHaveNoHoles /\ \A w \in backfill.walks : WalkIsHonest(backfill.kind, w))'
        BY <1>1, <1>3 DEF MomentGoesBy, BackfillsHaveNoHoles, WalkIsHonest, BarsHaveNoHole, BarsReached,
                          FundingHasNoHole
    <2> QED BY <2>2, <2>3, <2>4 DEF BackfillInv
<1>4. ASSUME UNCHANGED <<time, unusable, reports>>
      PROVE  BackfillsHaveNoHoles'
    BY <1>1, <1>4 DEF BackfillsHaveNoHoles, BarsHaveNoHole, BarsReached, FundingHasNoHole
<1>5. ASSUME NEW kind \in {"bars", "funding"}, BeginRun(kind)
      PROVE  BackfillInv'
    <2>1. UNCHANGED <<time, unusable, reports>>
        BY <1>5 DEF BeginRun
    <2>2. backfill' = [step |-> "next", kind |-> kind, began |-> time, todo |-> WalkSymbols,
                       walks |-> {}, at |-> Newest, pages |-> 0, rows |-> {}, fetched |-> 0]
        BY <1>5 DEF BeginRun, NoBackfill
    <2>3. Newest \in Int
        BY BackfillAssumption DEF Newest
    <2>4. BackfillShape'
        BY <1>2, <2>1, <2>2, <2>3 DEF BackfillShape
    <2> QED BY <1>4, <2>1, <2>2, <2>4 DEF BackfillInv, WalkIsWhole
<1>6. CASE BeginWalk
    <2>1. UNCHANGED <<time, unusable, reports>>
        BY <1>6 DEF BeginWalk
    <2> DEFINE cursor == IF backfill.kind = "bars" THEN GapStart ELSE Newest
               fetched == IF backfill.kind = "bars" THEN time ELSE backfill.began
    <2>2. cursor \in Int /\ fetched \in Nat
        BY <1>1, BackfillAssumption DEF Newest, BackfillShape
    <2>3. backfill' = [backfill EXCEPT !.step = "walk", !.pages = 0, !.rows = {}, !.at = cursor,
                                       !.fetched = fetched]
        BY <1>6 DEF BeginWalk
    <2>4. /\ backfill.kind = "bars" => cursor = GapStart /\ fetched = time
          /\ GapStart \in Nat
        BY BackfillAssumption
    <2> HIDE DEF cursor, fetched
    <2>5. /\ backfill'.step = "walk" /\ backfill'.kind = backfill.kind /\ backfill'.rows = {}
          /\ backfill'.at = cursor /\ backfill'.fetched = fetched
          /\ backfill'.walks = backfill.walks /\ backfill'.todo = backfill.todo
        BY <1>1, <2>3 DEF BackfillShape
    <2>6. BackfillShape'
        <3>1. backfill' = [step |-> "walk", kind |-> backfill.kind, began |-> backfill.began,
                           todo |-> backfill.todo, walks |-> backfill.walks, at |-> cursor,
                           pages |-> 0, rows |-> {}, fetched |-> fetched]
            BY <1>1, <2>3 DEF BackfillShape
        <3>2. backfill.todo # {}
            BY <1>6 DEF BeginWalk
        <3> QED BY <1>1, <2>1, <2>2, <2>5, <3>1, <3>2 DEF BackfillShape
    <2>7. WalkIsWhole'
        BY <1>2, <2>1, <2>4, <2>5 DEF WalkIsWhole, WholeBars, NoHoleAbove
    <2>8. (\A w \in backfill.walks : WalkIsHonest(backfill.kind, w))'
        BY <1>1, <2>1, <2>5 DEF WalkIsHonest, BarsHaveNoHole, BarsReached, FundingHasNoHole
    <2> QED BY <1>4, <2>1, <2>6, <2>7, <2>8 DEF BackfillInv
<1>7. CASE BarsPage
    <2> DEFINE page == UsableBars(BarsFrom(backfill.at))
    <2>1. /\ UNCHANGED <<time, unusable, reports>> /\ BarsAreWanted
          /\ backfill.step = "walk" /\ backfill.kind = "bars"
        BY <1>7 DEF BarsPage, BarsAreWanted
    <2>2. CASE page = {}
        <3>1. backfill' = Ended("nothing", backfill.rows)
            BY <1>7, <2>2 DEF BarsPage
        <3>3. \A w : w.rows = backfill.rows /\ w.fetched = backfill.fetched /\ w.ended = "nothing"
                        => WalkIsHonest(backfill.kind, w)
            BY <2>1, BarsAreHonest
        <3>4. "nothing" \in Reasons
            BY DEF Reasons
        <3> QED BY <1>2, <2>1, <3>1, <3>3, <3>4, AWalkEnds
    <2>3. CASE page # {}
        <3>1. backfill' = [backfill EXCEPT !.pages = backfill.pages + 1, !.at = Max(page) + 1,
                                           !.rows = backfill.rows \union page]
            BY <1>7, <2>3 DEF BarsPage
        <3>2. /\ page \in SUBSET (0..time) /\ page \subseteq BarsFrom(backfill.at)
              /\ \A t \in page : t + 1 <= backfill.fetched
              /\ \A t \in BarsFrom(backfill.at) :
                    t + 1 <= backfill.fetched /\ t \notin unusable => t \in page
            BY <2>1, BarsOfPage DEF UsableBars
        <3> HIDE DEF page
        <3>3. Max(page) \in page /\ Max(page) \in Int
            <4>1. Max(page) \in page
                BY <1>2, <2>3, <3>2, LargestIn
            <4>2. page \in SUBSET (0..time)
                BY <3>2
            <4>3. \A x \in page : x \in 0..time
                BY <4>2
            <4>4. Max(page) \in 0..time
                BY <4>1, <4>3
            <4> QED BY <1>2, <4>1, <4>4
        <3>4. backfill.at <= Max(page) /\ \A t \in Int :
                backfill.at <= t /\ t <= Max(page) => t \in BarsFrom(backfill.at)
            BY <2>1, <3>2, <3>3, BarsOfPage
        <3>5. /\ GapStart <= backfill.at /\ WholeBars(backfill.rows, backfill.at)
              /\ \A t \in backfill.rows : t + 1 <= backfill.fetched /\ t < backfill.at
              /\ backfill.at \in Int /\ GapStart \in Int
            BY <1>1, <2>1, BackfillAssumption DEF WalkIsWhole, BackfillShape
        <3>6. GapStart <= Max(page) + 1
            BY <3>3, <3>4, <3>5
        <3>7. WholeBars(backfill.rows \union page, Max(page) + 1)
            <4> SUFFICES ASSUME NEW t \in GapStart .. (Max(page) + 1) - 1,
                                t + 1 <= backfill.fetched, t \notin unusable
                         PROVE  t \in backfill.rows \union page
                BY DEF WholeBars
            <4>1. CASE t < backfill.at
                <5>1. t \in GapStart .. backfill.at - 1
                    BY <3>3, <3>5, <4>1
                <5> QED BY <3>5, <5>1 DEF WholeBars
            <4>2. CASE t >= backfill.at
                <5>1. t \in BarsFrom(backfill.at)
                    BY <3>3, <3>4, <3>5, <4>2
                <5> QED BY <3>2, <5>1
            <4> QED BY <3>3, <3>5, <4>1, <4>2
        <3>8. backfill.rows \union page \in SUBSET (0..time) /\ Max(page) + 1 \in Int
            <4>1. Max(page) + 1 \in Int
                BY <3>3
            <4> QED BY <1>2, <3>2, <4>1
        <3>9. \A t \in backfill.rows \union page : t + 1 <= backfill.fetched /\ t < Max(page) + 1
            <4>1. \A t \in page : t \in 0..time /\ t <= Max(page)
                <5>1. \A t \in page : t \in 0..time
                    BY <3>2
                <5> QED BY <1>2, <2>3, <3>2, <5>1, LargestIn
            <4>2. \A t \in backfill.rows : t \in 0..time
                BY <1>2
            <4>3. ASSUME NEW t \in page PROVE t + 1 <= backfill.fetched /\ t < Max(page) + 1
                BY <3>2, <3>3, <4>1
            <4>4. ASSUME NEW t \in backfill.rows PROVE t + 1 <= backfill.fetched /\ t < Max(page) + 1
                BY <3>3, <3>4, <3>5, <4>2
            <4> QED BY <4>3, <4>4
        <3> QED BY <2>1, <3>1, <3>6, <3>7, <3>8, <3>9, AWalkGoesOn
    <2> QED BY <2>2, <2>3
<1>8. ASSUME NEW why \in Reasons, BarsAreWanted \/ BarsAreThere, backfill' = Ended(why, backfill.rows),
             UNCHANGED <<time, unusable, reports>>,
             why = "reached" => WholeBars(backfill.rows, GapEnd)
      PROVE  BackfillInv'
    <2>1. backfill.step = "walk" /\ backfill.kind = "bars"
        BY <1>8 DEF BarsAreWanted, BarsAreThere
    <2>2. \A w : w.rows = backfill.rows /\ w.fetched = backfill.fetched /\ w.ended = why
                    => WalkIsHonest(backfill.kind, w)
        BY <1>8, <2>1, BarsAreHonest
    <2> QED BY <1>2, <1>8, <2>1, <2>2, AWalkEnds
<1>9. CASE BarsAreThere
    <2>1. EndOfBars = "page_cap" \/ WholeBars(backfill.rows, GapEnd)
        <3>1. /\ WholeBars(backfill.rows, backfill.at) /\ backfill.at \in Int
              /\ GapEnd \in Int /\ GapStart \in Int
            BY <1>1, <1>9, BackfillAssumption DEF BarsAreThere, WalkIsWhole, BackfillShape
        <3>2. CASE ~(backfill.at < GapEnd)
            <4>1. \A t \in GapStart .. GapEnd - 1 : t \in GapStart .. backfill.at - 1
                BY <3>1, <3>2
            <4> QED BY <3>1, <4>1 DEF WholeBars
        <3> QED BY <3>2 DEF EndOfBars
    <2>2. EndOfBars \in Reasons
        BY DEF EndOfBars, Reasons
    <2> QED BY <1>8, <1>9, <2>1, <2>2 DEF BarsAreThere
<1>10. ASSUME backfill.step = "walk", backfill.kind = "funding",
              NEW why \in Reasons, NEW stored \in SUBSET (0..time), NEW floor \in Int,
              NoHoleAbove(stored, floor),
              backfill' = Ended(why, stored), UNCHANGED <<time, unusable, reports>>
       PROVE  BackfillInv'
    <2>1. \A w : w.rows = stored => WalkIsHonest(backfill.kind, w)
        BY <1>10, FundingIsHonest
    <2> QED BY <1>10, <2>1, AWalkEnds
<1>11. ASSUME backfill.step = "walk", backfill.kind = "funding"
       PROVE  backfill.at \in Int /\ NoHoleAbove(backfill.rows, backfill.at)
    BY <1>1, <1>11 DEF WalkIsWhole, BackfillShape
<1>12. CASE FundingPage
    <2> DEFINE page == SettledUntil(backfill.at) \ unusable
               more == backfill.rows \union page
    <2>1. /\ UNCHANGED <<time, unusable, reports>> /\ FundingIsWanted
          /\ backfill.step = "walk" /\ backfill.kind = "funding"
        BY <1>12 DEF FundingPage, FundingIsWanted
    <2>2. /\ page \in SUBSET (0..time)
          /\ NoHoleAbove(more, backfill.at) \/ page # {}
          /\ page # {} => Min(page) \in Nat /\ NoHoleAbove(more, Min(page) - 1)
        BY <2>1, SettledPage
    <2>3. backfill' = IF page = {} THEN Ended("nothing", more)
              ELSE IF Cardinality(page) < PageLimit THEN Ended("reached", more)
              ELSE [backfill EXCEPT !.pages = backfill.pages + 1, !.at = UpTo(page), !.rows = more]
        BY <1>12 DEF FundingPage
    <2>4. UpTo(page) = Min(page) - 1
        BY DEF UpTo
    <2>5. more \in SUBSET (0..time)
        BY <1>2, <2>2
    <2> HIDE DEF page, more
    <2>6. CASE page = {}
        <3>1. "nothing" \in Reasons
            BY DEF Reasons
        <3>2. backfill.at \in Int /\ NoHoleAbove(more, backfill.at) /\ backfill' = Ended("nothing", more)
            BY <1>11, <2>1, <2>2, <2>3, <2>6
        <3> QED BY <1>10, <2>1, <2>5, <3>1, <3>2
    <2>7. CASE page # {} /\ Cardinality(page) < PageLimit
        <3>1. Min(page) - 1 \in Int /\ NoHoleAbove(more, Min(page) - 1)
            BY <2>2, <2>7
        <3>2. "reached" \in Reasons
            BY DEF Reasons
        <3>3. backfill' = Ended("reached", more)
            BY <2>3, <2>7
        <3> QED BY <1>10, <2>1, <2>5, <3>1, <3>2, <3>3
    <2>8. CASE page # {} /\ ~(Cardinality(page) < PageLimit)
        <3>1. UpTo(page) \in Int /\ NoHoleAbove(more, UpTo(page))
            BY <2>2, <2>4, <2>8
        <3>2. backfill' = [backfill EXCEPT !.pages = backfill.pages + 1, !.at = UpTo(page), !.rows = more]
            BY <2>3, <2>8
        <3> QED BY <2>1, <2>5, <3>1, <3>2, AWalkGoesOn
    <2> QED BY <2>6, <2>7, <2>8
<1>13. ASSUME NEW why \in Reasons, backfill' = Ended(why, backfill.rows),
              UNCHANGED <<time, unusable, reports>>,
              backfill.step = "walk", backfill.kind = "funding"
       PROVE  BackfillInv'
    BY <1>2, <1>10, <1>11, <1>13
<1>14. CASE FundingPageAgain
    <2>1. "no_progress" \in Reasons
        BY DEF Reasons
    <2> QED BY <1>13, <1>14, <2>1 DEF FundingPageAgain, FundingIsWanted
<1>15. CASE FundingIsThere
    <2>1. "page_cap" \in Reasons
        BY DEF Reasons
    <2> QED BY <1>13, <1>15, <2>1 DEF FundingIsThere
<1>16. CASE BarsPageAgain
    <2>1. "no_progress" \in Reasons
        BY DEF Reasons
    <2> QED BY <1>8, <1>16, <2>1 DEF BarsPageAgain
<1>17. ASSUME NEW why \in {"budget", "network", "garbled"}, WalkStops(why)
       PROVE  BackfillInv'
    <2>1. /\ backfill' = Ended(why, backfill.rows) /\ UNCHANGED <<time, unusable, reports>>
          /\ BarsAreWanted \/ FundingIsWanted
        BY <1>17 DEF WalkStops
    <2>2. why \in Reasons /\ why # "reached"
        BY DEF Reasons
    <2>3. CASE BarsAreWanted
        BY <1>8, <2>1, <2>2, <2>3
    <2>4. CASE FundingIsWanted
        BY <1>13, <2>1, <2>2, <2>4 DEF FundingIsWanted
    <2> QED BY <2>1, <2>3, <2>4
<1>18. ASSUME backfill' = NoBackfill, UNCHANGED <<time, unusable>>, BackfillsHaveNoHoles'
       PROVE  BackfillInv'
    <2>1. BackfillShape'
        BY <1>2, <1>18, BackfillAssumption DEF BackfillShape, NoBackfill, Newest
    <2> QED BY <1>18, <2>1 DEF BackfillInv, NoBackfill, WalkIsWhole
<1>19. CASE AppendRun
    <2> DEFINE report == [kind |-> backfill.kind, walks |-> backfill.walks]
    <2>1. /\ backfill' = NoBackfill /\ UNCHANGED <<time, unusable>>
          /\ reports' = reports \union {report}
        BY <1>19 DEF AppendRun
    <2>2. \A w \in report.walks :
            IF report.kind = "bars" THEN BarsHaveNoHole(w) ELSE FundingHasNoHole(w)
        BY <1>1 DEF WalkIsHonest
    <2>3. BackfillsHaveNoHoles'
        <3> HIDE DEF report
        <3> QED BY <1>1, <2>1, <2>2 DEF BackfillsHaveNoHoles, BarsHaveNoHole, BarsReached, FundingHasNoHole
    <2> QED BY <1>18, <2>1, <2>3
<1>20. CASE KillRun
    BY <1>4, <1>18, <1>20 DEF KillRun
<1>21. CASE UNCHANGED backfillVars
    <2>1. UNCHANGED <<time, unusable, reports>> /\ backfill' = backfill
        BY <1>21 DEF backfillVars
    <2>2. BackfillShape' /\ WalkIsWhole'
        BY <1>1, <2>1 DEF BackfillShape, WalkIsWhole, WholeBars, NoHoleAbove
    <2>3. (\A w \in backfill.walks : WalkIsHonest(backfill.kind, w))'
        BY <1>1, <2>1 DEF WalkIsHonest, BarsHaveNoHole, BarsReached, FundingHasNoHole
    <2> QED BY <1>4, <2>1, <2>2, <2>3 DEF BackfillInv
<1> QED BY <1>3, <1>5, <1>6, <1>7, <1>9, <1>12, <1>14, <1>15, <1>16, <1>17, <1>19, <1>20, <1>21
        DEF BackfillNext

-----------------------------------------------------------------------------
(* The datasets of polls.  What a build has read and finds no newer than   *)
(* the watermark is stored or overtaken; what is newer is in no part, and  *)
(* the parts that the build has planned share it out.  Without a kill the  *)
(* newest row that a part's name tells of is stored or planned, so that no *)
(* name is taken when fresh rows are planned.                              *)

ArchiveInv ==
    /\ pollClock \in Nat /\ passKills \in Nat
    /\ \A f \in archive : f.at \in 0..pollClock
    /\ \A f \in archive, g \in archive : f.at = g.at => f = g

LoopShape ==
    loop = [step |-> loop.step, of |-> loop.of, days |-> loop.days, todo |-> loop.todo,
            read |-> loop.read, left |-> loop.left]

OfBuild(dataset, venue, f) == f \in archive /\ f.stream[1] = venue /\ Extracted(dataset, venue, f.frame)

LoopInv ==
    /\ LoopShape
    /\ loop.step # "none" => loop.of \in Builds
    /\ loop.step # "write" => loop.left = {}
    /\ \A f \in loop.read : OfBuild(Dataset, Venue, f)

LeftInv ==
    \A p \in loop.left :
        /\ p.dataset = Dataset /\ p.venue = Venue /\ p.rows \subseteq loop.read
        /\ \A r \in p.rows : HourAt(r.at) = p.hour
        /\ \A q \in loop.left : q.hour = p.hour => q = p
        /\ \A q \in polled : q.dataset = p.dataset => \A r \in p.rows : r \notin q.rows

PartsInv ==
    /\ \A p \in polled :
         /\ p.dataset = "dated_futures" => p.venue = "bybit"
         /\ \A r \in p.rows : OfBuild(p.dataset, p.venue, r)
    /\ \A p \in polled, q \in polled :
         p # q /\ p.dataset = q.dataset => \A r \in p.rows : r \notin q.rows

Accounted(dataset, f) == InStore(dataset, f) \/ Overtaken(dataset, f)

ReadIsAccounted ==
    loop.step = "write" =>
        \A f \in loop.read : Accounted(Dataset, f) \/ \E p \in loop.left : f \in p.rows

(* The newest row that a part names is stored, or planned.                 *)
NamesItsNewest(p) ==
    \E q \in polled \union loop.left :
        q.dataset = p.dataset /\ q.venue = p.venue /\ \E r \in q.rows : r.at = p.upto

NamesInv == passKills = 0 => \A p \in polled \union loop.left : NamesItsNewest(p)

VouchedInv ==
    \A w \in vouched :
        \/ Accounted(w[1], w[2])
        \/ passKills > 0 /\ NamedAsBuilt(w[1], w[2])

PolledInv ==
    /\ ArchiveInv /\ LoopInv /\ LeftInv /\ PartsInv
    /\ ReadIsAccounted /\ NamesInv /\ VouchedInv

(* No perpetual's rate is blank.                                           *)
LEMMA NotBoth ==
    ASSUME NEW f, NEW venue,
           OfBuild("funding", venue, f), OfBuild("dated_futures", "bybit", f)
    PROVE  FALSE
<1>1. venue = "bybit"
    BY DEF OfBuild
<1>2. FundingOfBybit(f.frame) /\ DatedFuture(f.frame)
    BY <1>1 DEF OfBuild, Extracted
<1> QED BY <1>2 DEF FundingOfBybit, DatedFuture

LEMMA KeptFollows == PolledInv => PolledRowsAreKept
<1> SUFFICES ASSUME PolledInv PROVE PolledRowsAreKept
    OBVIOUS
<1>1. \A w \in vouched : \/ InStore(w[1], w[2]) \/ Overtaken(w[1], w[2])
                         \/ passKills > 0 /\ NamedAsBuilt(w[1], w[2])
    BY DEF PolledInv, VouchedInv, Accounted
<1>2. \A p \in polled : \A q \in polled \ {p} : p.dataset = q.dataset => p.rows \intersect q.rows = {}
    BY DEF PolledInv, PartsInv
<1>3. \A f \in archive : ~(InStore("funding", f) /\ InStore("dated_futures", f))
    BY NotBoth DEF PolledInv, PartsInv, InStore
<1> QED BY <1>1, <1>2, <1>3 DEF PolledRowsAreKept

LEMMA PolledStarts == PolledInit => PolledInv
<1> SUFFICES ASSUME PolledInit PROVE PolledInv
    OBVIOUS
<1>1. pollClock \in Nat /\ passKills = 0 /\ archive = {} /\ loop = NoLoop /\ polled = {} /\ vouched = {}
    BY PolledAssumption DEF PolledInit
<1>2. loop.step = "none" /\ loop.read = {} /\ loop.left = {} /\ LoopShape
    BY <1>1 DEF NoLoop, LoopShape
<1> QED BY <1>1, <1>2 DEF PolledInv, ArchiveInv, LoopInv, LeftInv, PartsInv, ReadIsAccounted, NamesInv, VouchedInv

LEMMA TheDayIsOver ==
    ASSUME LoopInv, loop.step # "none", loop' = AfterDay, archive' = archive
    PROVE  /\ LoopInv' /\ loop'.step \notin {"none", "write"} /\ loop'.of = loop.of
           /\ loop'.read = {} /\ loop'.left = {}
<1> DEFINE nextStep == IF Cardinality(loop.days) > 1 THEN "list" ELSE "reserves"
           days == loop.days \ {BuildDay}
<1>1. loop' = [loop EXCEPT !.days = days, !.todo = {}, !.read = {}, !.left = {}, !.step = nextStep]
    BY DEF AfterDay
<1>2. nextStep \in {"list", "reserves"}
    OBVIOUS
<1> HIDE DEF nextStep, days
<1>3. loop' = [step |-> nextStep, of |-> loop.of, days |-> days, todo |-> {}, read |-> {}, left |-> {}]
    BY <1>1 DEF LoopInv, LoopShape
<1>4. /\ loop'.step = nextStep /\ loop'.of = loop.of /\ loop'.read = {} /\ loop'.left = {}
      /\ loop'.days = days /\ loop'.todo = {}
    BY <1>3
<1>5. LoopShape'
    BY <1>3, <1>4 DEF LoopShape
<1> QED BY <1>2, <1>4, <1>5 DEF LoopInv

(* A step of the loop that plans and stores nothing.                       *)
LEMMA NothingIsStored ==
    ASSUME PolledInv, UNCHANGED <<pollClock, archive, polled, vouched>>,
           LoopInv', loop'.step # "write",
           (passKills' = passKills /\ loop.step # "write") \/ passKills' = passKills + 1
    PROVE  PolledInv'
<1>1. pollClock' = pollClock /\ archive' = archive /\ polled' = polled /\ vouched' = vouched
    OBVIOUS
<1>2. ArchiveInv /\ LoopInv /\ PartsInv /\ NamesInv /\ VouchedInv
    BY DEF PolledInv
<1>3. passKills \in Nat /\ passKills' \in Nat /\ passKills' >= passKills
    BY <1>2 DEF ArchiveInv
<1>4. loop'.left = {}
    BY DEF LoopInv
<1>5. ArchiveInv' /\ LeftInv' /\ ReadIsAccounted'
    BY <1>1, <1>2, <1>3, <1>4 DEF ArchiveInv, LeftInv, ReadIsAccounted
<1>6. PartsInv'
    BY <1>1, <1>2 DEF PartsInv, OfBuild
<1>7. NamesInv'
    <2>1. CASE passKills' = passKills /\ loop.step # "write"
        <3>1. loop.left = {}
            BY <1>2, <2>1 DEF LoopInv
        <3> QED BY <1>1, <1>2, <1>4, <2>1, <3>1 DEF NamesInv, NamesItsNewest
    <2>2. CASE passKills' = passKills + 1
        BY <1>3, <2>2 DEF NamesInv
    <2> QED BY <2>1, <2>2
<1>8. VouchedInv'
    BY <1>1, <1>2, <1>3 DEF VouchedInv, Accounted, InStore, Overtaken, NamedAsBuilt, PartsOf
<1> QED BY <1>5, <1>6, <1>7, <1>8 DEF PolledInv

(* A step of the recorder, or of the clock.                                *)
LEMMA FramesArrive ==
    ASSUME PolledInv, UNCHANGED <<loop, polled, vouched, passKills>>,
           ArchiveInv', archive \subseteq archive',
           \A f \in archive' \ archive : \A g \in archive : ~(f.at <= g.at)
    PROVE  PolledInv'
<1>1. loop' = loop /\ polled' = polled /\ vouched' = vouched /\ passKills' = passKills
    OBVIOUS
<1>2. LoopInv /\ LeftInv /\ PartsInv /\ ReadIsAccounted /\ NamesInv /\ VouchedInv
    BY DEF PolledInv
<1>3. LoopInv'
    BY <1>1, <1>2 DEF LoopInv, LoopShape, OfBuild, Dataset, Venue
<1>4. LeftInv'
    BY <1>1, <1>2 DEF LeftInv, Dataset, Venue
<1>5. PartsInv'
    BY <1>1, <1>2 DEF PartsInv, OfBuild
<1>6. ReadIsAccounted'
    BY <1>1, <1>2 DEF ReadIsAccounted, Accounted, InStore, Overtaken, PartsOf, Dataset
<1>7. NamesInv'
    BY <1>1, <1>2 DEF NamesInv, NamesItsNewest
<1>8. VouchedInv'
    BY <1>1, <1>2 DEF VouchedInv, Accounted, InStore, Overtaken, NamedAsBuilt, PartsOf
<1> QED BY <1>3, <1>4, <1>5, <1>6, <1>7, <1>8 DEF PolledInv

LEMMA RecorderOfPolls ==
    ASSUME PolledInv,
           \/ InstantGoesBy \/ RecorderDies \/ RepairMarkers
           \/ \E s \in Sources : CloseHour(s)
           \/ \E x \in VenueAnswers : Archive(x[1], x[2])
           \/ UNCHANGED polledVars
    PROVE  PolledInv'
<1>1. ArchiveInv
    BY DEF PolledInv
<1>2. CASE InstantGoesBy
    <2>1. /\ pollClock' = pollClock + 1 /\ archive' = archive /\ passKills' = passKills
          /\ UNCHANGED <<loop, polled, vouched, passKills>>
        BY <1>2 DEF InstantGoesBy
    <2>2. 0..pollClock \subseteq 0..pollClock' /\ pollClock' \in Nat
        BY <1>1, <2>1 DEF ArchiveInv
    <2>3. ArchiveInv'
        BY <1>1, <2>1, <2>2 DEF ArchiveInv
    <2> QED BY <2>1, <2>3, FramesArrive
<1>3. ASSUME NEW x \in VenueAnswers, Archive(x[1], x[2])
      PROVE  PolledInv'
    <2> DEFINE new == [stream |-> x[1], at |-> pollClock, frame |-> x[2]]
    <2>1. /\ \A f \in archive : f.at # pollClock
          /\ archive' = archive \union {new} /\ pollClock' = pollClock /\ passKills' = passKills
          /\ UNCHANGED <<loop, polled, vouched, passKills>>
        BY <1>3 DEF Archive
    <2>2. new.at = pollClock /\ pollClock \in Nat
        BY <1>1 DEF ArchiveInv
    <2> HIDE DEF new
    <2>3. \A f \in archive : f.at \in 0..pollClock
        BY <1>1 DEF ArchiveInv
    <2>4. ArchiveInv'
        BY <1>1, <2>1, <2>2 DEF ArchiveInv
    <2>5. \A g \in archive : ~(new.at <= g.at)
        BY <2>1, <2>2, <2>3
    <2> QED BY <2>1, <2>4, <2>5, FramesArrive
<1>4. ASSUME UNCHANGED <<pollClock, archive, loop, polled, vouched, passKills>>
      PROVE  PolledInv'
    <2>1. ArchiveInv'
        BY <1>1, <1>4 DEF ArchiveInv
    <2> QED BY <1>4, <2>1, FramesArrive
<1>5. CASE RecorderDies \/ RepairMarkers \/ (\E s \in Sources : CloseHour(s)) \/ UNCHANGED polledVars
    BY <1>4, <1>5 DEF RecorderDies, RepairMarkers, CloseHour, polledVars
<1> QED BY <1>2, <1>3, <1>5

LEMMA LoopOfPolls ==
    ASSUME PolledInv,
           \/ ListDay \/ BuildRaises \/ KillLoop
           \/ \E s \in Sources : ReadSymbol(s)
           \/ \E of \in Builds : BeginLoop(of)
           \/ \E entries \in SUBSET ReserveEntries : PollReserves(entries)
    PROVE  PolledInv'
<1>1. LoopInv /\ LoopShape
    BY DEF PolledInv, LoopInv
<1>2. ASSUME loop' = NoLoop
      PROVE  LoopInv' /\ loop'.step # "write"
    <2>1. loop'.step = "none" /\ loop'.read = {} /\ loop'.left = {}
        BY <1>2 DEF NoLoop
    <2>2. LoopShape'
        BY <1>2 DEF NoLoop, LoopShape
    <2> QED BY <2>1, <2>2 DEF LoopInv
<1>3. CASE ListDay
    <2>1. /\ UNCHANGED <<pollClock, archive, polled, vouched>> /\ passKills' = passKills
          /\ loop.step = "list" /\ archive' = archive
        BY <1>3 DEF ListDay
    <2>2. CASE loop' = AfterDay
        BY <1>1, <2>1, <2>2, TheDayIsOver, NothingIsStored
    <2>3. CASE loop' # AfterDay
        <3> DEFINE streams == {f.stream : f \in InDay(BuildDay, Venue)}
        <3>1. loop' = [loop EXCEPT !.step = "read", !.todo = streams]
            BY <1>3, <2>3 DEF ListDay
        <3> HIDE DEF streams
        <3>2. loop' = [step |-> "read", of |-> loop.of, days |-> loop.days, todo |-> streams,
                       read |-> loop.read, left |-> loop.left]
            BY <1>1, <3>1 DEF LoopShape
        <3>3. /\ loop'.step = "read" /\ loop'.of = loop.of /\ loop'.days = loop.days /\ loop'.todo = streams
              /\ loop'.read = loop.read /\ loop'.left = loop.left
            BY <3>2
        <3>4. LoopInv'
            BY <1>1, <2>1, <3>2, <3>3 DEF LoopInv, LoopShape, OfBuild, Dataset, Venue
        <3> QED BY <2>1, <3>3, <3>4, NothingIsStored
    <2> QED BY <2>2, <2>3
<1>4. ASSUME NEW s \in Sources, ReadSymbol(s)
      PROVE  PolledInv'
    <2> DEFINE found == {f \in InDay(BuildDay, Venue) : f.stream = s /\ ~Held(s, HourAt(f.at))}
               taken == {f \in found : Extracted(Dataset, Venue, f.frame)}
    <2>1. /\ UNCHANGED <<pollClock, archive, polled, vouched>> /\ passKills' = passKills
          /\ loop.step = "read" /\ archive' = archive
        BY <1>4 DEF ReadSymbol
    <2>2. CASE loop' = AfterDay
        BY <1>1, <2>1, <2>2, TheDayIsOver, NothingIsStored
    <2>3. CASE loop' # AfterDay
        <3>1. loop' = [loop EXCEPT !.todo = loop.todo \ {s}, !.read = loop.read \union taken]
            BY <1>4, <2>3 DEF ReadSymbol
        <3>2. \A f \in taken : OfBuild(Dataset, Venue, f)
            BY DEF InDay, OfBuild
        <3> HIDE DEF taken
        <3>3. loop' = [step |-> loop.step, of |-> loop.of, days |-> loop.days, todo |-> loop.todo \ {s},
                       read |-> loop.read \union taken, left |-> loop.left]
            BY <1>1, <3>1 DEF LoopShape
        <3>4. /\ loop'.step = "read" /\ loop'.of = loop.of /\ loop'.days = loop.days
              /\ loop'.todo = loop.todo \ {s}
              /\ loop'.read = loop.read \union taken /\ loop'.left = loop.left
            BY <2>1, <3>3
        <3>5. LoopShape'
            BY <2>1, <3>3, <3>4 DEF LoopShape
        <3>6. LoopInv'
            BY <1>1, <2>1, <3>2, <3>4, <3>5 DEF LoopInv, OfBuild, Dataset, Venue
        <3> QED BY <2>1, <3>4, <3>6, NothingIsStored, SMTT(60)
    <2> QED BY <2>2, <2>3, SMTT(60)
<1>5. CASE BuildRaises
    <2>1. /\ UNCHANGED <<pollClock, archive, polled, vouched>> /\ passKills' = passKills + 1
          /\ loop.step # "none" /\ archive' = archive /\ loop' = AfterDay
        BY <1>5 DEF BuildRaises
    <2> QED BY <1>1, <2>1, TheDayIsOver, NothingIsStored
<1>6. CASE KillLoop
    BY <1>2, <1>6, NothingIsStored DEF KillLoop
<1>7. ASSUME NEW entries \in SUBSET ReserveEntries, PollReserves(entries)
      PROVE  PolledInv'
    <2>1. /\ UNCHANGED <<pollClock, archive, polled, vouched>> /\ passKills' = passKills
          /\ loop.step # "write" /\ loop' = NoLoop
        BY <1>7 DEF PollReserves
    <2> QED BY <1>2, <2>1, NothingIsStored
<1>8. ASSUME NEW of \in Builds, BeginLoop(of)
      PROVE  PolledInv'
    <2> DEFINE days == {DayAt(pollClock) - 1, DayAt(pollClock)} \intersect Nat
    <2>1. /\ UNCHANGED <<pollClock, archive, polled, vouched>> /\ passKills' = passKills
          /\ loop.step # "write"
          /\ loop' = [NoLoop EXCEPT !.step = "list", !.of = of, !.days = days]
        BY <1>8 DEF BeginLoop
    <2> HIDE DEF days
    <2>2. loop' = [step |-> "list", of |-> of, days |-> days, todo |-> {}, read |-> {}, left |-> {}]
        BY <2>1 DEF NoLoop
    <2>3. /\ loop'.step = "list" /\ loop'.of = of /\ loop'.days = days /\ loop'.todo = {}
          /\ loop'.read = {} /\ loop'.left = {}
        BY <2>2
    <2>4. LoopInv'
        BY <2>2, <2>3 DEF LoopInv, LoopShape
    <2> QED BY <2>1, <2>3, <2>4, NothingIsStored
<1> QED BY <1>3, <1>4, <1>5, <1>6, <1>7, <1>8

-----------------------------------------------------------------------------
LEMMA WatermarkFacts ==
    ASSUME PolledInv
    PROVE  /\ Watermark(Dataset, Venue) \in Int
           /\ \A p \in polled : p.dataset = Dataset /\ p.venue = Venue =>
                \A r \in p.rows : r.at <= Watermark(Dataset, Venue)
           /\ \A f \in archive : f.at <= Watermark(Dataset, Venue) =>
                \E p \in polled : /\ p.dataset = Dataset /\ p.venue = Venue
                                  /\ \E r \in p.rows : f.at <= r.at
<1> DEFINE P == {q \in polled : q.dataset = Dataset /\ q.venue = Venue}
           S == {f.at : f \in UNION {p.rows : p \in P}}
           m == Watermark(Dataset, Venue)
<1>1. pollClock \in Nat /\ \A f \in archive : f.at \in 0..pollClock
    BY DEF PolledInv, ArchiveInv
<1>2. \A p \in polled : \A r \in p.rows : r \in archive
    BY DEF PolledInv, PartsInv, OfBuild
<1>3. \A t \in S : \E p \in P : \E r \in p.rows : t = r.at
    OBVIOUS
<1>4. \A p \in P : \A r \in p.rows : r.at \in S
    OBVIOUS
<1>5. \A p \in P : p \in polled /\ p.dataset = Dataset /\ p.venue = Venue
    OBVIOUS
<1>6. \A p \in polled : p.dataset = Dataset /\ p.venue = Venue => p \in P
    OBVIOUS
<1>7. m = Max({-1} \union S)
    BY DEF Watermark
<1> HIDE DEF S, P, m
<1>8. S \in SUBSET (0..pollClock)
    BY <1>1, <1>2, <1>3, <1>5
<1>9. m \in {-1} \union S /\ m \in Int /\ \A t \in S : t <= m
    BY <1>1, <1>7, <1>8, LargestOrNone
<1>10. ASSUME NEW f \in archive, f.at <= m
       PROVE  \E p \in polled : /\ p.dataset = Dataset /\ p.venue = Venue
                                /\ \E r \in p.rows : f.at <= r.at
    <2>1. f.at \in Nat
        BY <1>1
    <2>2. m \in S
        BY <1>9, <1>10, <2>1
    <2> QED BY <1>3, <1>5, <1>10, <2>2
<1>11. ASSUME NEW p \in polled, p.dataset = Dataset, p.venue = Venue, NEW r \in p.rows
       PROVE  r.at <= m
    BY <1>4, <1>6, <1>9, <1>11
<1> QED BY <1>9, <1>10, <1>11 DEF m

(* What a build has read and is no newer than the watermark is accounted   *)
(* for; what is newer is in no part.                                       *)
LEMMA FreshOrAccounted ==
    ASSUME PolledInv, NEW f \in loop.read
    PROVE  /\ f \notin FreshRows => Accounted(Dataset, f)
           /\ f \in FreshRows => \A q \in polled : q.dataset = Dataset => f \notin q.rows
<1>1. OfBuild(Dataset, Venue, f) /\ f \in archive /\ f.stream[1] = Venue
    BY DEF PolledInv, LoopInv, OfBuild
<1>2. f.at \in Int /\ Watermark(Dataset, Venue) \in Int
    BY <1>1, WatermarkFacts DEF PolledInv, ArchiveInv
<1>3. ASSUME f \notin FreshRows
      PROVE  Accounted(Dataset, f)
    <2>1. f.at <= Watermark(Dataset, Venue)
        BY <1>2, <1>3 DEF FreshRows
    <2>2. PICK p \in polled : p.dataset = Dataset /\ p.venue = Venue /\ \E r \in p.rows : f.at <= r.at
        BY <1>1, <2>1, WatermarkFacts
    <2>3. PICK r \in p.rows : f.at <= r.at
        BY <2>2
    <2>4. r \in archive /\ r.at \in Int
        BY DEF PolledInv, PartsInv, OfBuild, ArchiveInv
    <2>5. f.at = r.at => f = r
        BY <1>1, <2>4 DEF PolledInv, ArchiveInv
    <2>6. CASE f = r
        BY <2>2, <2>6 DEF Accounted, InStore
    <2>7. CASE f.at < r.at
        BY <1>1, <2>2, <2>7 DEF Accounted, Overtaken, PartsOf
    <2> QED BY <1>2, <2>3, <2>4, <2>5, <2>6, <2>7
<1>4. ASSUME f \in FreshRows, NEW q \in polled, q.dataset = Dataset, f \in q.rows
      PROVE  FALSE
    <2>1. q.venue = Venue
        BY <1>1, <1>4 DEF PolledInv, PartsInv, OfBuild
    <2>2. f.at <= Watermark(Dataset, Venue)
        BY <1>4, <2>1, WatermarkFacts
    <2> QED BY <1>2, <1>4, <2>2 DEF FreshRows
<1> QED BY <1>3, <1>4

LEMMA PartsArePlanned ==
    ASSUME PolledInv, PlanParts
    PROVE  PolledInv'
<1> DEFINE Part(h) == [dataset |-> Dataset, venue |-> Venue, day |-> BuildDay,
                       upto |-> Max({f.at : f \in FreshRows}), hour |-> h,
                       rows |-> {f \in FreshRows : HourAt(f.at) = h}]
           parts == {Part(h) : h \in {HourAt(f.at) : f \in FreshRows}}
           collides == \E p \in parts : IsThere(p)
           ends == FreshRows = {} \/ collides
<1>1. /\ pollClock' = pollClock /\ archive' = archive /\ polled' = polled
      /\ passKills' = passKills /\ loop.step = "read"
    BY DEF PlanParts
<1>2. /\ loop' = IF ends THEN AfterDay ELSE [loop EXCEPT !.step = "write", !.left = parts]
      /\ vouched' = IF ends THEN vouched \union ({Dataset} \X loop.read) ELSE vouched
    BY DEF PlanParts
<1>3. /\ ArchiveInv /\ LoopInv /\ PartsInv /\ NamesInv /\ VouchedInv
      /\ loop.left = {}
    BY <1>1 DEF PolledInv, LoopInv
<1>4. /\ ArchiveInv' /\ PartsInv'
      /\ \A dataset, f : Accounted(dataset, f) => Accounted(dataset, f)'
      /\ \A dataset, f : NamedAsBuilt(dataset, f) => NamedAsBuilt(dataset, f)'
    BY <1>1, <1>3 DEF ArchiveInv, PartsInv, OfBuild, Accounted, InStore, Overtaken, NamedAsBuilt, PartsOf
<1>5. \A f \in FreshRows : f \in loop.read /\ f \in archive /\ f.at \in 0..pollClock
    BY <1>3 DEF FreshRows, LoopInv, OfBuild, ArchiveInv
<1>6. \A p \in parts : \E f \in FreshRows : p = Part(HourAt(f.at))
    OBVIOUS
<1>7. \A f \in FreshRows : Part(HourAt(f.at)) \in parts
    OBVIOUS
<1>8. \A h : /\ Part(h).dataset = Dataset /\ Part(h).venue = Venue /\ Part(h).hour = h
             /\ Part(h).upto = Max({f.at : f \in FreshRows})
             /\ Part(h).rows = {f \in FreshRows : HourAt(f.at) = h}
    OBVIOUS
<1> HIDE DEF Part, parts
(* The newest row that the parts name is fresh, and no fresh one is newer. *)
<1>9. ASSUME NEW p \in parts
      PROVE  /\ \E g \in FreshRows : p.upto = g.at
             /\ \A f \in FreshRows : f.at <= p.upto
    <2> DEFINE S == {f.at : f \in FreshRows}
    <2>1. S \in SUBSET (0..pollClock) /\ S # {} /\ pollClock \in Nat
        BY <1>3, <1>5, <1>6 DEF ArchiveInv
    <2>2. Max(S) \in S /\ \A t \in S : t <= Max(S)
        <3> HIDE DEF S
        <3> QED BY <2>1, LargestIn
    <2>3. p.upto = Max(S)
        BY <1>6, <1>8
    <2> QED BY <2>2, <2>3
<1>10. collides => passKills > 0
    <2> SUFFICES ASSUME NEW p \in parts, IsThere(p), passKills = 0
                 PROVE  FALSE
        BY <1>3 DEF ArchiveInv
    <2>1. PICK q \in polled : q.dataset = p.dataset /\ q.venue = p.venue /\ q.upto = p.upto
        BY DEF IsThere
    <2>2. PICK o \in polled : o.dataset = q.dataset /\ o.venue = q.venue /\ \E r \in o.rows : r.at = q.upto
        BY <1>3, <2>1 DEF NamesInv, NamesItsNewest
    <2>3. PICK r \in o.rows : r.at = q.upto
        BY <2>2
    <2>4. PICK g \in FreshRows : p.upto = g.at
        BY <1>9
    <2>5. o.dataset = Dataset /\ o.venue = Venue
        BY <1>6, <1>8, <2>1, <2>2
    <2>6. r.at <= Watermark(Dataset, Venue) /\ Watermark(Dataset, Venue) \in Int
        BY <2>5, WatermarkFacts
    <2>7. g.at > Watermark(Dataset, Venue) /\ g.at \in Int
        BY <1>5 DEF FreshRows
    <2> QED BY <2>1, <2>3, <2>4, <2>6, <2>7
<1>11. CASE ends
    <2>1. loop' = AfterDay /\ vouched' = vouched \union ({Dataset} \X loop.read)
        BY <1>2, <1>11
    <2>2. LoopInv' /\ loop'.step # "write" /\ loop'.left = {}
        BY <1>1, <1>3, <2>1, TheDayIsOver
    <2>3. LeftInv' /\ ReadIsAccounted'
        BY <2>2 DEF LeftInv, ReadIsAccounted
    <2>4. NamesInv'
        BY <1>1, <1>3, <2>2 DEF NamesInv, NamesItsNewest
    <2>5. ASSUME NEW w \in vouched'
          PROVE  Accounted(w[1], w[2])' \/ (passKills' > 0 /\ NamedAsBuilt(w[1], w[2])')
        <3>1. CASE w \in vouched
            BY <1>1, <1>3, <1>4, <3>1 DEF VouchedInv
        <3>2. CASE w \in {Dataset} \X loop.read
            <4>1. PICK f \in loop.read : w[1] = Dataset /\ w[2] = f
                BY <3>2
            <4>2. CASE f \in FreshRows
                <5>1. passKills > 0
                    BY <1>10, <1>11, <4>2
                <5>2. PICK p \in parts : IsThere(p)
                    BY <1>11, <4>2
                <5>3. PICK q \in polled : q.dataset = p.dataset /\ q.venue = p.venue /\ q.upto = p.upto
                    BY <5>2 DEF IsThere
                <5>4. f.stream[1] = Venue /\ f.at <= p.upto
                    BY <1>3, <1>9, <4>2 DEF LoopInv, OfBuild
                <5>5. NamedAsBuilt(Dataset, f)
                    BY <1>6, <1>8, <5>3, <5>4 DEF NamedAsBuilt, PartsOf
                <5> QED BY <1>1, <1>4, <4>1, <5>1, <5>5
            <4>3. CASE f \notin FreshRows
                BY <1>4, <4>1, <4>3, FreshOrAccounted
            <4> QED BY <4>2, <4>3
        <3> QED BY <2>1, <3>1, <3>2
    <2>6. VouchedInv'
        BY <2>5 DEF VouchedInv
    <2> QED BY <1>4, <2>2, <2>3, <2>4, <2>6 DEF PolledInv
<1>12. CASE ~ends
    <2>1. /\ loop' = [loop EXCEPT !.step = "write", !.left = parts]
          /\ vouched' = vouched
        BY <1>2, <1>12
    <2>2. loop' = [step |-> "write", of |-> loop.of, days |-> loop.days, todo |-> loop.todo,
                   read |-> loop.read, left |-> parts]
        BY <1>3, <2>1 DEF LoopInv, LoopShape
    <2>3. /\ loop'.step = "write" /\ loop'.of = loop.of /\ loop'.days = loop.days
          /\ loop'.todo = loop.todo /\ loop'.read = loop.read /\ loop'.left = parts
        BY <2>2
    <2>4. LoopShape'
        BY <2>2, <2>3 DEF LoopShape
    <2>5. LoopInv'
        BY <1>1, <1>3, <2>3, <2>4 DEF LoopInv, OfBuild, Dataset, Venue
    <2>6. Dataset' = Dataset /\ Venue' = Venue
        BY <2>3 DEF Dataset, Venue
    <2>7. LeftInv'
        <3> SUFFICES ASSUME NEW p \in parts
                     PROVE  /\ p.dataset = Dataset /\ p.venue = Venue /\ p.rows \subseteq loop.read
                            /\ \A r \in p.rows : HourAt(r.at) = p.hour
                            /\ \A q \in parts : q.hour = p.hour => q = p
                            /\ \A q \in polled : q.dataset = p.dataset => \A r \in p.rows : r \notin q.rows
            BY <1>1, <2>3, <2>6 DEF LeftInv
        <3>1. /\ p.dataset = Dataset /\ p.venue = Venue
              /\ \A r \in p.rows : r \in FreshRows /\ HourAt(r.at) = p.hour
            BY <1>6, <1>8
        <3>2. p = Part(p.hour) /\ \A q \in parts : q = Part(q.hour)
            BY <1>6, <1>8
        <3>3. \A r \in p.rows : r \in loop.read /\ r \in FreshRows
            BY <1>5, <3>1
        <3>4. \A q \in polled : q.dataset = p.dataset => \A r \in p.rows : r \notin q.rows
            BY <3>1, <3>3, FreshOrAccounted
        <3> QED BY <3>1, <3>2, <3>3, <3>4
    <2>8. ReadIsAccounted'
        <3> SUFFICES ASSUME NEW f \in loop.read
                     PROVE  Accounted(Dataset, f)' \/ \E p \in parts : f \in p.rows
            BY <2>3, <2>6 DEF ReadIsAccounted
        <3>1. CASE f \in FreshRows
            BY <1>7, <1>8, <3>1
        <3>2. CASE f \notin FreshRows
            BY <1>4, <2>6, <3>2, FreshOrAccounted
        <3> QED BY <3>1, <3>2
    <2>9. NamesInv'
        <3>1. ASSUME NEW p \in parts
              PROVE  NamesItsNewest(p)'
            <4>1. PICK g \in FreshRows : p.upto = g.at
                BY <1>9
            <4>2. Part(HourAt(g.at)) \in parts /\ g \in Part(HourAt(g.at)).rows
                BY <1>7, <1>8
            <4>3. p.dataset = Dataset /\ p.venue = Venue
                BY <1>6, <1>8
            <4> QED BY <1>8, <2>3, <4>1, <4>2, <4>3 DEF NamesItsNewest
        <3>2. ASSUME NEW p \in polled, passKills = 0
              PROVE  NamesItsNewest(p)'
            <4>1. NamesItsNewest(p)
                BY <1>3, <3>2 DEF NamesInv
            <4> QED BY <1>1, <1>3, <2>3, <4>1 DEF NamesItsNewest
        <3> QED BY <1>1, <2>3, <3>1, <3>2 DEF NamesInv
    <2>10. VouchedInv'
        BY <1>1, <1>3, <1>4, <2>1 DEF VouchedInv
    <2> QED BY <1>4, <2>5, <2>7, <2>8, <2>9, <2>10 DEF PolledInv
<1> QED BY <1>11, <1>12

LEMMA APartIsStored ==
    ASSUME PolledInv, NEW p \in loop.left, StorePart(p)
    PROVE  PolledInv'
<1> DEFINE last == loop.left = {p}
           remaining == loop.left \ {p}
<1>1. /\ pollClock' = pollClock /\ archive' = archive /\ passKills' = passKills
      /\ polled' = polled \union {p}
      /\ loop.step = "write"
    BY DEF StorePart
<1>2. /\ loop' = IF last THEN AfterDay ELSE [loop EXCEPT !.left = remaining]
      /\ vouched' = IF last THEN vouched \union ({p.dataset} \X loop.read) ELSE vouched
    BY DEF StorePart
<1>3. /\ ArchiveInv /\ LoopInv /\ LeftInv /\ PartsInv /\ ReadIsAccounted
      /\ NamesInv /\ VouchedInv
    BY DEF PolledInv
<1>4. /\ p.dataset = Dataset /\ p.venue = Venue /\ p.rows \subseteq loop.read
      /\ \A r \in p.rows : HourAt(r.at) = p.hour
      /\ \A q \in loop.left : q.hour = p.hour => q = p
      /\ \A q \in polled : q.dataset = p.dataset => \A r \in p.rows : r \notin q.rows
    BY <1>3 DEF LeftInv
<1>5. \A r \in p.rows : OfBuild(p.dataset, p.venue, r) /\ r \in archive
    BY <1>3, <1>4 DEF LoopInv, OfBuild
<1>6. /\ ArchiveInv'
      /\ \A dataset, f : Accounted(dataset, f) => Accounted(dataset, f)'
      /\ \A dataset, f : NamedAsBuilt(dataset, f) => NamedAsBuilt(dataset, f)'
      /\ \A f \in p.rows : Accounted(p.dataset, f)'
    BY <1>1, <1>3 DEF ArchiveInv, Accounted, InStore, Overtaken, NamedAsBuilt, PartsOf
<1>7. /\ loop'.of = loop.of /\ LoopInv'
      /\ last => loop'.left = {} /\ loop'.step # "write"
      /\ ~last => loop'.left = remaining /\ loop'.read = loop.read /\ loop'.step = "write"
    <2>1. CASE last
        <3>1. loop' = AfterDay
            BY <1>2, <2>1
        <3> QED BY <1>1, <1>3, <2>1, <3>1, TheDayIsOver
    <2>2. CASE ~last
        <3>1. loop' = [loop EXCEPT !.left = remaining]
            BY <1>2, <2>2
        <3> HIDE DEF remaining
        <3>2. loop' = [step |-> loop.step, of |-> loop.of, days |-> loop.days, todo |-> loop.todo,
                       read |-> loop.read, left |-> remaining]
            BY <1>3, <3>1 DEF LoopInv, LoopShape
        <3>3. /\ loop'.step = "write" /\ loop'.of = loop.of /\ loop'.days = loop.days
              /\ loop'.todo = loop.todo /\ loop'.read = loop.read /\ loop'.left = remaining
            BY <1>1, <3>2
        <3>4. LoopShape'
            BY <1>1, <3>2, <3>3 DEF LoopShape
        <3>5. LoopInv'
            BY <1>1, <1>3, <3>3, <3>4 DEF LoopInv, OfBuild, Dataset, Venue
        <3> QED BY <2>2, <3>3, <3>5
    <2> QED BY <2>1, <2>2
<1>8. /\ loop'.left \subseteq loop.left /\ p \notin loop'.left
      /\ polled' \union loop'.left = polled \union loop.left
      /\ Dataset' = Dataset /\ Venue' = Venue
    BY <1>1, <1>7 DEF Dataset, Venue
<1>9. LeftInv'
    <2> SUFFICES ASSUME NEW q \in loop'.left
                 PROVE  /\ q.dataset = Dataset /\ q.venue = Venue /\ q.rows \subseteq loop'.read
                        /\ \A r \in q.rows : HourAt(r.at) = q.hour
                        /\ \A o \in loop'.left : o.hour = q.hour => o = q
                        /\ \A o \in polled' : o.dataset = q.dataset => \A r \in q.rows : r \notin o.rows
        BY <1>8 DEF LeftInv
    <2>1. q \in loop.left /\ q # p /\ loop'.read = loop.read
        BY <1>7, <1>8
    <2>2. /\ q.dataset = Dataset /\ q.venue = Venue /\ q.rows \subseteq loop.read
          /\ \A r \in q.rows : HourAt(r.at) = q.hour
          /\ \A o \in loop.left : o.hour = q.hour => o = q
          /\ \A o \in polled : o.dataset = q.dataset => \A r \in q.rows : r \notin o.rows
        BY <1>3, <2>1 DEF LeftInv
    <2>3. \A r \in q.rows : r \notin p.rows
        BY <1>4, <2>1, <2>2
    <2> QED BY <1>1, <1>8, <2>1, <2>2, <2>3
<1>10. PartsInv'
    <2>1. p.dataset = "dated_futures" => p.venue = "bybit"
        BY <1>1, <1>3, <1>4, PolledAssumption DEF LoopInv, Dataset, Venue
    <2>2. \A q \in polled : p.dataset = q.dataset => \A r \in q.rows : r \notin p.rows
        BY <1>4
    <2>3. \A q \in polled' :
            /\ q.dataset = "dated_futures" => q.venue = "bybit"
            /\ \A r \in q.rows : OfBuild(q.dataset, q.venue, r)
        BY <1>1, <1>3, <1>5, <2>1 DEF PartsInv
    <2>4. \A q \in polled', o \in polled' :
            q # o /\ q.dataset = o.dataset => \A r \in q.rows : r \notin o.rows
        BY <1>1, <1>3, <1>4, <2>2 DEF PartsInv
    <2> QED BY <1>1, <2>3, <2>4 DEF PartsInv, OfBuild
<1>11. ASSUME NEW f \in loop.read
       PROVE  Accounted(Dataset, f)' \/ \E q \in loop.left : q # p /\ f \in q.rows
    BY <1>1, <1>3, <1>4, <1>6, <1>8 DEF ReadIsAccounted
<1>12. ReadIsAccounted'
    <2> SUFFICES ASSUME ~last, NEW f \in loop.read
                 PROVE  Accounted(Dataset, f)' \/ \E q \in remaining : f \in q.rows
        BY <1>7, <1>8 DEF ReadIsAccounted
    <2> QED BY <1>11
<1>13. NamesInv'
    BY <1>1, <1>3, <1>8 DEF NamesInv, NamesItsNewest
<1>14. VouchedInv'
    <2>1. ASSUME NEW w \in vouched'
          PROVE  Accounted(w[1], w[2])' \/ (passKills' > 0 /\ NamedAsBuilt(w[1], w[2])')
        <3>1. CASE w \in vouched
            BY <1>1, <1>3, <1>6, <3>1 DEF VouchedInv
        <3>2. CASE last /\ w \in {p.dataset} \X loop.read
            <4>1. PICK f \in loop.read : w[1] = Dataset /\ w[2] = f
                BY <1>4, <3>2
            <4>2. Accounted(Dataset, f)'
                BY <1>11, <3>2
            <4> QED BY <1>8, <4>1, <4>2
        <3> QED BY <1>2, <3>1, <3>2
    <2> QED BY <2>1 DEF VouchedInv
<1> QED BY <1>6, <1>7, <1>9, <1>10, <1>12, <1>13, <1>14 DEF PolledInv

LEMMA PolledSteps ==
    ASSUME PolledInv, [PolledNext]_polledVars
    PROVE  PolledInv'
BY RecorderOfPolls, LoopOfPolls, PartsArePlanned, APartIsStored DEF PolledNext

-----------------------------------------------------------------------------
(* The three of them, in whatever scene of the host.                       *)

AbsenceInv == RecorderInv /\ BackfillInv /\ PolledInv

LEMMA HostStarts == HostInit => AbsenceInv
BY RecorderStarts, BackfillStarts, PolledStarts DEF HostInit, AbsenceInv

LEMMA HostSteps ==
    ASSUME AbsenceInv, [HostNext]_hostVars
    PROVE  AbsenceInv'
<1>1. [RecorderNext]_recordingVars
    BY DEF HostNext, PlayDesk, PlayClaims, PlayShip, PlayFiles, PlayPosition, PlayDatasets, hostVars,
           fileVars
<1>2. [BackfillNext]_backfillVars
    BY DEF HostNext, PlayDesk, PlayClaims, PlayShip, PlayFiles, PlayPosition, PlayDatasets, hostVars,
           datasetVars
<1>3. [PolledNext]_polledVars
    BY DEF HostNext, PlayDesk, PlayClaims, PlayShip, PlayFiles, PlayPosition, PlayDatasets, hostVars,
           datasetVars
<1> QED BY <1>1, <1>2, <1>3, RecorderSteps, BackfillSteps, PolledSteps DEF AbsenceInv

(* What was not received or could not be kept is on record (recorder.py):  *)
(* silence has its row in the ledger, and the frames of an hour that could *)
(* not be written are the ledger's total and the account still open.       *)
THEOREM AbsenceIsOnTheRecord == HostSpec => []AbsenceIsOnRecord
<1>1. HostInit => AbsenceInv
    BY HostStarts
<1>2. AbsenceInv /\ [HostNext]_hostVars => AbsenceInv'
    BY HostSteps
<1>3. AbsenceInv => AbsenceIsOnRecord
    BY DEF AbsenceInv, RecorderInv, AbsenceIsOnRecord
<1> QED BY <1>1, <1>2, <1>3, PTL DEF HostSpec

(* What is built from polls (build_polled.py) leaves a row of a closed hour*)
(* out only behind a newer row of its venue, or, where a build has died, by*)
(* the name of a part; and what is fetched (bar_backfill.py,               *)
(* funding_backfill.py) has no hole.                                       *)
THEOREM DatasetsAreKeptWhole == HostSpec => []DatasetsAreWhole
<1>1. HostInit => AbsenceInv
    BY HostStarts
<1>2. AbsenceInv /\ [HostNext]_hostVars => AbsenceInv'
    BY HostSteps
<1>3. AbsenceInv => DatasetsAreWhole
    BY KeptFollows DEF AbsenceInv, BackfillInv, DatasetsAreWhole
<1> QED BY <1>1, <1>2, <1>3, PTL DEF HostSpec

=============================================================================
