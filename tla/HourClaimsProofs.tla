-------------------------- MODULE HourClaimsProofs --------------------------
(***************************************************************************)
(* Why a claimed hour has one writer, for any number of recorders, passes  *)
(* and streams.  The argument has three layers.                            *)
(*   Ownership: a marker beside a pair that is not excused is the marker of*)
(*   the recorder that has the pair open, and a live marker has a recorder *)
(*   behind it.                                                            *)
(*   RepairsSafe: a damaged pair has no writer, so a pass that found one   *)
(*   damaged when it asked finds nobody there when it replaces it.         *)
(*   MirrorSafe: an ordinary pair is copied when it is finished, deleted   *)
(*   when it is copied, and never mistaken for a damaged one in between.   *)
(* Each layer is kept by every step (one lemma per action and layer) and   *)
(* they meet in ArchiveInv, which is inductive.  The order of the pools    *)
(* plays no part in it.                                                    *)
(* The last section is about one hour in the scenes of MCProgress, where   *)
(* the theorems of RawHourProofs are used for the hour under kills alone.  *)
(***************************************************************************)
EXTENDS MCProgress, FiniteSetTheorems, TLAPS

(* Types, without the order of the pools, which no argument here needs.    *)
ClaimsTyped ==
    /\ clock \in {"hour", "over", "old"}
    /\ marker \in [Streams -> Marker \union {Nobody}]
    /\ disk \in [Streams -> Pair]
    /\ up \subseteq Recorders
    /\ open \in [Recorders -> SUBSET Streams]
    /\ marked \in [Recorders -> SUBSET Streams]
    /\ claim \in [Recorders -> Claim \union {Nobody}]
    /\ pass \in [Passes -> Visit \union {Nobody}]
    /\ beneath \subseteq Recorders \X Streams
    /\ repairs \in [Streams -> 0 .. 2]

(* r is opening s, and has come to the step.                               *)
Opening(r, s, step) == claim[r] # Nobody /\ claim[r].stream = s /\ claim[r].step = step

Dead(m) == m # Nobody => m.named /\ ~m.alive

RecordersSane ==
    \A r \in Recorders :
        /\ r \notin up => open[r] = {} /\ marked[r] = {} /\ claim[r] = Nobody
        /\ clock = "old" => claim[r] = Nobody
        /\ \A s \in marked[r] : s \in open[r] \/ Opening(r, s, "read")
        /\ claim[r] # Nobody => claim[r].stream \notin open[r] /\ Dead(claim[r].seen)

PassesSane == \A q \in Passes : pass[q] # Nobody => Dead(pass[q].seen)

Owned(r, s) ==
    /\ s \in marked[r] => marker[s] = SignedBy(r)
    /\ Opening(r, s, "name") => marker[s] = Blank(r)
    /\ Opening(r, s, "read") \/ s \in open[r] => s \in marked[r]

MarkersOwned == \A r \in Recorders, s \in Streams : s \in excused \/ Owned(r, s)

Holds(r, s) ==
    \/ Opening(r, s, "name")
    \/ s \in marked[r] /\ (s \in open[r] \/ Opening(r, s, "read"))

HeldMarker(s) == marker[s] # Nobody /\ marker[s].alive => Holds(marker[s].owner, s)

LiveMarkersHeld == \A s \in Streams : HeldMarker(s)

-----------------------------------------------------------------------------
(* What a step does to the claim of a recorder, to its pool and to markers.*)

OthersClaim(r) ==
    /\ claim' \in [Recorders -> Claim \union {Nobody}]
    /\ \A x \in Recorders \ {r} : claim'[x] = claim[x]

ClaimGoes(r, s, step, seen) ==
    /\ OthersClaim(r) /\ claim'[r] # Nobody
    /\ claim'[r].stream = s /\ claim'[r].step = step /\ claim'[r].seen = seen

ClaimEnds(r) == OthersClaim(r) /\ claim'[r] = Nobody

MarkerBecomes(s, m) ==
    /\ marker' \in [Streams -> Marker \union {Nobody}]
    /\ marker'[s] = m /\ \A t \in Streams \ {s} : marker'[t] = marker[t]

LEMMA MarkersDiffer ==
    ASSUME NEW r \in Recorders
    PROVE  /\ Blank(r) \in Marker /\ SignedBy(r) \in Marker
           /\ Blank(r) # Nobody /\ SignedBy(r) # Nobody
           /\ Blank(r).owner = r /\ Blank(r).alive = TRUE /\ Blank(r).named = FALSE
           /\ SignedBy(r).owner = r /\ SignedBy(r).alive = TRUE /\ SignedBy(r).named = TRUE
<1>1. Blank(r) \in Marker /\ SignedBy(r) \in Marker
    BY DEF Blank, SignedBy, Marker
<1>2. Blank(r).owner = r /\ SignedBy(r).owner = r
    BY DEF Blank, SignedBy
<1>3. Blank(r).named = FALSE /\ Blank(r).alive = TRUE
    BY DEF Blank
<1>4. SignedBy(r).named = TRUE /\ SignedBy(r).alive = TRUE
    BY DEF SignedBy
<1> QED BY <1>1, <1>2, <1>3, <1>4, NobodyAssumption

LEMMA ClaimType ==
    ASSUME ClaimsTyped, NEW r \in Recorders, claim[r] # Nobody
    PROVE  /\ claim[r] \in Claim /\ claim[r].stream \in Streams
           /\ claim[r].step \in ClaimSteps /\ claim[r].seen \in Marker \union {Nobody}
BY DEF ClaimsTyped, Claim

LEMMA ClaimSet ==
    ASSUME ClaimsTyped, NEW r \in Recorders, NEW c \in Claim, claim' = [claim EXCEPT ![r] = c]
    PROVE  ClaimGoes(r, c.stream, c.step, c.seen)
BY NobodyAssumption DEF ClaimsTyped, ClaimGoes, OthersClaim

LEMMA ClaimStep ==
    ASSUME ClaimsTyped, NEW r \in Recorders, NEW step \in ClaimSteps, claim[r] # Nobody,
           Step(r, step)
    PROVE  ClaimGoes(r, claim[r].stream, step, claim[r].seen)
<1> DEFINE c == [claim[r] EXCEPT !.step = step]
<1>1. c \in Claim /\ c.stream = claim[r].stream /\ c.step = step /\ c.seen = claim[r].seen
    BY ClaimType DEF Claim
<1>2. claim' = [claim EXCEPT ![r] = c]
    BY DEF ClaimsTyped, Step
<1> HIDE DEF c
<1>3. ClaimGoes(r, c.stream, c.step, c.seen)
    BY <1>1, <1>2, ClaimSet
<1> QED BY <1>1, <1>3

LEMMA ClaimSeen ==
    ASSUME ClaimsTyped, NEW r \in Recorders, NEW step \in ClaimSteps, claim[r] # Nobody,
           NEW seen \in Marker \union {Nobody},
           claim' = [claim EXCEPT ![r].step = step, ![r].seen = seen]
    PROVE  ClaimGoes(r, claim[r].stream, step, seen)
<1> DEFINE c == [claim[r] EXCEPT !.step = step, !.seen = seen]
<1>1. c \in Claim /\ c.stream = claim[r].stream /\ c.step = step /\ c.seen = seen
    BY ClaimType DEF Claim
<1>2. claim' = [claim EXCEPT ![r] = c]
    BY DEF ClaimsTyped
<1> HIDE DEF c
<1>3. ClaimGoes(r, c.stream, c.step, c.seen)
    BY <1>1, <1>2, ClaimSet
<1> QED BY <1>1, <1>3

LEMMA ClaimDropped ==
    ASSUME ClaimsTyped, NEW r \in Recorders, claim' = [claim EXCEPT ![r] = Nobody]
    PROVE  ClaimEnds(r)
BY DEF ClaimsTyped, ClaimEnds, OthersClaim

LEMMA MarkerSet ==
    ASSUME ClaimsTyped, NEW s \in Streams, NEW m \in Marker \union {Nobody},
           marker' = [marker EXCEPT ![s] = m]
    PROVE  MarkerBecomes(s, m)
BY DEF ClaimsTyped, MarkerBecomes

LEMMA ClosedEffect ==
    ASSUME ClaimsTyped, NEW r \in Recorders, NEW gone \in SUBSET Streams, Closed(r, gone)
    PROVE  /\ open' \in [Recorders -> SUBSET Streams]
           /\ marked' \in [Recorders -> SUBSET Streams]
           /\ marker' \in [Streams -> Marker \union {Nobody}]
           /\ open'[r] = open[r] \ gone /\ marked'[r] = marked[r] \ gone
           /\ \A x \in Recorders \ {r} : open'[x] = open[x] /\ marked'[x] = marked[x]
           /\ \A s \in gone \cap marked[r] : marker'[s] = Nobody
           /\ \A s \in Streams \ (gone \cap marked[r]) : marker'[s] = marker[s]
BY DEF ClaimsTyped, Closed

-----------------------------------------------------------------------------
(* Who owns the markers.                                                   *)

Ownership == RecordersSane /\ PassesSane /\ MarkersOwned /\ LiveMarkersHeld

LEMMA OwnedStays ==
    ASSUME NEW r \in Recorders, NEW s \in Streams, Owned(r, s),
           claim'[r] = claim[r], open'[r] = open[r], marked'[r] = marked[r],
           marker'[s] = marker[s] \/ marker[s] \notin {Blank(r), SignedBy(r)}
    PROVE  Owned(r, s)'
BY DEF Owned, Opening

LEMMA HeldStays ==
    ASSUME ClaimsTyped, NEW s \in Streams, HeldMarker(s), marker'[s] = marker[s],
           \A r \in Recorders : marker[s] # Nobody /\ marker[s].owner = r =>
               claim'[r] = claim[r] /\ open'[r] = open[r] /\ marked'[r] = marked[r]
    PROVE  HeldMarker(s)'
<1> SUFFICES ASSUME marker[s] # Nobody, marker[s].alive PROVE Holds(marker[s].owner, s)'
    BY DEF HeldMarker
<1>1. marker[s] \in Marker /\ marker[s].owner \in Recorders
    BY DEF ClaimsTyped, Marker
<1>2. Holds(marker[s].owner, s)
    BY DEF HeldMarker
<1> QED BY <1>1, <1>2 DEF Holds, Opening

(* Hours that r has open are closed: every writer of its own but these.    *)
LEMMA ClosedOwnership ==
    ASSUME ClaimsTyped, Ownership, NEW r \in Recorders, NEW gone \in SUBSET open[r],
           claim[r] = Nobody, Closed(r, gone), UNCHANGED excused,
           OthersClaim(r), claim'[r] = Nobody \/ claim'[r].step = "create"
    PROVE  MarkersOwned' /\ LiveMarkersHeld'
<1>0. gone \in SUBSET Streams
    BY DEF ClaimsTyped
<1>1. ASSUME NEW x \in Recorders, NEW s \in Streams \ excused
      PROVE  Owned(x, s)'
    <2>1. Owned(x, s) /\ Owned(r, s)
        BY <1>1 DEF Ownership, MarkersOwned
    <2>2. CASE x = r
        <3>1. ~Opening(r, s, "name")' /\ ~Opening(r, s, "read")'
            BY <2>2 DEF Opening
        <3>2. s \in open'[r] => s \in marked'[r]
            BY <1>0, <2>1, ClosedEffect DEF Owned
        <3>3. s \in marked'[r] => marker'[s] = SignedBy(r)
            BY <1>0, <2>1, ClosedEffect DEF Owned
        <3> QED BY <2>2, <3>1, <3>2, <3>3 DEF Owned
    <2>3. CASE x # r
        <3>1. marker'[s] = marker[s] \/ s \in marked[r]
            <4>1. CASE s \in marked[r]
                BY <4>1
            <4>2. CASE s \notin marked[r]
                BY <1>0, <4>2, ClosedEffect
            <4> QED BY <4>1, <4>2
        <3>2. s \in marked[r] => marker[s] \notin {Blank(x), SignedBy(x)}
            <4>1. SignedBy(r).owner # Blank(x).owner /\ SignedBy(r).owner # SignedBy(x).owner
                BY <2>3 DEF Blank, SignedBy
            <4> QED BY <2>1, <4>1 DEF Owned
        <3>3. claim'[x] = claim[x] /\ open'[x] = open[x] /\ marked'[x] = marked[x]
            BY <1>0, <2>3, ClosedEffect DEF OthersClaim
        <3> QED BY <2>1, <3>1, <3>2, <3>3, OwnedStays
    <2> QED BY <2>2, <2>3
<1>2. ASSUME NEW s \in Streams
      PROVE  HeldMarker(s)'
    <2> SUFFICES ASSUME marker'[s] # Nobody, marker'[s].alive PROVE HeldMarker(s)'
        BY DEF HeldMarker
    <2>1. HeldMarker(s) /\ marker'[s] = marker[s] /\ s \notin gone \cap marked[r]
        BY <1>0, ClosedEffect DEF Ownership, LiveMarkersHeld
    <2>2. CASE marker[s].owner = r
        <3>1. s \in marked[r] /\ s \in open[r]
            BY <2>1, <2>2 DEF HeldMarker, Holds, Opening
        <3>2. s \in marked'[r] /\ s \in open'[r]
            BY <1>0, <2>1, <3>1, ClosedEffect
        <3> QED BY <2>1, <2>2, <3>2 DEF HeldMarker, Holds
    <2>3. CASE marker[s].owner # r
        BY <1>0, <2>1, <2>3, ClosedEffect, HeldStays DEF OthersClaim
    <2> QED BY <2>2, <2>3
<1> QED BY <1>1, <1>2 DEF MarkersOwned, LiveMarkersHeld

LEMMA StartClaimOwnership ==
    ASSUME ClaimsTyped, Ownership, NEW r \in Recorders, NEW s \in Streams, StartClaim(r, s)
    PROVE  ClaimsTyped' /\ Ownership'
<1> DEFINE c == [stream |-> s, step |-> "create", seen |-> Nobody]
           gone == Evicted(r, s) \cap open[r]
<1>1. /\ r \in up /\ claim[r] = Nobody /\ clock = "hour" /\ s \notin open[r]
      /\ Closed(r, gone) /\ claim' = [claim EXCEPT ![r] = c]
      /\ UNCHANGED <<clock, disk, up, pass, beneath, repairs, excused>>
    BY DEF StartClaim, repairVars
<1>2. c \in Claim /\ c.stream = s /\ c.step = "create" /\ c.seen = Nobody
    BY DEF Claim, ClaimSteps
<1> HIDE DEF c
<1>3. ClaimGoes(r, s, "create", Nobody)
    BY <1>1, <1>2, ClaimSet
<1>4. gone \in SUBSET open[r] /\ gone \in SUBSET Streams
    BY DEF ClaimsTyped
<1> HIDE DEF gone
<1>5. ClaimsTyped'
    BY <1>1, <1>3, <1>4, ClosedEffect DEF ClaimsTyped, ClaimGoes, OthersClaim
<1>6. RecordersSane'
    BY <1>1, <1>3, <1>4, ClosedEffect
       DEF Ownership, RecordersSane, Opening, ClaimGoes, OthersClaim, Dead
<1>7. PassesSane'
    BY <1>1 DEF Ownership, PassesSane, Dead
<1>8. MarkersOwned' /\ LiveMarkersHeld'
    BY <1>1, <1>3, <1>4, ClosedOwnership DEF ClaimGoes
<1> QED BY <1>5, <1>6, <1>7, <1>8 DEF Ownership

LEMMA SettleOwnership ==
    ASSUME ClaimsTyped, Ownership, NEW r \in Recorders, NEW s \in Streams, Settle(r, s)
    PROVE  ClaimsTyped' /\ Ownership'
<1>1. /\ r \in up /\ claim[r] = Nobody /\ Closed(r, {s}) /\ claim' = claim
      /\ UNCHANGED <<clock, disk, up, pass, beneath, repairs, excused>>
    BY DEF Settle, repairVars
<1>2. OthersClaim(r) /\ claim'[r] = Nobody
    BY <1>1 DEF OthersClaim, ClaimsTyped
<1>3. {s} \in SUBSET open[r] /\ {s} \in SUBSET Streams
    BY DEF Settle
<1>4. ClaimsTyped'
    BY <1>1, <1>3, ClosedEffect DEF ClaimsTyped
<1>5. RecordersSane'
    BY <1>1, <1>3, ClosedEffect DEF Ownership, RecordersSane, Opening, Dead
<1>6. PassesSane'
    BY <1>1 DEF Ownership, PassesSane, Dead
<1>7. MarkersOwned' /\ LiveMarkersHeld'
    BY <1>1, <1>2, <1>3, ClosedOwnership
<1> QED BY <1>4, <1>5, <1>6, <1>7 DEF Ownership

LEMMA StopOwnership ==
    ASSUME ClaimsTyped, Ownership, NEW r \in Recorders, StopRecorder(r)
    PROVE  ClaimsTyped' /\ Ownership'
<1>1. /\ r \in up /\ claim[r] = Nobody /\ Closed(r, open[r]) /\ up' = up \ {r}
      /\ claim' = [claim EXCEPT ![r] = Nobody]
      /\ UNCHANGED <<clock, disk, pass, beneath, repairs, excused>>
    BY DEF StopRecorder, Emptied, repairVars
<1>2. OthersClaim(r) /\ claim'[r] = Nobody
    BY <1>1, ClaimDropped DEF ClaimEnds
<1>3. open[r] \in SUBSET open[r] /\ open[r] \in SUBSET Streams
    BY DEF ClaimsTyped
<1>4. ClaimsTyped'
    BY <1>1, <1>2, <1>3, ClosedEffect DEF ClaimsTyped, OthersClaim
<1>5. marked[r] \subseteq open[r]
    BY <1>1 DEF Ownership, RecordersSane, Opening
<1>6. RecordersSane'
    BY <1>1, <1>2, <1>3, <1>5, ClosedEffect
       DEF Ownership, RecordersSane, Opening, Dead, OthersClaim
<1>7. PassesSane'
    BY <1>1 DEF Ownership, PassesSane, Dead
<1>8. MarkersOwned' /\ LiveMarkersHeld'
    BY <1>1, <1>2, <1>3, ClosedOwnership
<1> QED BY <1>4, <1>6, <1>7, <1>8 DEF Ownership

(* A step of r on the hour it opens, s: only the marker of s may change.   *)
LEMMA OwnStep ==
    ASSUME ClaimsTyped, Ownership, NEW r \in Recorders, claim[r] # Nobody,
           OthersClaim(r), UNCHANGED <<up, clock, pass>>,
           NEW s \in Streams, s = claim[r].stream,
           claim'[r] # Nobody => claim'[r].stream = s /\ Dead(claim'[r].seen),
           open' \in [Recorders -> SUBSET Streams], marked' \in [Recorders -> SUBSET Streams],
           \A x \in Recorders \ {r} : open'[x] = open[x] /\ marked'[x] = marked[x],
           open'[r] \ {s} = open[r] \ {s}, marked'[r] \ {s} = marked[r] \ {s},
           marker' \in [Streams -> Marker \union {Nobody}],
           \A t \in Streams \ {s} : marker'[t] = marker[t],
           excused \subseteq excused',
           s \in excused' \/ (Owned(r, s)' /\ \A x \in Recorders \ {r} : Owned(x, s)'),
           HeldMarker(s)',
           r \in up /\ (s \in open'[r] => claim'[r] = Nobody),
           s \in marked'[r] => s \in open'[r] \/ Opening(r, s, "read")'
    PROVE  Ownership'
<1>1. RecordersSane'
    BY DEF Ownership, RecordersSane, Opening, OthersClaim, Dead
<1>2. PassesSane'
    BY DEF Ownership, PassesSane, Dead
<1>3. ASSUME NEW x \in Recorders, NEW t \in Streams, t \notin excused'
      PROVE  Owned(x, t)'
    <2>1. CASE t = s
        BY <1>3, <2>1
    <2>2. CASE t # s /\ x # r
        <3>1. Owned(x, t)
            BY <1>3 DEF Ownership, MarkersOwned
        <3> QED BY <2>2, <3>1, OwnedStays DEF OthersClaim
    <2>3. CASE t # s /\ x = r
        <3>1. Owned(r, t) /\ marker'[t] = marker[t]
            BY <1>3, <2>3 DEF Ownership, MarkersOwned
        <3>2. ~Opening(r, t, "name")' /\ ~Opening(r, t, "read")'
            BY <2>3 DEF Opening
        <3>3. (t \in marked'[r] <=> t \in marked[r]) /\ (t \in open'[r] <=> t \in open[r])
            BY <2>3
        <3> QED BY <2>3, <3>1, <3>2, <3>3 DEF Owned
    <2> QED BY <2>1, <2>2, <2>3
<1>4. ASSUME NEW t \in Streams
      PROVE  HeldMarker(t)'
    <2>1. CASE t = s
        BY <2>1
    <2>2. CASE t # s
        <3> SUFFICES ASSUME marker'[t] # Nobody, marker'[t].alive PROVE Holds(marker[t].owner, t)'
            BY <2>2 DEF HeldMarker
        <3>0. marker'[t] = marker[t] /\ marker[t] # Nobody /\ marker[t].alive
            BY <2>2
        <3>1. Holds(marker[t].owner, t) /\ marker[t].owner \in Recorders
            <4>1. HeldMarker(t) /\ marker[t] \in Marker
                BY <3>0 DEF Ownership, LiveMarkersHeld, ClaimsTyped
            <4> QED BY <3>0, <4>1 DEF HeldMarker, Marker
        <3>2. CASE marker[t].owner # r
            BY <3>0, <3>1, <3>2 DEF Holds, Opening, OthersClaim
        <3>3. CASE marker[t].owner = r
            <4>1. t \in marked[r] /\ t \in open[r]
                BY <2>2, <3>1, <3>3 DEF Holds, Opening
            <4> QED BY <2>2, <3>0, <3>3, <4>1 DEF Holds
        <3> QED BY <3>2, <3>3
    <2> QED BY <2>1, <2>2
<1> QED BY <1>1, <1>2, <1>3, <1>4 DEF Ownership, MarkersOwned, LiveMarkersHeld

LEMMA CreateOwnership ==
    ASSUME ClaimsTyped, Ownership, NEW r \in Recorders, CreateMarker(r),
           NEW s \in Streams, s = claim[r].stream
    PROVE  ClaimsTyped' /\ Ownership'
<1>0. PICK step \in {"create", "create again"}, next \in {"judge", Nobody} : Create(r, step, next)
    BY DEF CreateMarker
<1>1. /\ At(r, step) /\ r \in up /\ claim[r] # Nobody
      /\ UNCHANGED <<clock, disk, up, open, marked, pass, beneath, repairs, excused>>
    BY <1>0 DEF CreateMarker, Create, At, repairVars
<1>2. s \in Streams /\ claim[r].step = step /\ Dead(claim[r].seen) /\ s \notin open[r]
    BY <1>1, ClaimType DEF At, Ownership, RecordersSane
<1>3. s \notin marked[r]
    BY <1>1, <1>2 DEF Ownership, RecordersSane, Opening
<1>4. CASE marker[s] = Nobody /\ MarkerBecomes(s, Blank(r)) /\ ClaimGoes(r, s, "name", claim[r].seen)
    <2>1. ClaimsTyped'
        BY <1>1, <1>4 DEF ClaimsTyped, MarkerBecomes, ClaimGoes, OthersClaim
    <2>2. Owned(r, s)'
        BY <1>1, <1>2, <1>3, <1>4 DEF Owned, Opening, MarkerBecomes, ClaimGoes
    <2>3. ASSUME NEW x \in Recorders \ {r}, s \notin excused' PROVE Owned(x, s)'
        <3>1. Owned(x, s)
            BY <1>1, <1>2, <2>3 DEF Ownership, MarkersOwned
        <3> QED BY <1>1, <1>2, <1>4, <3>1, MarkersDiffer, OwnedStays DEF ClaimGoes, OthersClaim
    <2>4. HeldMarker(s)'
        BY <1>4, MarkersDiffer, ZenonT(60) DEF HeldMarker, Holds, Opening, MarkerBecomes, ClaimGoes
    <2>5. Ownership'
        BY <1>1, <1>2, <1>3, <1>4, <2>2, <2>3, <2>4, OwnStep
           DEF ClaimGoes, MarkerBecomes, ClaimsTyped
    <2> QED BY <2>1, <2>5
<1>5. CASE marker' = marker /\ (ClaimGoes(r, s, "judge", claim[r].seen) \/ ClaimEnds(r))
    <2>1. ClaimsTyped'
        BY <1>1, <1>5 DEF ClaimsTyped, ClaimGoes, ClaimEnds, OthersClaim
    <2>2. Owned(r, s)'
        BY <1>1, <1>2, <1>3, <1>5 DEF Owned, Opening, ClaimGoes, ClaimEnds
    <2>3. ASSUME NEW x \in Recorders \ {r}, s \notin excused' PROVE Owned(x, s)'
        <3>1. Owned(x, s)
            BY <1>1, <1>2, <2>3 DEF Ownership, MarkersOwned
        <3> QED BY <1>1, <1>2, <1>5, <3>1, OwnedStays DEF ClaimGoes, ClaimEnds, OthersClaim
    <2>4. HeldMarker(s)'
        <3>1. HeldMarker(s)
            BY <1>2 DEF Ownership, LiveMarkersHeld
        <3>2. ~(marker[s] # Nobody /\ marker[s].alive /\ marker[s].owner = r)
            BY <1>2, <1>3, <3>1 DEF HeldMarker, Holds, Opening
        <3>3. CASE marker[s] = Nobody \/ ~marker[s].alive
            BY <1>5, <3>3 DEF HeldMarker
        <3>4. CASE marker[s] # Nobody /\ marker[s].owner # r
            BY <1>1, <1>2, <1>5, <3>1, <3>4, HeldStays DEF ClaimGoes, ClaimEnds, OthersClaim
        <3> QED BY <3>2, <3>3, <3>4
    <2>5. Ownership'
        BY <1>1, <1>2, <1>3, <1>5, <2>2, <2>3, <2>4, OwnStep
           DEF ClaimGoes, ClaimEnds, ClaimsTyped
    <2> QED BY <2>1, <2>5
<1>6. \/ marker[s] = Nobody /\ MarkerBecomes(s, Blank(r)) /\ ClaimGoes(r, s, "name", claim[r].seen)
      \/ marker' = marker /\ (ClaimGoes(r, s, "judge", claim[r].seen) \/ ClaimEnds(r))
    <2>1. {"name", "judge"} \subseteq ClaimSteps
        BY DEF ClaimSteps
    <2>2. CASE marker[s] = Nobody /\ marker' = [marker EXCEPT ![s] = Blank(r)] /\ Step(r, "name")
        BY <1>1, <1>2, <2>1, <2>2, MarkersDiffer, MarkerSet, ClaimStep
    <2>3. CASE marker' = marker /\ Step(r, "judge")
        BY <1>1, <1>2, <2>1, <2>3, ClaimStep
    <2>4. CASE marker' = marker /\ claim' = [claim EXCEPT ![r] = Nobody]
        BY <2>4, ClaimDropped
    <2> QED BY <1>0, <2>2, <2>3, <2>4 DEF Create, GiveUp
<1> QED BY <1>4, <1>5, <1>6

(* The pair is opened without a marker: it is excused from here on.        *)
LEMMA MarkerFailsOwnership ==
    ASSUME ClaimsTyped, Ownership, NEW r \in Recorders, MarkerFails(r),
           NEW s \in Streams, s = claim[r].stream
    PROVE  ClaimsTyped' /\ Ownership'
<1>1. /\ r \in up /\ claim[r] # Nobody /\ Step(r, "read")
      /\ claim[r].step \in {"create", "create again", "name"}
      /\ excused' = excused \union {s}
      /\ IF claim[r].step = "name" THEN Unlink(s) ELSE marker[s] = Nobody /\ UNCHANGED marker
      /\ UNCHANGED <<clock, disk, up, open, marked, pass, beneath, repairs>>
    BY DEF MarkerFails, At, repairVars
<1>2. Dead(claim[r].seen) /\ s \notin open[r] /\ s \notin marked[r]
    BY <1>1 DEF Ownership, RecordersSane, Opening
<1>3. ClaimGoes(r, s, "read", claim[r].seen)
    BY <1>1, ClaimStep DEF ClaimSteps
<1>4. MarkerBecomes(s, Nobody)
    <2>1. CASE claim[r].step = "name"
        BY <1>1, <2>1, MarkerSet DEF Unlink
    <2>2. CASE claim[r].step # "name"
        BY <1>1, <2>2 DEF MarkerBecomes, ClaimsTyped
    <2> QED BY <2>1, <2>2
<1>5. ClaimsTyped'
    BY <1>1, <1>3, <1>4 DEF ClaimsTyped, ClaimGoes, OthersClaim, MarkerBecomes
<1>6. HeldMarker(s)'
    BY <1>4 DEF HeldMarker, MarkerBecomes
<1>7. Ownership'
    BY <1>1, <1>2, <1>3, <1>4, <1>6, OwnStep DEF ClaimGoes, MarkerBecomes, ClaimsTyped
<1> QED BY <1>5, <1>7

LEMMA JudgeOwnership ==
    ASSUME ClaimsTyped, Ownership, NEW r \in Recorders, Judge(r),
           NEW s \in Streams, s = claim[r].stream
    PROVE  ClaimsTyped' /\ Ownership'
<1>1. /\ r \in up /\ claim[r] # Nobody /\ claim[r].step = "judge"
      /\ UNCHANGED <<clock, marker, disk, up, open, marked, pass, beneath, repairs, excused>>
    BY DEF Judge, At, repairVars
<1>2. s \notin open[r] /\ s \notin marked[r]
    BY <1>1 DEF Ownership, RecordersSane, Opening
<1>3. marker[s] \in Marker \union {Nobody}
    BY DEF ClaimsTyped
<1>4. ClaimEnds(r) \/ (ClaimGoes(r, s, "unlink", marker[s]) /\ Dead(marker[s]))
    <2>1. CASE Live(marker[s])
        BY <2>1, ClaimDropped DEF Judge, GiveUp
    <2>2. CASE ~Live(marker[s])
        <3>1. claim' = [claim EXCEPT ![r].step = "unlink", ![r].seen = marker[s]]
            BY <2>2 DEF Judge
        <3>2. "unlink" \in ClaimSteps
            BY DEF ClaimSteps
        <3> QED BY <1>1, <1>3, <2>2, <3>1, <3>2, ClaimSeen DEF Live, Dead
    <2> QED BY <2>1, <2>2
<1>5. ClaimsTyped'
    BY <1>1, <1>4 DEF ClaimsTyped, ClaimGoes, ClaimEnds, OthersClaim
<1>6. Owned(r, s)'
    BY <1>1, <1>2, <1>4 DEF Owned, Opening, ClaimGoes, ClaimEnds
<1>7. ASSUME NEW x \in Recorders \ {r}, s \notin excused' PROVE Owned(x, s)'
    <2>1. Owned(x, s)
        BY <1>1, <1>7 DEF Ownership, MarkersOwned
    <2> QED BY <1>1, <1>4, <2>1, OwnedStays DEF ClaimGoes, ClaimEnds, OthersClaim
<1>8. HeldMarker(s)'
    <2>1. HeldMarker(s)
        BY DEF Ownership, LiveMarkersHeld
    <2>2. ~(marker[s] # Nobody /\ marker[s].alive /\ marker[s].owner = r)
        BY <1>1, <1>2, <2>1 DEF HeldMarker, Holds, Opening
    <2>3. CASE marker[s] = Nobody \/ ~marker[s].alive
        BY <1>1, <2>3 DEF HeldMarker
    <2>4. CASE marker[s] # Nobody /\ marker[s].owner # r
        BY <1>1, <1>4, <2>1, <2>4, HeldStays DEF ClaimGoes, ClaimEnds, OthersClaim
    <2> QED BY <2>2, <2>3, <2>4
<1>9. Ownership'
    BY <1>1, <1>2, <1>4, <1>6, <1>7, <1>8, OwnStep DEF ClaimGoes, ClaimEnds, ClaimsTyped
<1> QED BY <1>5, <1>9

(* What an unlink after a judgement may take: a marker of the dead, or else*)
(* the pair is excused.                                                    *)
LEMMA StaleRemoved ==
    ASSUME ClaimsTyped, NEW s \in Streams, NEW seen, Dead(seen), RemoveStale(s, seen)
    PROVE  /\ MarkerBecomes(s, Nobody) /\ excused \subseteq excused'
           /\ excused' \subseteq excused \union {s}
           /\ s \notin excused' => marker[s] = Nobody \/ ~marker[s].alive
<1>1. MarkerBecomes(s, Nobody)
    BY MarkerSet DEF RemoveStale, Unlink
<1> QED BY <1>1 DEF RemoveStale, Dead

LEMMA UnlinkOwnership ==
    ASSUME ClaimsTyped, Ownership, NEW r \in Recorders, UnlinkStale(r),
           NEW s \in Streams, s = claim[r].stream
    PROVE  ClaimsTyped' /\ Ownership'
<1>1. /\ r \in up /\ claim[r] # Nobody /\ claim[r].step = "unlink"
      /\ RemoveStale(s, claim[r].seen)
      /\ claim' = [claim EXCEPT ![r].step = "create again", ![r].seen = Nobody]
      /\ UNCHANGED <<clock, disk, up, open, marked, pass, beneath, repairs>>
    BY DEF UnlinkStale, At, repairVars
<1>2. Dead(claim[r].seen) /\ s \notin open[r] /\ s \notin marked[r]
    BY <1>1 DEF Ownership, RecordersSane, Opening
<1>3. ClaimGoes(r, s, "create again", Nobody)
    BY <1>1, ClaimSeen DEF ClaimSteps
<1>4. /\ MarkerBecomes(s, Nobody) /\ excused \subseteq excused'
      /\ s \notin excused' => marker[s] = Nobody \/ ~marker[s].alive
    BY <1>1, <1>2, StaleRemoved
<1>5. ClaimsTyped'
    BY <1>1, <1>3, <1>4 DEF ClaimsTyped, ClaimGoes, OthersClaim, MarkerBecomes
<1>6. Owned(r, s)'
    BY <1>1, <1>2, <1>3 DEF Owned, Opening, ClaimGoes
<1>7. ASSUME NEW x \in Recorders \ {r}, s \notin excused' PROVE Owned(x, s)'
    <2>1. Owned(x, s)
        BY <1>4, <1>7 DEF Ownership, MarkersOwned
    <2>2. marker[s] \notin {Blank(x), SignedBy(x)}
        BY <1>4, <1>7, MarkersDiffer
    <2> QED BY <1>1, <1>3, <2>1, <2>2, OwnedStays DEF ClaimGoes, OthersClaim
<1>8. HeldMarker(s)'
    BY <1>4 DEF HeldMarker, MarkerBecomes
<1>9. Ownership'
    BY <1>1, <1>2, <1>3, <1>4, <1>6, <1>7, <1>8, OwnStep
       DEF ClaimGoes, MarkerBecomes, ClaimsTyped, Dead
<1> QED BY <1>5, <1>9

LEMMA NameOwnership ==
    ASSUME ClaimsTyped, Ownership, NEW r \in Recorders, NameMarker(r),
           NEW s \in Streams, s = claim[r].stream
    PROVE  ClaimsTyped' /\ Ownership'
<1> DEFINE m == IF marker[s] = Blank(r) THEN SignedBy(r) ELSE marker[s]
<1>1. /\ r \in up /\ claim[r] # Nobody /\ claim[r].step = "name" /\ Step(r, "read")
      /\ marker' = [marker EXCEPT ![s] = m]
      /\ marked' = [marked EXCEPT ![r] = @ \union {s}]
      /\ UNCHANGED <<clock, disk, up, open, pass, beneath, repairs, excused>>
    BY DEF NameMarker, At, repairVars
<1>2. Dead(claim[r].seen) /\ s \notin open[r]
    BY <1>1 DEF Ownership, RecordersSane
<1>3. ClaimGoes(r, s, "read", claim[r].seen)
    BY <1>1, ClaimStep DEF ClaimSteps
<1>4. MarkerBecomes(s, m)
    <2>1. m \in Marker \union {Nobody}
        BY MarkersDiffer DEF ClaimsTyped
    <2> HIDE DEF m
    <2> QED BY <1>1, <2>1, MarkerSet
<1>5. /\ marked' \in [Recorders -> SUBSET Streams] /\ marked'[r] = marked[r] \union {s}
      /\ \A x \in Recorders \ {r} : marked'[x] = marked[x]
    BY <1>1 DEF ClaimsTyped
<1>6. ClaimsTyped'
    BY <1>1, <1>3, <1>4, <1>5 DEF ClaimsTyped, ClaimGoes, OthersClaim, MarkerBecomes
<1>7. marker'[s] = m
    BY <1>4 DEF MarkerBecomes
<1>8. s \notin excused => marker[s] = Blank(r) /\ marker'[s] = SignedBy(r)
    BY <1>1, <1>7 DEF Ownership, MarkersOwned, Owned, Opening
<1>9. s \notin excused => Owned(r, s)'
    BY <1>3, <1>5, <1>8 DEF Owned, Opening, ClaimGoes
<1>10. ASSUME NEW x \in Recorders \ {r}, s \notin excused' PROVE Owned(x, s)'
    <2>1. Owned(x, s) /\ marker[s] = Blank(r) /\ marker'[s] = SignedBy(r)
        BY <1>1, <1>8, <1>10 DEF Ownership, MarkersOwned
    <2>2. Blank(r).owner # Blank(x).owner /\ Blank(r).owner # SignedBy(x).owner
        BY DEF Blank, SignedBy
    <2>3. marker[s] \notin {Blank(x), SignedBy(x)}
        BY <2>1, <2>2
    <2> QED BY <1>1, <1>3, <1>5, <2>1, <2>3, OwnedStays DEF ClaimGoes, OthersClaim
<1>11. HeldMarker(s)'
    <2>1. HeldMarker(s)
        BY DEF Ownership, LiveMarkersHeld
    <2>2. Holds(r, s)'
        BY <1>3, <1>5 DEF Holds, Opening, ClaimGoes
    <2>3. CASE marker[s] = Blank(r)
        <3>1. marker'[s].owner = r
            BY <1>7, <2>3, MarkersDiffer
        <3> QED BY <2>2, <3>1 DEF HeldMarker
    <2>4. CASE marker[s] # Blank(r)
        <3>1. marker'[s] = marker[s]
            BY <1>7, <2>4
        <3>2. CASE marker[s] # Nobody /\ marker[s].owner = r
            BY <2>2, <3>1, <3>2 DEF HeldMarker
        <3>3. CASE ~(marker[s] # Nobody /\ marker[s].owner = r)
            BY <1>1, <1>3, <1>5, <2>1, <3>1, <3>3, HeldStays DEF ClaimGoes, OthersClaim
        <3> QED BY <3>2, <3>3
    <2> QED BY <2>3, <2>4
<1>12. \A t \in Streams \ {s} : marker'[t] = marker[t]
    BY <1>4 DEF MarkerBecomes
<1> HIDE DEF m
<1>13. Ownership'
    BY <1>1, <1>2, <1>3, <1>5, <1>6, <1>9, <1>10, <1>11, <1>12, OwnStep
       DEF ClaimGoes, Opening, ClaimsTyped
<1> QED BY <1>6, <1>13

LEMMA PairSet ==
    ASSUME ClaimsTyped, NEW s \in Streams, NEW p \in Pair, disk' = [disk EXCEPT ![s] = p]
    PROVE  /\ disk' \in [Streams -> Pair] /\ disk'[s] = p
           /\ \A t \in Streams \ {s} : disk'[t] = disk[t]
BY DEF ClaimsTyped

LEMMA LongerPair ==
    ASSUME NEW p \in Pair, p.frames < MaxPairFrames
    PROVE  /\ Longer(p) \in Pair /\ Longer(p).damaged = p.damaged /\ Longer(p) # NoPair
           /\ Longer(p).frames = p.frames + 1
BY ClaimsBoundsAssumption DEF Pair, Longer, NoPair

LEMMA OpenOwnership ==
    ASSUME ClaimsTyped, Ownership, NEW r \in Recorders, OpenPair(r),
           NEW s \in Streams, s = claim[r].stream
    PROVE  /\ ClaimsTyped' /\ Ownership'
           /\ clock # "old" /\ ~disk[s].damaged
           /\ open'[r] = open[r] \union {s}
           /\ \A x \in Recorders \ {r} : open'[x] = open[x]
           /\ disk'[s] = Longer(disk[s]) /\ \A t \in Streams \ {s} : disk'[t] = disk[t]
           /\ disk'[s] # NoPair /\ ~disk'[s].damaged
<1>1. /\ r \in up /\ claim[r] # Nobody /\ claim[r].step = "read"
      /\ claim' = [claim EXCEPT ![r] = Nobody]
      /\ ~disk[s].damaged /\ disk[s].frames < MaxPairFrames
      /\ open' = [open EXCEPT ![r] = @ \union {s}]
      /\ disk' = [disk EXCEPT ![s] = Longer(disk[s])]
      /\ beneath' = beneath \ {<<r, s>>}
      /\ UNCHANGED <<clock, marker, up, marked, pass, repairs, excused>>
    BY DEF OpenPair, At, repairVars, ClaimsTyped
<1>2. s \notin open[r] /\ clock # "old"
    BY <1>1 DEF Ownership, RecordersSane
<1>3. ClaimEnds(r)
    BY <1>1, ClaimDropped
<1>4. /\ open' \in [Recorders -> SUBSET Streams] /\ open'[r] = open[r] \union {s}
      /\ \A x \in Recorders \ {r} : open'[x] = open[x]
    BY <1>1 DEF ClaimsTyped
<1>5. disk[s] \in Pair
    BY DEF ClaimsTyped
<1>6. /\ disk' \in [Streams -> Pair] /\ disk'[s] = Longer(disk[s])
      /\ \A t \in Streams \ {s} : disk'[t] = disk[t]
    BY <1>1, <1>5, PairSet, LongerPair
<1>7. beneath' \subseteq Recorders \X Streams
    BY <1>1 DEF ClaimsTyped
<1>8. ClaimsTyped'
    BY <1>1, <1>3, <1>4, <1>6, <1>7 DEF ClaimsTyped, ClaimEnds, OthersClaim
<1>9. s \notin excused => Owned(r, s)'
    <2> SUFFICES ASSUME s \notin excused PROVE Owned(r, s)'
        OBVIOUS
    <2>1. Owned(r, s)
        BY DEF Ownership, MarkersOwned
    <2> QED BY <1>1, <1>3, <2>1 DEF Owned, Opening, ClaimEnds
<1>10. ASSUME NEW x \in Recorders \ {r}, s \notin excused' PROVE Owned(x, s)'
    <2>1. Owned(x, s)
        BY <1>1, <1>10 DEF Ownership, MarkersOwned
    <2> QED BY <1>1, <1>3, <1>4, <2>1, OwnedStays DEF ClaimEnds, OthersClaim
<1>11. HeldMarker(s)'
    <2>1. HeldMarker(s)
        BY DEF Ownership, LiveMarkersHeld
    <2>2. CASE marker[s] # Nobody /\ marker[s].alive /\ marker[s].owner = r
        <3>1. s \in marked[r]
            BY <1>1, <2>1, <2>2 DEF HeldMarker, Holds, Opening
        <3> QED BY <1>1, <1>4, <2>2, <3>1 DEF HeldMarker, Holds
    <2>3. CASE marker[s] # Nobody /\ marker[s].owner # r
        BY <1>1, <1>3, <1>4, <2>1, <2>3, HeldStays DEF ClaimEnds, OthersClaim
    <2>4. CASE marker[s] = Nobody \/ ~marker[s].alive
        BY <1>1, <2>4 DEF HeldMarker
    <2> QED BY <2>2, <2>3, <2>4
<1>12. Ownership'
    BY <1>1, <1>2, <1>3, <1>4, <1>9, <1>10, <1>11, OwnStep
       DEF ClaimEnds, ClaimsTyped
<1> QED BY <1>1, <1>2, <1>4, <1>5, <1>6, <1>8, <1>12, LongerPair

LEMMA RefuseOwnership ==
    ASSUME ClaimsTyped, Ownership, NEW r \in Recorders, RefusePair(r),
           NEW s \in Streams, s = claim[r].stream
    PROVE  ClaimsTyped' /\ Ownership'
<1>1. /\ r \in up /\ claim[r] # Nobody /\ claim[r].step = "read"
      /\ claim' = [claim EXCEPT ![r] = Nobody]
      /\ IF s \in marked[r] THEN Unlink(s) ELSE UNCHANGED marker
      /\ marked' = [marked EXCEPT ![r] = @ \ {s}]
      /\ UNCHANGED <<clock, disk, up, open, pass, beneath, repairs, excused>>
    BY DEF RefusePair, At, ReleaseClaim, GiveUp, repairVars
<1>2. s \notin open[r]
    BY <1>1 DEF Ownership, RecordersSane
<1>3. ClaimEnds(r)
    BY <1>1, ClaimDropped
<1>4. /\ marked' \in [Recorders -> SUBSET Streams] /\ marked'[r] = marked[r] \ {s}
      /\ \A x \in Recorders \ {r} : marked'[x] = marked[x]
    BY <1>1 DEF ClaimsTyped
<1>5. /\ marker' \in [Streams -> Marker \union {Nobody}]
      /\ \A t \in Streams \ {s} : marker'[t] = marker[t]
      /\ s \in marked[r] => marker'[s] = Nobody
      /\ s \notin marked[r] => marker'[s] = marker[s]
    BY <1>1, MarkerSet DEF MarkerBecomes, ClaimsTyped, Unlink
<1>6. ClaimsTyped'
    BY <1>1, <1>3, <1>4, <1>5 DEF ClaimsTyped, ClaimEnds, OthersClaim
<1>7. Owned(r, s)'
    BY <1>1, <1>2, <1>3, <1>4 DEF Owned, Opening, ClaimEnds
<1>8. ASSUME NEW x \in Recorders \ {r}, s \notin excused' PROVE Owned(x, s)'
    <2>1. Owned(x, s) /\ Owned(r, s)
        BY <1>1, <1>8 DEF Ownership, MarkersOwned
    <2>2. SignedBy(r).owner # Blank(x).owner /\ SignedBy(r).owner # SignedBy(x).owner
        BY DEF Blank, SignedBy
    <2>3. s \in marked[r] => marker[s] \notin {Blank(x), SignedBy(x)}
        BY <2>1, <2>2 DEF Owned
    <2> QED BY <1>1, <1>3, <1>4, <1>5, <2>1, <2>3, OwnedStays DEF ClaimEnds, OthersClaim
<1>9. HeldMarker(s)'
    <2>1. HeldMarker(s)
        BY DEF Ownership, LiveMarkersHeld
    <2>2. CASE s \in marked[r]
        BY <1>5, <2>2 DEF HeldMarker
    <2>3. CASE s \notin marked[r]
        <3>1. ~(marker[s] # Nobody /\ marker[s].alive /\ marker[s].owner = r)
            BY <1>1, <2>1, <2>3 DEF HeldMarker, Holds, Opening
        <3>2. CASE marker[s] = Nobody \/ ~marker[s].alive
            BY <1>5, <2>3, <3>2 DEF HeldMarker
        <3>3. CASE marker[s] # Nobody /\ marker[s].owner # r
            BY <1>1, <1>3, <1>4, <1>5, <2>1, <2>3, <3>3, HeldStays DEF ClaimEnds, OthersClaim
        <3> QED BY <3>1, <3>2, <3>3
    <2> QED BY <2>2, <2>3
<1>10. Ownership'
    BY <1>1, <1>2, <1>3, <1>4, <1>5, <1>7, <1>8, <1>9, OwnStep
       DEF ClaimEnds, ClaimsTyped
<1> QED BY <1>6, <1>10

-----------------------------------------------------------------------------
(* Deaths, starts and the clock.                                           *)

LEMMA OrphanedMarker ==
    ASSUME NEW m \in Marker \union {Nobody}, NEW r \in Recorders
    PROVE  /\ Orphaned(m, r) \in Marker \union {Nobody}
           /\ m = Nobody \/ m.owner # r => Orphaned(m, r) = m
           /\ m # Nobody /\ m.owner = r => Orphaned(m, r) # Nobody /\ ~Orphaned(m, r).alive
<1>1. CASE m # Nobody /\ m.owner = r
    <2>1. m \in Marker /\ Orphaned(m, r) = [m EXCEPT !.alive = FALSE]
        BY <1>1 DEF Orphaned
    <2>2. Orphaned(m, r) \in Marker /\ ~Orphaned(m, r).alive
        BY <2>1 DEF Marker
    <2> QED BY <1>1, <2>2, NobodyAssumption
<1>2. CASE ~(m # Nobody /\ m.owner = r)
    BY <1>2 DEF Orphaned
<1> QED BY <1>1, <1>2

LEMMA KillOwnership ==
    ASSUME ClaimsTyped, Ownership, NEW r \in Recorders, KillRecorder(r)
    PROVE  /\ ClaimsTyped' /\ Ownership'
           /\ \A s \in Streams \ open[r] : disk'[s] = disk[s]
           /\ \A s \in Streams : disk'[s].frames = disk[s].frames
                                 /\ (disk[s].damaged => disk'[s].damaged)
<1>1. /\ up' = up \ {r}
      /\ marker' = [s \in Streams |-> Orphaned(marker[s], r)]
      /\ open' = [open EXCEPT ![r] = {}] /\ marked' = [marked EXCEPT ![r] = {}]
      /\ claim' = [claim EXCEPT ![r] = Nobody]
      /\ UNCHANGED <<clock, pass, beneath, repairs, excused>>
    BY DEF KillRecorder, Emptied, repairVars
<1>2. PICK torn \in SUBSET {s \in open[r] : disk[s] # NoPair} :
        disk' = [s \in Streams |->
                    IF s \in torn THEN [disk[s] EXCEPT !.damaged = TRUE] ELSE disk[s]]
    BY DEF KillRecorder
<1>3. ClaimEnds(r)
    BY <1>1, ClaimDropped
<1>4. ASSUME NEW s \in Streams
      PROVE  /\ disk'[s] \in Pair /\ disk'[s].frames = disk[s].frames
             /\ disk[s].damaged => disk'[s].damaged
             /\ s \notin open[r] => disk'[s] = disk[s]
    <2>1. disk[s] \in Pair
        BY DEF ClaimsTyped
    <2>2. [disk[s] EXCEPT !.damaged = TRUE] \in Pair
        BY <2>1 DEF Pair
    <2>3. [disk[s] EXCEPT !.damaged = TRUE].frames = disk[s].frames
          /\ [disk[s] EXCEPT !.damaged = TRUE].damaged
        BY <2>1 DEF Pair
    <2>4. CASE s \in torn
        BY <1>2, <2>2, <2>3, <2>4
    <2>5. CASE s \notin torn
        BY <1>2, <2>1, <2>5
    <2> QED BY <2>4, <2>5
<1>5. disk' \in [Streams -> Pair]
    <2>1. disk' = [s \in Streams |-> disk'[s]]
        BY <1>2
    <2> QED BY <1>4, <2>1
<1>6. ASSUME NEW s \in Streams
      PROVE  /\ marker'[s] \in Marker \union {Nobody}
             /\ marker[s] = Nobody \/ marker[s].owner # r => marker'[s] = marker[s]
             /\ marker[s] # Nobody /\ marker[s].owner = r
                    => marker'[s] # Nobody /\ ~marker'[s].alive
    <2>1. marker[s] \in Marker \union {Nobody} /\ marker'[s] = Orphaned(marker[s], r)
        BY <1>1 DEF ClaimsTyped
    <2> QED BY <2>1, OrphanedMarker
<1>7. marker' \in [Streams -> Marker \union {Nobody}]
    <2>1. marker' = [s \in Streams |-> marker'[s]]
        BY <1>1
    <2> QED BY <1>6, <2>1
<1>8. /\ open' \in [Recorders -> SUBSET Streams] /\ marked' \in [Recorders -> SUBSET Streams]
      /\ open'[r] = {} /\ marked'[r] = {}
      /\ \A x \in Recorders \ {r} : open'[x] = open[x] /\ marked'[x] = marked[x]
    BY <1>1 DEF ClaimsTyped
<1>9. ClaimsTyped'
    BY <1>1, <1>3, <1>5, <1>7, <1>8 DEF ClaimsTyped, ClaimEnds, OthersClaim
<1>10. RecordersSane'
    BY <1>1, <1>3, <1>8 DEF Ownership, RecordersSane, Opening, ClaimEnds, OthersClaim, Dead
<1>11. PassesSane'
    BY <1>1 DEF Ownership, PassesSane, Dead
<1>12. ASSUME NEW x \in Recorders, NEW s \in Streams \ excused
       PROVE  Owned(x, s)'
    <2>1. CASE x = r
        BY <1>3, <1>8, <2>1 DEF Owned, Opening, ClaimEnds
    <2>2. CASE x # r
        <3>1. Owned(x, s)
            BY <1>12 DEF Ownership, MarkersOwned
        <3>2. Blank(x).owner # r /\ SignedBy(x).owner # r
            BY <2>2 DEF Blank, SignedBy
        <3>3. marker'[s] = marker[s] \/ marker[s] \notin {Blank(x), SignedBy(x)}
            BY <1>6, <3>2
        <3> QED BY <1>3, <1>8, <2>2, <3>1, <3>3, OwnedStays DEF ClaimEnds, OthersClaim
    <2> QED BY <2>1, <2>2
<1>13. ASSUME NEW s \in Streams
       PROVE  HeldMarker(s)'
    <2> SUFFICES ASSUME marker'[s] # Nobody, marker'[s].alive PROVE HeldMarker(s)'
        BY DEF HeldMarker
    <2>1. marker'[s] = marker[s] /\ ~(marker[s] # Nobody /\ marker[s].owner = r)
        BY <1>6
    <2>2. HeldMarker(s)
        BY DEF Ownership, LiveMarkersHeld
    <2> QED BY <1>3, <1>8, <2>1, <2>2, HeldStays DEF ClaimEnds, OthersClaim
<1>14. MarkersOwned' /\ LiveMarkersHeld'
    BY <1>1, <1>12, <1>13 DEF MarkersOwned, LiveMarkersHeld
<1> QED BY <1>4, <1>9, <1>10, <1>11, <1>14 DEF Ownership

(* A step that leaves the recorders and the markers as they are.           *)
LEMMA IdleOwnership ==
    ASSUME ClaimsTyped, Ownership,
           UNCHANGED <<clock, marker, up, open, marked, claim, excused>>,
           disk' \in [Streams -> Pair], beneath' \subseteq Recorders \X Streams,
           repairs' \in [Streams -> 0 .. 2],
           pass' \in [Passes -> Visit \union {Nobody}],
           \A q \in Passes : pass'[q] # Nobody => Dead(pass'[q].seen)
    PROVE  ClaimsTyped' /\ Ownership'
<1>1. ClaimsTyped'
    BY DEF ClaimsTyped
<1>2. RecordersSane'
    BY DEF Ownership, RecordersSane, Opening, Dead
<1>3. PassesSane'
    BY DEF PassesSane, Dead
<1>4. MarkersOwned'
    BY DEF Ownership, MarkersOwned, Owned, Opening, Blank, SignedBy
<1>5. LiveMarkersHeld'
    BY DEF Ownership, LiveMarkersHeld, HeldMarker, Holds, Opening
<1> QED BY <1>1, <1>2, <1>3, <1>4, <1>5 DEF Ownership

LEMMA StartOwnership ==
    ASSUME ClaimsTyped, Ownership, NEW r \in Recorders, StartRecorder(r)
    PROVE  ClaimsTyped' /\ Ownership'
<1>1. /\ up' = up \union {r} /\ beneath' \subseteq beneath
      /\ UNCHANGED <<clock, marker, disk, open, marked, claim, pass, repairs, excused>>
    BY DEF StartRecorder, repairVars
<1>2. ClaimsTyped'
    BY <1>1 DEF ClaimsTyped
<1>3. RecordersSane'
    BY <1>1 DEF Ownership, RecordersSane, Opening, Dead
<1>4. PassesSane'
    BY <1>1 DEF Ownership, PassesSane, Dead
<1>5. MarkersOwned'
    BY <1>1 DEF Ownership, MarkersOwned, Owned, Opening, Blank, SignedBy
<1>6. LiveMarkersHeld'
    BY <1>1 DEF Ownership, LiveMarkersHeld, HeldMarker, Holds, Opening
<1> QED BY <1>2, <1>3, <1>4, <1>5, <1>6 DEF Ownership

LEMMA TimeOwnership ==
    ASSUME ClaimsTyped, Ownership, TimePasses
    PROVE  ClaimsTyped' /\ Ownership'
<1>1. /\ clock' = "over" \/ (clock' = "old" /\ \A r \in Recorders : claim[r] = Nobody)
      /\ UNCHANGED <<marker, disk, up, open, marked, claim, pass, beneath, repairs, excused>>
    BY DEF TimePasses, recorderVars, repairVars, ClaimsTyped
<1>2. ClaimsTyped'
    BY <1>1 DEF ClaimsTyped
<1>3. RecordersSane'
    BY <1>1 DEF Ownership, RecordersSane, Opening, Dead
<1>4. PassesSane'
    BY <1>1 DEF Ownership, PassesSane, Dead
<1>5. MarkersOwned'
    BY <1>1 DEF Ownership, MarkersOwned, Owned, Opening, Blank, SignedBy
<1>6. LiveMarkersHeld'
    BY <1>1 DEF Ownership, LiveMarkersHeld, HeldMarker, Holds, Opening
<1> QED BY <1>2, <1>3, <1>4, <1>5, <1>6 DEF Ownership

-----------------------------------------------------------------------------
(* The passes, the frames and the shipping.                                *)

PassBecomes(q, v) ==
    /\ pass' \in [Passes -> Visit \union {Nobody}]
    /\ pass'[q] = v /\ \A x \in Passes \ {q} : pass'[x] = pass[x]

LEMMA PassSet ==
    ASSUME ClaimsTyped, NEW q \in Passes, NEW v \in Visit \union {Nobody},
           pass' = [pass EXCEPT ![q] = v]
    PROVE  PassBecomes(q, v)
BY DEF ClaimsTyped, PassBecomes

(* A visit at the pair s that has come to the step.                        *)
VisitAt(v, s, step) == v \in Visit /\ v # Nobody /\ v.stream = s /\ v.step = step

LEMMA PassMoves ==
    ASSUME ClaimsTyped, PassesSane, NEW q \in Passes, pass[q] # Nobody,
           NEW step \in PassSteps, PassTo(q, step)
    PROVE  /\ PassBecomes(q, pass'[q]) /\ VisitAt(pass'[q], pass[q].stream, step)
           /\ Dead(pass'[q].seen)
<1> DEFINE v == [pass[q] EXCEPT !.step = step]
<1>1. v \in Visit /\ v.stream = pass[q].stream /\ v.step = step /\ v.seen = pass[q].seen
    BY DEF ClaimsTyped, Visit
<1>2. pass' = [pass EXCEPT ![q] = v]
    BY DEF ClaimsTyped, PassTo
<1> HIDE DEF v
<1>3. PassBecomes(q, v) /\ pass'[q] = v
    BY <1>1, <1>2, PassSet DEF ClaimsTyped
<1> QED BY <1>1, <1>3, NobodyAssumption DEF VisitAt, PassesSane, Dead

LEMMA PassEnds ==
    ASSUME ClaimsTyped, NEW q \in Passes, PassDone(q)
    PROVE  PassBecomes(q, Nobody)
BY PassSet DEF PassDone

(* What no step of a pass changes.                                         *)
RecordersIdle == UNCHANGED <<clock, up, open, marked, claim, disturbed>>

(* A step of q at the pair s.                                              *)
LEMMA PassOwnership ==
    ASSUME ClaimsTyped, Ownership, NEW q \in Passes,
           RecordersIdle, UNCHANGED <<marker, excused>>,
           disk' \in [Streams -> Pair], beneath' \subseteq Recorders \X Streams,
           repairs' \in [Streams -> 0 .. 2],
           NEW v \in Visit \union {Nobody}, PassBecomes(q, v),
           v # Nobody => Dead(v.seen)
    PROVE  ClaimsTyped' /\ Ownership'
BY IdleOwnership DEF RecordersIdle, PassBecomes, Ownership, PassesSane

LEMMA VisitStep ==
    ASSUME ClaimsTyped, Ownership, NEW q \in Passes, NEW s \in Streams, VisitPair(q, s)
    PROVE  /\ ClaimsTyped' /\ Ownership' /\ RecordersIdle
           /\ UNCHANGED <<marker, disk, beneath, repairs, mistaken, excused>>
           /\ \/ pass' = pass
              \/ /\ PassBecomes(q, pass'[q]) /\ VisitAt(pass'[q], s, "drop")
                 /\ disk[s] # NoPair /\ Dead(marker[s])
<1> DEFINE v == [stream |-> s, step |-> "drop", seen |-> marker[s], frames |-> 0]
<1>1. RecordersIdle /\ UNCHANGED <<marker, disk, beneath, repairs, mistaken, excused>>
    BY DEF VisitPair, NotByPass, recorderVars, repairVars, RecordersIdle
<1>2. CASE Live(marker[s])
    <2>1. pass' = pass
        BY <1>2 DEF VisitPair
    <2>2. ClaimsTyped' /\ Ownership'
        BY <1>1, <2>1, IdleOwnership DEF RecordersIdle, ClaimsTyped, Ownership, PassesSane
    <2> QED BY <1>1, <2>1, <2>2
<1>3. CASE ~Live(marker[s])
    <2>1. v \in Visit /\ v.stream = s /\ v.step = "drop" /\ v.seen = marker[s]
        BY ClaimsBoundsAssumption DEF Visit, PassSteps, ClaimsTyped
    <2>2. pass' = [pass EXCEPT ![q] = v] /\ disk[s] # NoPair
        BY <1>3 DEF VisitPair
    <2> HIDE DEF v
    <2>3. PassBecomes(q, v) /\ pass'[q] = v
        BY <2>1, <2>2, PassSet DEF ClaimsTyped
    <2>4. Dead(marker[s])
        BY <1>3 DEF Live, Dead
    <2>5. ClaimsTyped' /\ Ownership'
        BY <1>1, <2>1, <2>3, <2>4, PassOwnership DEF ClaimsTyped
    <2> QED BY <1>1, <2>1, <2>2, <2>3, <2>4, <2>5, NobodyAssumption DEF VisitAt
<1> QED BY <1>2, <1>3

LEMMA DropStep ==
    ASSUME ClaimsTyped, Ownership, NEW q \in Passes, DropMarker(q),
           NEW s \in Streams, s = pass[q].stream
    PROVE  /\ ClaimsTyped' /\ Ownership' /\ RecordersIdle
           /\ UNCHANGED <<disk, beneath, repairs, mistaken>> /\ excused \subseteq excused'
           /\ pass[q] # Nobody /\ pass[q].step = "drop"
           /\ PassBecomes(q, pass'[q]) /\ VisitAt(pass'[q], s, "look")
<1> DEFINE v == [pass[q] EXCEPT !.step = "look", !.seen = Nobody]
<1>1. /\ RecordersIdle /\ UNCHANGED <<disk, beneath, repairs, mistaken>>
      /\ pass[q] # Nobody /\ pass[q].step = "drop" /\ RemoveStale(s, pass[q].seen)
    BY DEF DropMarker, PassAt, NotByPass, recorderVars, repairVars, RecordersIdle
<1>2. v \in Visit /\ v.stream = s /\ v.step = "look" /\ v.seen = Nobody
    BY <1>1 DEF Visit, PassSteps, ClaimsTyped
<1>3. pass' = [pass EXCEPT ![q] = v]
    BY DEF ClaimsTyped, DropMarker
<1> HIDE DEF v
<1>4. PassBecomes(q, v) /\ pass'[q] = v
    BY <1>2, <1>3, PassSet DEF ClaimsTyped
<1>5. /\ MarkerBecomes(s, Nobody) /\ excused \subseteq excused'
      /\ s \notin excused' => marker[s] = Nobody \/ ~marker[s].alive
    <2>1. Dead(pass[q].seen)
        BY <1>1 DEF Ownership, PassesSane
    <2> QED BY <1>1, <2>1, StaleRemoved
<1>6. ClaimsTyped'
    BY <1>1, <1>4, <1>5 DEF ClaimsTyped, RecordersIdle, PassBecomes, MarkerBecomes
<1>7. RecordersSane'
    BY <1>1 DEF Ownership, RecordersSane, RecordersIdle, Opening, Dead
<1>8. PassesSane'
    BY <1>2, <1>4 DEF Ownership, PassesSane, PassBecomes, Dead
<1>9. ASSUME NEW x \in Recorders, NEW t \in Streams \ excused'
      PROVE  Owned(x, t)'
    <2>1. Owned(x, t)
        BY <1>5, <1>9 DEF Ownership, MarkersOwned
    <2>2. /\ Blank(x) # Nobody /\ Blank(x).alive = TRUE
          /\ SignedBy(x) # Nobody /\ SignedBy(x).alive = TRUE
        BY MarkersDiffer
    <2>3. marker'[t] = marker[t] \/ marker[t] \notin {Blank(x), SignedBy(x)}
        <3>1. CASE t = s
            BY <1>5, <1>9, <2>2, <3>1
        <3>2. CASE t # s
            BY <1>5, <3>2 DEF MarkerBecomes
        <3> QED BY <3>1, <3>2
    <2> QED BY <1>1, <2>1, <2>3, OwnedStays DEF RecordersIdle
<1>10. ASSUME NEW t \in Streams
       PROVE  HeldMarker(t)'
    <2>1. CASE t = s
        BY <1>5, <2>1 DEF HeldMarker, MarkerBecomes
    <2>2. CASE t # s
        BY <1>1, <1>5, <2>2, HeldStays
           DEF Ownership, LiveMarkersHeld, MarkerBecomes, RecordersIdle
    <2> QED BY <2>1, <2>2
<1>11. Ownership'
    BY <1>7, <1>8, <1>9, <1>10 DEF Ownership, MarkersOwned, LiveMarkersHeld
<1> QED BY <1>1, <1>2, <1>4, <1>5, <1>6, <1>11, NobodyAssumption DEF VisitAt

LEMMA FindHealthyStep ==
    ASSUME ClaimsTyped, Ownership, NEW q \in Passes, FindHealthy(q)
    PROVE  /\ ClaimsTyped' /\ Ownership' /\ RecordersIdle
           /\ UNCHANGED <<marker, disk, beneath, repairs, mistaken, excused>>
           /\ PassBecomes(q, Nobody)
<1>1. /\ RecordersIdle /\ UNCHANGED <<marker, disk, beneath, repairs, mistaken, excused>>
      /\ PassDone(q)
    BY DEF FindHealthy, NotByPass, recorderVars, repairVars, RecordersIdle
<1>2. PassBecomes(q, Nobody)
    BY <1>1, PassEnds
<1> QED BY <1>1, <1>2, PassOwnership DEF ClaimsTyped

LEMMA FindDamagedStep ==
    ASSUME ClaimsTyped, Ownership, NEW q \in Passes, FindDamaged(q),
           NEW s \in Streams, s = pass[q].stream
    PROVE  /\ ClaimsTyped' /\ Ownership' /\ RecordersIdle
           /\ UNCHANGED <<marker, disk, beneath, repairs, mistaken, excused>>
           /\ PassBecomes(q, pass'[q]) /\ VisitAt(pass'[q], s, "check")
           /\ pass[q] # Nobody /\ (disk[s].damaged \/ Writers(s) # {})
<1>1. /\ RecordersIdle /\ UNCHANGED <<marker, disk, beneath, repairs, mistaken, excused>>
      /\ pass[q] # Nobody /\ PassTo(q, "check") /\ (disk[s].damaged \/ Writers(s) # {})
    BY DEF FindDamaged, PassAt, MayLookDamaged, NotByPass, recorderVars, repairVars,
           RecordersIdle
<1>2. PassBecomes(q, pass'[q]) /\ VisitAt(pass'[q], s, "check") /\ Dead(pass'[q].seen)
    BY <1>1, PassMoves DEF PassSteps, Ownership
<1>3. ClaimsTyped' /\ Ownership'
    BY <1>1, <1>2, PassOwnership DEF ClaimsTyped, VisitAt
<1> QED BY <1>1, <1>2, <1>3

(* A pass that goes on has the pair damaged, or has made a mistake.        *)
LEMMA CheckStep ==
    ASSUME ClaimsTyped, Ownership, NEW q \in Passes, CheckHeld(q),
           NEW s \in Streams, s = pass[q].stream
    PROVE  /\ ClaimsTyped' /\ Ownership' /\ RecordersIdle
           /\ UNCHANGED <<marker, disk, beneath, repairs, excused>>
           /\ mistaken \subseteq mistaken' /\ mistaken' \subseteq mistaken \union {s}
           /\ pass[q] # Nobody /\ pass[q].step = "check"
           /\ \/ PassBecomes(q, Nobody)
              \/ /\ PassBecomes(q, pass'[q]) /\ VisitAt(pass'[q], s, "salvage")
                 /\ disk[s].damaged \/ s \in mistaken'
<1>1. /\ RecordersIdle /\ UNCHANGED <<marker, disk, beneath, repairs, excused>>
      /\ pass[q] # Nobody /\ pass[q].step = "check"
      /\ IF Live(marker[s]) THEN PassDone(q) ELSE PassTo(q, "salvage")
      /\ mistaken' = IF Live(marker[s]) \/ disk[s].damaged THEN mistaken ELSE mistaken \union {s}
    BY DEF CheckHeld, Reconcilable, PassAt, NotByPass, recorderVars, RecordersIdle
<1>2. CASE Live(marker[s])
    <2>1. PassBecomes(q, Nobody)
        BY <1>1, <1>2, PassEnds
    <2>2. ClaimsTyped' /\ Ownership'
        BY <1>1, <2>1, PassOwnership DEF ClaimsTyped
    <2> QED BY <1>1, <1>2, <2>1, <2>2
<1>3. CASE ~Live(marker[s])
    <2>1. PassBecomes(q, pass'[q]) /\ VisitAt(pass'[q], s, "salvage") /\ Dead(pass'[q].seen)
        BY <1>1, <1>3, PassMoves DEF PassSteps, Ownership
    <2>2. ClaimsTyped' /\ Ownership'
        BY <1>1, <2>1, PassOwnership DEF ClaimsTyped, VisitAt
    <2> QED BY <1>1, <1>3, <2>1, <2>2
<1> QED BY <1>2, <1>3

LEMMA SalvageStep ==
    ASSUME ClaimsTyped, Ownership, NEW q \in Passes, Salvage(q),
           NEW s \in Streams, s = pass[q].stream
    PROVE  /\ ClaimsTyped' /\ Ownership' /\ RecordersIdle
           /\ UNCHANGED <<marker, disk, beneath, repairs, mistaken, excused>>
           /\ pass[q] # Nobody /\ pass[q].step = "salvage"
           /\ PassBecomes(q, pass'[q]) /\ VisitAt(pass'[q], s, "replace")
<1> DEFINE v == [pass[q] EXCEPT !.step = "replace", !.frames = disk[s].frames]
<1>1. /\ RecordersIdle /\ UNCHANGED <<marker, disk, beneath, repairs, mistaken, excused>>
      /\ pass[q] # Nobody /\ pass[q].step = "salvage"
    BY DEF Salvage, PassAt, NotByPass, recorderVars, repairVars, RecordersIdle
<1>2. v \in Visit /\ v.stream = s /\ v.step = "replace" /\ v.seen = pass[q].seen
    <2>1. disk[s].frames \in 0 .. MaxPairFrames /\ pass[q] \in Visit
        BY <1>1 DEF ClaimsTyped, Pair
    <2> QED BY <2>1 DEF Visit, PassSteps
<1>3. pass' = [pass EXCEPT ![q] = v]
    BY DEF ClaimsTyped, Salvage
<1>4. Dead(v.seen)
    BY <1>1, <1>2 DEF Ownership, PassesSane
<1> HIDE DEF v
<1>5. PassBecomes(q, v) /\ pass'[q] = v
    BY <1>2, <1>3, PassSet DEF ClaimsTyped
<1>6. ClaimsTyped' /\ Ownership'
    BY <1>1, <1>2, <1>4, <1>5, PassOwnership DEF ClaimsTyped
<1> QED BY <1>1, <1>2, <1>5, <1>6, NobodyAssumption DEF VisitAt

LEMMA RepairedPair ==
    ASSUME NEW p \in Pair, NEW k \in 0 .. MaxPairFrames, NEW x \in Repaired(p, k)
    PROVE  x \in Pair
<1>1. NoPair \in Pair
    BY ClaimsBoundsAssumption DEF NoPair, Pair
<1>2. [frames |-> k, damaged |-> FALSE] \in Pair /\ [p EXCEPT !.damaged = p.frames # k] \in Pair
    BY DEF Pair
<1> QED BY <1>1, <1>2 DEF Repaired

LEMMA ReplaceStep ==
    ASSUME ClaimsTyped, Ownership, NEW q \in Passes, Replace(q),
           NEW s \in Streams, s = pass[q].stream
    PROVE  /\ ClaimsTyped' /\ Ownership' /\ RecordersIdle
           /\ UNCHANGED <<marker, mistaken, excused>>
           /\ pass[q] # Nobody /\ pass[q].step = "replace"
           /\ PassBecomes(q, Nobody)
           /\ \A t \in Streams \ {s} : disk'[t] = disk[t] /\ repairs'[t] = repairs[t]
           /\ repairs'[s] # 0 /\ (repairs[s] # 0 => repairs'[s] = 2)
           /\ beneath' = beneath \union (Writers(s) \X {s})
<1>1. /\ RecordersIdle /\ UNCHANGED <<marker, mistaken, excused>>
      /\ pass[q] # Nobody /\ pass[q].step = "replace" /\ PassDone(q)
      /\ beneath' = beneath \union (Writers(s) \X {s})
    BY DEF Replace, PassAt, NotByPass, recorderVars, RecordersIdle
<1>2. PICK p \in Repaired(disk[s], pass[q].frames) : disk' = [disk EXCEPT ![s] = p]
    BY DEF Replace
<1>3. p \in Pair
    <2>1. disk[s] \in Pair /\ pass[q].frames \in 0 .. MaxPairFrames
        BY <1>1 DEF ClaimsTyped, Visit
    <2> QED BY <1>2, <2>1, RepairedPair
<1>4. disk' \in [Streams -> Pair] /\ \A t \in Streams \ {s} : disk'[t] = disk[t]
    BY <1>2, <1>3, PairSet
<1>5. /\ repairs' \in [Streams -> 0 .. 2] /\ repairs'[s] # 0
      /\ repairs[s] # 0 => repairs'[s] = 2
      /\ \A t \in Streams \ {s} : repairs'[t] = repairs[t]
    BY DEF Replace, ClaimsTyped
<1>6. beneath' \subseteq Recorders \X Streams
    BY <1>1 DEF ClaimsTyped, Writers
<1>7. PassBecomes(q, Nobody)
    BY <1>1, PassEnds
<1>8. ClaimsTyped' /\ Ownership'
    BY <1>1, <1>4, <1>5, <1>6, <1>7, PassOwnership
<1> QED BY <1>1, <1>4, <1>5, <1>7, <1>8

(* A frame of a writer: the pair stays damaged if it was.                  *)
LEMMA WriteStep ==
    ASSUME ClaimsTyped, Ownership, NEW r \in Recorders, NEW s \in Streams, WriteFrame(r, s)
    PROVE  /\ ClaimsTyped' /\ Ownership'
           /\ UNCHANGED <<clock, marker, up, open, marked, claim, pass, beneath, repairs,
                          mistaken, excused, disturbed>>
           /\ s \in open[r] /\ \A t \in Streams \ {s} : disk'[t] = disk[t]
           /\ disk[s].damaged => disk'[s].damaged
           /\ <<r, s>> \notin beneath => disk'[s].damaged = disk[s].damaged
<1>1. /\ UNCHANGED <<clock, marker, up, open, marked, claim, pass, beneath, repairs,
                     mistaken, excused, disturbed>>
      /\ s \in open[r] /\ disk[s].frames < MaxPairFrames
    BY DEF WriteFrame, repairVars
<1>2. PICK p \in IF <<r, s>> \in beneath THEN Unmatched(disk[s]) ELSE {Longer(disk[s])} :
        disk' = [disk EXCEPT ![s] = p]
    BY DEF WriteFrame
<1>3. disk[s] \in Pair
    BY DEF ClaimsTyped
<1>4. Longer(disk[s]) \in Pair /\ Longer(disk[s]).damaged = disk[s].damaged
    BY <1>1, <1>3, LongerPair
<1>5. /\ [Longer(disk[s]) EXCEPT !.damaged = TRUE] \in Pair
      /\ [Longer(disk[s]) EXCEPT !.damaged = TRUE].damaged
    BY <1>4 DEF Pair
<1>6. /\ p \in Pair /\ (disk[s].damaged => p.damaged)
      /\ <<r, s>> \notin beneath => p.damaged = disk[s].damaged
    BY <1>2, <1>3, <1>4, <1>5 DEF Unmatched
<1>7. disk' \in [Streams -> Pair] /\ disk'[s] = p /\ \A t \in Streams \ {s} : disk'[t] = disk[t]
    BY <1>2, <1>6, PairSet
<1>8. ClaimsTyped' /\ Ownership'
    BY <1>1, <1>7, IdleOwnership DEF ClaimsTyped, Ownership, PassesSane
<1> QED BY <1>1, <1>6, <1>7, <1>8

LEMMA EvictStep ==
    ASSUME ClaimsTyped, Ownership, NEW s \in Streams, Evict(s)
    PROVE  /\ ClaimsTyped' /\ Ownership'
           /\ UNCHANGED <<clock, marker, up, open, marked, claim, pass, beneath, repairs,
                          mistaken, excused, disturbed>>
           /\ \A t \in Streams \ {s} : disk'[t] = disk[t]
           /\ disk'[s] = disk[s] \/ (marker[s] = Nobody /\ disk'[s] = NoPair)
<1>1. UNCHANGED <<clock, marker, up, open, marked, claim, pass, beneath, repairs, mistaken,
                  excused, disturbed>>
    BY DEF Evict, recorderVars, repairVars
<1>2. NoPair \in Pair
    BY ClaimsBoundsAssumption DEF NoPair, Pair
<1>3. /\ disk' \in [Streams -> Pair] /\ \A t \in Streams \ {s} : disk'[t] = disk[t]
      /\ disk'[s] = disk[s] \/ (marker[s] = Nobody /\ disk'[s] = NoPair)
    BY <1>2 DEF Evict, Complete, ClaimsTyped
<1>4. ClaimsTyped' /\ Ownership'
    BY <1>1, <1>3, IdleOwnership DEF ClaimsTyped, Ownership, PassesSane
<1> QED BY <1>1, <1>3, <1>4

-----------------------------------------------------------------------------
(* Whom the repairs may find at a pair.                                    *)

(* A pair that no pass has replaced, and whose markers and damage tell the *)
(* truth.                                                                  *)
Spared(s) == s \notin excused \union mistaken /\ repairs[s] = 0

(* Nobody writes the pair, and nobody will.                                *)
Gone(s) == clock = "old" /\ Writers(s) = {}

DamagedUnwritten == \A s \in Streams : Spared(s) /\ disk[s].damaged => Writers(s) = {}

Unwritten(s) == Spared(s) => disk[s].damaged \/ Gone(s)

(* q has asked who holds the pair s, and goes on to replace it.            *)
Mending(q, s) ==
    pass[q] # Nobody /\ pass[q].stream = s /\ pass[q].step \in {"salvage", "replace"}

RepairsFindNobody == \A q \in Passes, s \in Streams : Mending(q, s) => Unwritten(s)

RepairsSafe == DamagedUnwritten /\ RepairsFindNobody /\ RepairsLeaveWritersAlone

(* What the recorder does without opening a pair or writing one.           *)
Quiet ==
    /\ UNCHANGED <<disk, pass, repairs, mistaken>>
    /\ \A r \in Recorders : open'[r] \subseteq open[r]
    /\ beneath' \subseteq beneath
    /\ clock = "old" => clock' = "old"
    /\ excused \subseteq excused' /\ disturbed \subseteq disturbed'

LEMMA QuietRepairs ==
    ASSUME ClaimsTyped, RepairsSafe, Quiet
    PROVE  RepairsSafe'
<1>1. \A s \in Streams : /\ Spared(s)' => Spared(s)
                         /\ disk'[s] = disk[s] /\ Writers(s)' \subseteq Writers(s)
    BY DEF Quiet, Spared, Writers
<1>2. DamagedUnwritten'
    BY <1>1 DEF RepairsSafe, DamagedUnwritten
<1>3. ASSUME NEW s \in Streams, Unwritten(s) PROVE Unwritten(s)'
    BY <1>1, <1>3 DEF Unwritten, Gone, Quiet
<1>4. RepairsFindNobody'
    BY <1>3 DEF RepairsSafe, RepairsFindNobody, Mending, Quiet
<1>5. RepairsLeaveWritersAlone'
    BY DEF Quiet, RepairsSafe, RepairsLeaveWritersAlone
<1> QED BY <1>2, <1>4, <1>5 DEF RepairsSafe

(* A step that keeps what is known of the pairs, but for one.              *)
LEMMA WriteRepairs ==
    ASSUME ClaimsTyped, Ownership, RepairsSafe,
           NEW r \in Recorders, NEW s \in Streams, WriteFrame(r, s)
    PROVE  RepairsSafe'
<1>1. /\ UNCHANGED <<clock, open, pass, beneath, repairs, mistaken, excused>>
      /\ s \in open[r] /\ \A t \in Streams \ {s} : disk'[t] = disk[t]
      /\ disk[s].damaged => disk'[s].damaged
      /\ <<r, s>> \notin beneath => disk'[s].damaged = disk[s].damaged
    BY WriteStep
<1>2. \A t \in Streams : /\ Spared(t)' <=> Spared(t)
                         /\ Writers(t)' = Writers(t)
                         /\ disk[t].damaged => disk'[t].damaged
    BY <1>1 DEF Spared, Writers
<1>3. Spared(s) => disk'[s].damaged = disk[s].damaged
    <2>1. <<r, s>> \in beneath => ~Spared(s)
        BY DEF RepairsSafe, RepairsLeaveWritersAlone, Spared
    <2> QED BY <1>1, <2>1
<1>4. DamagedUnwritten'
    BY <1>1, <1>2, <1>3 DEF RepairsSafe, DamagedUnwritten
<1>5. \A t \in Streams : Unwritten(t) => Unwritten(t)'
    BY <1>1, <1>2 DEF Unwritten, Gone
<1>6. RepairsFindNobody'
    BY <1>1, <1>5 DEF RepairsSafe, RepairsFindNobody, Mending
<1>7. RepairsLeaveWritersAlone'
    BY <1>1 DEF RepairsSafe, RepairsLeaveWritersAlone
<1> QED BY <1>4, <1>6, <1>7 DEF RepairsSafe

LEMMA OpenRepairs ==
    ASSUME ClaimsTyped, Ownership, RepairsSafe, NEW r \in Recorders, OpenPair(r),
           NEW s \in Streams, s = claim[r].stream
    PROVE  RepairsSafe'
<1>1. /\ clock # "old" /\ ~disk[s].damaged /\ ~disk'[s].damaged
      /\ open'[r] = open[r] \union {s}
      /\ \A x \in Recorders \ {r} : open'[x] = open[x]
      /\ \A t \in Streams \ {s} : disk'[t] = disk[t]
    BY OpenOwnership
<1>2. UNCHANGED <<clock, pass, repairs, mistaken, excused>> /\ beneath' \subseteq beneath
    BY DEF OpenPair, repairVars
<1>3. \A t \in Streams : Spared(t)' <=> Spared(t)
    BY <1>2 DEF Spared
<1>4. \A t \in Streams \ {s} : Writers(t)' = Writers(t)
    BY <1>1 DEF Writers
<1>5. DamagedUnwritten'
    BY <1>1, <1>3, <1>4 DEF RepairsSafe, DamagedUnwritten
<1>6. \A t \in Streams : Unwritten(t) => Unwritten(t)'
    BY <1>1, <1>2, <1>3, <1>4 DEF Unwritten, Gone
<1>7. RepairsFindNobody'
    BY <1>2, <1>6 DEF RepairsSafe, RepairsFindNobody, Mending
<1>8. RepairsLeaveWritersAlone'
    BY <1>2 DEF RepairsSafe, RepairsLeaveWritersAlone
<1> QED BY <1>5, <1>7, <1>8 DEF RepairsSafe

(* A pair of which the marker is one writer's has no other writer.         *)
LEMMA OnlyOwnerWrites ==
    ASSUME Ownership, NEW s \in Streams \ excused, NEW r \in Writers(s), NEW x \in Writers(s)
    PROVE  r = x
<1>1. marker[s] = SignedBy(r) /\ marker[s] = SignedBy(x)
    BY DEF Ownership, MarkersOwned, Owned, Writers
<1>2. SignedBy(r).owner = r /\ SignedBy(x).owner = x
    BY DEF SignedBy
<1> QED BY <1>1, <1>2

(* What is judged dead, or not to be there, has no writer.                 *)
LEMMA DeadUnwritten ==
    ASSUME Ownership, NEW s \in Streams \ excused, Dead(marker[s])
    PROVE  Writers(s) = {}
<1> SUFFICES ASSUME NEW r \in Writers(s) PROVE FALSE
    OBVIOUS
<1>1. r \in Recorders /\ marker[s] = SignedBy(r)
    BY DEF Ownership, MarkersOwned, Owned, Writers
<1> QED BY <1>1, MarkersDiffer DEF Dead

LEMMA KillRepairs ==
    ASSUME ClaimsTyped, Ownership, RepairsSafe, NEW r \in Recorders, KillRecorder(r)
    PROVE  RepairsSafe'
<1>1. /\ UNCHANGED <<clock, pass, beneath, repairs, mistaken, excused>>
      /\ open' = [open EXCEPT ![r] = {}]
    BY DEF KillRecorder, repairVars
<1>2. /\ \A s \in Streams \ open[r] : disk'[s] = disk[s]
      /\ \A s \in Streams : disk[s].damaged => disk'[s].damaged
    BY KillOwnership
<1>3. \A s \in Streams : (Spared(s)' <=> Spared(s)) /\ Writers(s)' = Writers(s) \ {r}
    BY <1>1 DEF Spared, Writers, ClaimsTyped
<1>4. ASSUME NEW s \in Streams, Spared(s), disk'[s].damaged
      PROVE  Writers(s)' = {}
    <2>1. CASE s \in open[r]
        <3>1. \A x \in Writers(s) : x = r
            BY <1>4, <2>1, OnlyOwnerWrites DEF Spared, Writers
        <3> QED BY <1>3, <3>1
    <2>2. CASE s \notin open[r]
        BY <1>2, <1>3, <1>4, <2>2 DEF RepairsSafe, DamagedUnwritten
    <2> QED BY <2>1, <2>2
<1>5. DamagedUnwritten'
    BY <1>3, <1>4 DEF DamagedUnwritten
<1>6. \A s \in Streams : Unwritten(s) => Unwritten(s)'
    BY <1>1, <1>2, <1>3 DEF Unwritten, Gone
<1>7. RepairsFindNobody'
    BY <1>1, <1>6 DEF RepairsSafe, RepairsFindNobody, Mending
<1>8. RepairsLeaveWritersAlone'
    BY <1>1 DEF RepairsSafe, RepairsLeaveWritersAlone
<1> QED BY <1>5, <1>7, <1>8 DEF RepairsSafe

(* A step of q that does not replace the pair it is at.                    *)
LEMMA PassRepairs ==
    ASSUME RepairsSafe, NEW q \in Passes,
           RecordersIdle, UNCHANGED <<disk, beneath, repairs>>,
           excused \subseteq excused', mistaken \subseteq mistaken',
           \A x \in Passes \ {q} : pass'[x] = pass[x],
           \A s \in Streams : Mending(q, s)' => Mending(q, s) \/ Unwritten(s)'
    PROVE  RepairsSafe'
<1>1. \A s \in Streams : /\ Spared(s)' => Spared(s)
                         /\ Writers(s)' = Writers(s)
                         /\ Unwritten(s) => Unwritten(s)'
    BY DEF Spared, Writers, Unwritten, Gone, RecordersIdle
<1>2. DamagedUnwritten'
    BY <1>1 DEF RepairsSafe, DamagedUnwritten
<1>3. RepairsFindNobody'
    <2> SUFFICES ASSUME NEW x \in Passes, NEW s \in Streams, Mending(x, s)'
                 PROVE  Unwritten(s)'
        BY DEF RepairsFindNobody
    <2>1. CASE x # q
        BY <1>1, <2>1 DEF RepairsSafe, RepairsFindNobody, Mending
    <2>2. CASE x = q
        BY <1>1, <2>2 DEF RepairsSafe, RepairsFindNobody
    <2> QED BY <2>1, <2>2
<1>4. RepairsLeaveWritersAlone'
    BY DEF RepairsSafe, RepairsLeaveWritersAlone
<1> QED BY <1>2, <1>3, <1>4 DEF RepairsSafe

LEMMA ReplaceRepairs ==
    ASSUME ClaimsTyped, Ownership, RepairsSafe, NEW q \in Passes, Replace(q),
           NEW s \in Streams, s = pass[q].stream
    PROVE  RepairsSafe'
<1>1. /\ RecordersIdle /\ UNCHANGED <<mistaken, excused>>
      /\ pass[q] # Nobody /\ pass[q].step = "replace" /\ PassBecomes(q, Nobody)
      /\ \A t \in Streams \ {s} : disk'[t] = disk[t] /\ repairs'[t] = repairs[t]
      /\ repairs'[s] # 0 /\ (repairs[s] # 0 => repairs'[s] = 2)
      /\ beneath' = beneath \union (Writers(s) \X {s})
    BY ReplaceStep
<1>2. /\ ~Spared(s)' /\ Unwritten(s)'
      /\ \A t \in Streams \ {s} : /\ Spared(t)' <=> Spared(t)
                                  /\ Unwritten(t) => Unwritten(t)'
      /\ \A t \in Streams : Writers(t)' = Writers(t)
    BY <1>1 DEF Spared, Unwritten, Gone, RecordersIdle, Writers
<1>3. DamagedUnwritten'
    BY <1>1, <1>2 DEF RepairsSafe, DamagedUnwritten
<1>4. RepairsFindNobody'
    BY <1>1, <1>2 DEF RepairsSafe, RepairsFindNobody, Mending, PassBecomes
<1>5. Spared(s) => Writers(s) = {}
    <2>1. Unwritten(s)
        BY <1>1 DEF RepairsSafe, RepairsFindNobody, Mending
    <2> QED BY <2>1 DEF Unwritten, Gone, RepairsSafe, DamagedUnwritten
<1>6. ASSUME NEW x \in beneath'
      PROVE  x[2] \in excused' \union mistaken' \/ repairs'[x[2]] > 1
    <2>1. CASE x \in beneath
        <3>1. x[2] \in Streams /\ (x[2] \in excused \union mistaken \/ repairs[x[2]] > 1)
            BY <2>1 DEF ClaimsTyped, RepairsSafe, RepairsLeaveWritersAlone
        <3> QED BY <1>1, <3>1
    <2>2. CASE x \in Writers(s) \X {s}
        <3>1. x[2] = s /\ Writers(s) # {}
            BY <2>2
        <3>2. s \in excused \union mistaken \/ repairs[s] # 0
            BY <1>5, <3>1 DEF Spared
        <3> QED BY <1>1, <3>1, <3>2
    <2> QED BY <1>1, <2>1, <2>2
<1>7. RepairsLeaveWritersAlone'
    BY <1>6 DEF RepairsLeaveWritersAlone
<1> QED BY <1>3, <1>4, <1>7 DEF RepairsSafe

LEMMA EvictRepairs ==
    ASSUME ClaimsTyped, Ownership, RepairsSafe, NEW s \in Streams, Evict(s), clock = "old"
    PROVE  RepairsSafe'
<1>1. /\ UNCHANGED <<clock, marker, open, pass, beneath, repairs, mistaken, excused>>
      /\ \A t \in Streams \ {s} : disk'[t] = disk[t]
      /\ disk'[s] = disk[s] \/ (marker[s] = Nobody /\ disk'[s] = NoPair)
    BY EvictStep
<1>2. \A t \in Streams : (Spared(t)' <=> Spared(t)) /\ Writers(t)' = Writers(t)
    BY <1>1 DEF Spared, Writers
<1>3. ASSUME NEW t \in Streams, Spared(t)
      PROVE  disk'[t] = disk[t] \/ (Writers(t) = {} /\ ~disk'[t].damaged)
    <2>1. CASE t # s \/ disk'[s] = disk[s]
        BY <1>1, <2>1
    <2>2. CASE t = s /\ marker[s] = Nobody /\ disk'[s] = NoPair
        BY <1>3, <2>2, DeadUnwritten DEF Dead, Spared, NoPair
    <2> QED BY <1>1, <2>1, <2>2
<1>4. DamagedUnwritten'
    BY <1>2, <1>3 DEF RepairsSafe, DamagedUnwritten
<1>5. \A t \in Streams : Unwritten(t) => Unwritten(t)'
    BY <1>1, <1>2, <1>3 DEF Unwritten, Gone
<1>6. RepairsFindNobody'
    BY <1>1, <1>5 DEF RepairsSafe, RepairsFindNobody, Mending
<1>7. RepairsLeaveWritersAlone'
    BY <1>1 DEF RepairsSafe, RepairsLeaveWritersAlone
<1> QED BY <1>4, <1>6, <1>7 DEF RepairsSafe

-----------------------------------------------------------------------------
(* What becomes of an ordinary pair: opened once, with a marker that       *)
(* stayed its own, and closed in order.                                    *)

Ordinary(s) == s \notin disturbed \union excused

(* The pair is what it will ever be.                                       *)
Finished(s) == Writers(s) = {} /\ (disk[s] # NoPair \/ clock = "old")

(* No pass takes it for damaged, and none came before it was finished.     *)
PassesPassBy(s) ==
    /\ ~disk[s].damaged /\ s \notin mistaken /\ repairs[s] = 0
    /\ \A q \in Passes :
        pass[q] # Nobody /\ pass[q].stream = s =>
            pass[q].step \in {"drop", "look"} /\ Finished(s)

(* It is copied when it is finished, and deleted when it is copied.        *)
CopiedFirst(s) ==
    /\ shipper = "copying" /\ s \in todo => Finished(s)
    /\ bucket[s] # NoPair => Finished(s) /\ (disk[s] = NoPair \/ bucket[s] = disk[s])
    /\ shipper = "deleting" /\ s \in todo => bucket[s] # NoPair
    /\ deleted[s] # NoPair => bucket[s] = deleted[s]

MirrorSafe == \A s \in Streams : Ordinary(s) => PassesPassBy(s) /\ CopiedFirst(s)

DeletesTheOld == shipper = "deleting" /\ todo # {} => clock = "old"

(* A step that leaves a pair finished if it was, and as it was.            *)
LEMMA MirrorStays ==
    ASSUME NEW s \in Streams, PassesPassBy(s), CopiedFirst(s),
           UNCHANGED <<pass, shipVars>>, disk'[s] = disk[s], repairs'[s] = repairs[s],
           s \notin mistaken', Finished(s) => Finished(s)'
    PROVE  PassesPassBy(s)' /\ CopiedFirst(s)'
<1>1. PassesPassBy(s)'
    BY DEF PassesPassBy
<1>2. CopiedFirst(s)'
    BY DEF CopiedFirst, shipVars
<1> QED BY <1>1, <1>2

LEMMA QuietMirror ==
    ASSUME MirrorSafe, Quiet, UNCHANGED shipVars
    PROVE  MirrorSafe'
<1> SUFFICES ASSUME NEW s \in Streams, Ordinary(s)'
             PROVE  PassesPassBy(s)' /\ CopiedFirst(s)'
    BY DEF MirrorSafe
<1>1. PassesPassBy(s) /\ CopiedFirst(s)
    BY DEF Ordinary, Quiet, MirrorSafe
<1>2. Finished(s) => Finished(s)'
    BY DEF Finished, Writers, Quiet
<1>3. s \notin mistaken'
    BY <1>1 DEF PassesPassBy, Quiet
<1> QED BY <1>1, <1>2, <1>3, MirrorStays DEF Quiet

LEMMA WriteMirror ==
    ASSUME ClaimsTyped, Ownership, RepairsSafe, MirrorSafe,
           NEW r \in Recorders, NEW s \in Streams, WriteFrame(r, s), UNCHANGED shipVars
    PROVE  MirrorSafe'
<1>1. /\ UNCHANGED <<clock, open, pass, beneath, repairs, mistaken, excused, disturbed>>
      /\ s \in open[r] /\ \A t \in Streams \ {s} : disk'[t] = disk[t]
      /\ <<r, s>> \notin beneath => disk'[s].damaged = disk[s].damaged
    BY WriteStep
<1> SUFFICES ASSUME NEW t \in Streams, Ordinary(t)
             PROVE  PassesPassBy(t)' /\ CopiedFirst(t)'
    BY <1>1 DEF MirrorSafe, Ordinary
<1>2. PassesPassBy(t) /\ CopiedFirst(t)
    BY DEF MirrorSafe
<1>3. CASE t # s
    <2>1. Finished(t) => Finished(t)'
        BY <1>1, <1>3 DEF Finished, Writers
    <2> QED BY <1>1, <1>2, <1>3, <2>1, MirrorStays DEF PassesPassBy
<1>4. CASE t = s
    <2>1. ~Finished(s)
        BY <1>1 DEF Finished, Writers
    <2>2. ~disk'[s].damaged
        <3>1. <<r, s>> \notin beneath
            BY <1>2, <1>4 DEF RepairsSafe, RepairsLeaveWritersAlone, PassesPassBy, Ordinary
        <3> QED BY <1>1, <1>2, <1>4, <3>1 DEF PassesPassBy
    <2>3. PassesPassBy(t)'
        BY <1>1, <1>2, <1>4, <2>1, <2>2 DEF PassesPassBy
    <2>4. CopiedFirst(t)'
        BY <1>2, <1>4, <2>1 DEF CopiedFirst, shipVars
    <2> QED BY <2>3, <2>4
<1> QED BY <1>3, <1>4

LEMMA OpenMirror ==
    ASSUME ClaimsTyped, Ownership, MirrorSafe, NEW r \in Recorders, OpenPair(r),
           NEW s \in Streams, s = claim[r].stream, UNCHANGED shipVars
    PROVE  MirrorSafe'
<1>1. /\ clock # "old" /\ ~disk'[s].damaged
      /\ open'[r] = open[r] \union {s}
      /\ \A x \in Recorders \ {r} : open'[x] = open[x]
      /\ \A t \in Streams \ {s} : disk'[t] = disk[t]
    BY OpenOwnership
<1>2. /\ UNCHANGED <<clock, pass, repairs, mistaken, excused>>
      /\ disturbed' = IF disk[s] = NoPair THEN disturbed ELSE disturbed \union {s}
    BY DEF OpenPair, repairVars
<1> SUFFICES ASSUME NEW t \in Streams, Ordinary(t)'
             PROVE  PassesPassBy(t)' /\ CopiedFirst(t)'
    BY DEF MirrorSafe
<1>3. PassesPassBy(t) /\ CopiedFirst(t)
    BY <1>2 DEF MirrorSafe, Ordinary
<1>4. CASE t # s
    <2>1. Finished(t) => Finished(t)'
        BY <1>1, <1>2, <1>4 DEF Finished, Writers
    <2> QED BY <1>1, <1>2, <1>3, <1>4, <2>1, MirrorStays DEF PassesPassBy
<1>5. CASE t = s
    <2>1. ~Finished(s)
        BY <1>1, <1>2, <1>5 DEF Finished, Ordinary
    <2>2. PassesPassBy(t)'
        BY <1>1, <1>2, <1>3, <1>5, <2>1 DEF PassesPassBy
    <2>3. CopiedFirst(t)'
        BY <1>3, <1>5, <2>1 DEF CopiedFirst, shipVars
    <2> QED BY <2>2, <2>3
<1> QED BY <1>4, <1>5

LEMMA KillMirror ==
    ASSUME ClaimsTyped, Ownership, MirrorSafe, NEW r \in Recorders, KillRecorder(r),
           UNCHANGED shipVars
    PROVE  MirrorSafe'
<1>1. /\ UNCHANGED <<clock, pass, repairs, mistaken, excused>>
      /\ open' = [open EXCEPT ![r] = {}] /\ disturbed' = disturbed \union open[r]
    BY DEF KillRecorder, repairVars
<1>2. \A s \in Streams \ open[r] : disk'[s] = disk[s]
    BY KillOwnership
<1> SUFFICES ASSUME NEW s \in Streams, Ordinary(s)'
             PROVE  PassesPassBy(s)' /\ CopiedFirst(s)'
    BY DEF MirrorSafe
<1>3. PassesPassBy(s) /\ CopiedFirst(s) /\ s \notin open[r]
    BY <1>1 DEF MirrorSafe, Ordinary
<1>4. Finished(s) => Finished(s)'
    BY <1>1, <1>2, <1>3 DEF Finished, Writers, ClaimsTyped
<1> QED BY <1>1, <1>2, <1>3, <1>4, MirrorStays DEF PassesPassBy

(* A step of q that leaves the ordinary pairs alone.                       *)
LEMMA PassMirror ==
    ASSUME MirrorSafe, NEW q \in Passes, RecordersIdle, UNCHANGED shipVars,
           excused \subseteq excused',
           \A x \in Passes \ {q} : pass'[x] = pass[x],
           \A s \in Streams : Ordinary(s) =>
               /\ disk'[s] = disk[s] /\ repairs'[s] = repairs[s] /\ s \notin mistaken'
               /\ pass'[q] # Nobody /\ pass'[q].stream = s =>
                      pass'[q].step \in {"drop", "look"} /\ Finished(s)
    PROVE  MirrorSafe'
<1> SUFFICES ASSUME NEW s \in Streams, Ordinary(s)'
             PROVE  PassesPassBy(s)' /\ CopiedFirst(s)'
    BY DEF MirrorSafe
<1>1. Ordinary(s) /\ PassesPassBy(s) /\ CopiedFirst(s)
    BY DEF Ordinary, RecordersIdle, MirrorSafe
<1>2. Finished(s)' <=> Finished(s)
    BY <1>1 DEF Finished, Writers, RecordersIdle
<1>3. PassesPassBy(s)'
    BY <1>1, <1>2 DEF PassesPassBy
<1>4. CopiedFirst(s)'
    BY <1>1, <1>2 DEF CopiedFirst, shipVars
<1> QED BY <1>3, <1>4

(* A pass that finds a pair damaged, and goes on, is not at an ordinary one.*)
LEMMA PassedBy ==
    ASSUME MirrorSafe, NEW q \in Passes, NEW s \in Streams, pass[q] # Nobody,
           pass[q].stream = s,
           \/ pass[q].step \notin {"drop", "look"}
           \/ disk[s].damaged \/ Writers(s) # {}
    PROVE  ~Ordinary(s)
BY DEF MirrorSafe, PassesPassBy, Finished

LEMMA RepairingMirror ==
    ASSUME ClaimsTyped, Ownership, MirrorSafe, NEW q \in Passes, Repairing(q),
           UNCHANGED shipVars
    PROVE  MirrorSafe'
<1>0. \A s \in Streams : Ordinary(s) => repairs[s] = 0 /\ s \notin mistaken
    BY DEF MirrorSafe, PassesPassBy
<1>1. pass[q] # Nobody /\ pass[q].stream \in Streams
    BY DEF Repairing, DropMarker, FindHealthy, FindDamaged, CheckHeld, Salvage, Replace,
           PassAt, ClaimsTyped, Visit
<1>2. PICK s \in Streams : s = pass[q].stream
    BY <1>1
<1>3. CASE DropMarker(q)
    <2>1. Ordinary(s) => Finished(s)
        BY <1>1, <1>2 DEF MirrorSafe, PassesPassBy
    <2> QED BY <1>0, <1>2, <1>3, <2>1, DropStep, PassMirror DEF PassBecomes, VisitAt
<1>4. CASE FindHealthy(q)
    BY <1>0, <1>4, FindHealthyStep, PassMirror DEF PassBecomes
<1>5. CASE FindDamaged(q)
    <2>1. ~Ordinary(s)
        BY <1>2, <1>5, FindDamagedStep, PassedBy
    <2> QED BY <1>0, <1>2, <1>5, <2>1, FindDamagedStep, PassMirror DEF PassBecomes, VisitAt
<1>6. CASE CheckHeld(q)
    <2>1. ~Ordinary(s)
        BY <1>2, <1>6, CheckStep, PassedBy
    <2>2. /\ RecordersIdle /\ UNCHANGED <<disk, repairs, excused>>
          /\ mistaken' \subseteq mistaken \union {s}
          /\ \A x \in Passes \ {q} : pass'[x] = pass[x]
          /\ (pass'[q] # Nobody => pass'[q].stream = s)
        BY <1>2, <1>6, CheckStep DEF PassBecomes, VisitAt
    <2>3. ASSUME NEW t \in Streams, Ordinary(t)
          PROVE  /\ disk'[t] = disk[t] /\ repairs'[t] = repairs[t] /\ t \notin mistaken'
                 /\ ~(pass'[q] # Nobody /\ pass'[q].stream = t)
        <3>1. t # s
            BY <2>1, <2>3
        <3> QED BY <1>0, <2>2, <2>3, <3>1
    <2>4. excused \subseteq excused' /\ RecordersIdle
        BY <2>2
    <2> QED BY <2>2, <2>3, <2>4, PassMirror
<1>7. CASE Salvage(q)
    <2>1. ~Ordinary(s)
        BY <1>2, <1>7, SalvageStep, PassedBy
    <2> QED BY <1>0, <1>2, <1>7, <2>1, SalvageStep, PassMirror DEF PassBecomes, VisitAt
<1>8. CASE Replace(q)
    <2>1. ~Ordinary(s)
        BY <1>2, <1>8, ReplaceStep, PassedBy
    <2> QED BY <1>0, <1>2, <1>8, <2>1, ReplaceStep, PassMirror DEF PassBecomes
<1> QED BY <1>3, <1>4, <1>5, <1>6, <1>7, <1>8 DEF Repairing

LEMMA VisitMirror ==
    ASSUME ClaimsTyped, Ownership, MirrorSafe, NEW q \in Passes, NEW s \in Streams,
           VisitPair(q, s), UNCHANGED shipVars
    PROVE  MirrorSafe'
<1>0. \A t \in Streams : Ordinary(t) => repairs[t] = 0 /\ t \notin mistaken
    BY DEF MirrorSafe, PassesPassBy
<1>1. RecordersIdle /\ UNCHANGED <<disk, repairs, mistaken, excused>>
    BY VisitStep
<1>2. CASE pass' = pass
    BY <1>0, <1>1, <1>2, PassMirror DEF MirrorSafe, PassesPassBy
<1>3. CASE pass' # pass
    <2>1. /\ PassBecomes(q, pass'[q]) /\ VisitAt(pass'[q], s, "drop")
          /\ disk[s] # NoPair /\ Dead(marker[s])
        BY <1>3, VisitStep
    <2>2. Ordinary(s) => Finished(s)
        BY <2>1, DeadUnwritten DEF Ordinary, Finished
    <2> QED BY <1>0, <1>1, <2>1, <2>2, PassMirror DEF PassBecomes, VisitAt
<1> QED BY <1>2, <1>3

LEMMA CopyMirror ==
    ASSUME ClaimsTyped, MirrorSafe, NEW s \in Streams, Copy(s),
           bucket \in [Streams -> Pair]
    PROVE  MirrorSafe'
<1>1. /\ UNCHANGED <<claimsVars, shipper, deleted>> /\ shipper = "copying" /\ s \in todo
      /\ todo' = todo \ {s}
      /\ bucket' = IF bucket[s] # NoPair \/ disk[s] = NoPair THEN bucket
                   ELSE [bucket EXCEPT ![s] =
                            [disk[s] EXCEPT !.damaged = @ \/ Writers(s) # {}]]
    BY DEF Copy
<1>2. UNCHANGED <<clock, disk, open, pass, repairs, mistaken, excused, disturbed>>
    BY <1>1 DEF claimsVars, recorderVars, repairVars
<1> SUFFICES ASSUME NEW t \in Streams, Ordinary(t)
             PROVE  PassesPassBy(t)' /\ CopiedFirst(t)'
    BY <1>2 DEF MirrorSafe, Ordinary
<1>3. PassesPassBy(t) /\ CopiedFirst(t)
    BY DEF MirrorSafe
<1>4. Finished(t)' <=> Finished(t)
    BY <1>2 DEF Finished, Writers
<1>5. PassesPassBy(t)'
    BY <1>2, <1>3, <1>4 DEF PassesPassBy
<1>6. bucket'[t] = bucket[t] \/ (bucket[t] = NoPair /\ bucket'[t] = disk[t] /\ Finished(t))
    <2>1. CASE t # s \/ bucket[s] # NoPair \/ disk[s] = NoPair
        BY <1>1, <2>1
    <2>2. CASE t = s /\ bucket[s] = NoPair /\ disk[s] # NoPair
        <3>1. bucket'[s] = [disk[s] EXCEPT !.damaged = @ \/ Writers(s) # {}]
            BY <1>1, <2>2
        <3>2. Finished(s) /\ Writers(s) = {} /\ ~disk[s].damaged
            BY <1>1, <1>3, <2>2 DEF CopiedFirst, Finished, PassesPassBy
        <3>3. disk[s] \in Pair
            BY DEF ClaimsTyped
        <3>4. disk[s].damaged = FALSE /\ disk[s] = [frames |-> disk[s].frames, damaged |-> FALSE]
            BY <3>2, <3>3 DEF Pair
        <3>5. [disk[s] EXCEPT !.damaged = @ \/ Writers(s) # {}]
                    = [frames |-> disk[s].frames, damaged |-> FALSE]
            BY <3>2, <3>4
        <3> QED BY <2>2, <3>1, <3>2, <3>4, <3>5
    <2> QED BY <2>1, <2>2
<1>7. CopiedFirst(t)'
    BY <1>1, <1>2, <1>3, <1>4, <1>6 DEF CopiedFirst
<1> QED BY <1>5, <1>7

LEMMA EvictMirror ==
    ASSUME ClaimsTyped, Ownership, MirrorSafe, NEW s \in Streams, Evict(s), clock = "old",
           deleted \in [Streams -> Pair]
    PROVE  MirrorSafe'
<1>1. /\ UNCHANGED <<clock, open, pass, repairs, mistaken, excused, disturbed, bucket, shipper>>
      /\ shipper = "deleting" /\ s \in todo /\ todo' = todo \ {s}
    BY DEF Evict, recorderVars, repairVars
<1>2. \/ UNCHANGED <<disk, deleted>>
      \/ /\ disk[s] # NoPair /\ disk' = [disk EXCEPT ![s] = NoPair]
         /\ deleted' = [deleted EXCEPT ![s] = disk[s]]
    BY DEF Evict, Complete
<1> SUFFICES ASSUME NEW t \in Streams, Ordinary(t)
             PROVE  PassesPassBy(t)' /\ CopiedFirst(t)'
    BY <1>1 DEF MirrorSafe, Ordinary
<1>3. PassesPassBy(t) /\ CopiedFirst(t)
    BY DEF MirrorSafe
<1>4. Finished(t) => Finished(t)'
    BY <1>1 DEF Finished, Writers
<1>5. CASE UNCHANGED <<disk, deleted>> \/ t # s
    <2>1. disk'[t] = disk[t] /\ deleted'[t] = deleted[t]
        BY <1>2, <1>5 DEF ClaimsTyped
    <2>2. PassesPassBy(t)'
        BY <1>1, <1>3, <1>4, <2>1 DEF PassesPassBy
    <2>3. CopiedFirst(t)'
        BY <1>1, <1>3, <1>4, <2>1 DEF CopiedFirst
    <2> QED BY <2>2, <2>3
<1>6. CASE t = s /\ disk[s] # NoPair /\ disk' = [disk EXCEPT ![s] = NoPair]
           /\ deleted' = [deleted EXCEPT ![s] = disk[s]]
    <2>1. disk'[s] = NoPair /\ deleted'[s] = disk[s]
        BY <1>6 DEF ClaimsTyped
    <2>2. bucket[s] = disk[s] /\ Finished(s)
        BY <1>1, <1>3, <1>6 DEF CopiedFirst
    <2>3. PassesPassBy(t)'
        BY <1>1, <1>3, <1>4, <1>6, <2>1 DEF PassesPassBy, NoPair
    <2>4. CopiedFirst(t)'
        BY <1>1, <1>3, <1>4, <1>6, <2>1, <2>2 DEF CopiedFirst
    <2> QED BY <2>3, <2>4
<1> QED BY <1>2, <1>5, <1>6

LEMMA ShipperMirror ==
    ASSUME ClaimsTyped, Ownership, MirrorSafe,
           BeginOffload \/ EndOffload \/ PlanEviction \/ EndEviction \/ CopyFails
    PROVE  MirrorSafe'
<1>1. UNCHANGED <<claimsVars, bucket, deleted>>
    BY DEF BeginOffload, EndOffload, PlanEviction, EndEviction, CopyFails
<1>2. UNCHANGED <<clock, disk, open, pass, repairs, mistaken, excused, disturbed>>
    BY <1>1 DEF claimsVars, recorderVars, repairVars
<1> SUFFICES ASSUME NEW s \in Streams, Ordinary(s)
             PROVE  PassesPassBy(s)' /\ CopiedFirst(s)'
    BY <1>2 DEF MirrorSafe, Ordinary
<1>3. PassesPassBy(s) /\ CopiedFirst(s)
    BY DEF MirrorSafe
<1>4. Finished(s)' <=> Finished(s)
    BY <1>2 DEF Finished, Writers
<1>5. PassesPassBy(s)'
    BY <1>2, <1>3, <1>4 DEF PassesPassBy
<1>6. shipper' = "copying" /\ s \in todo' => Finished(s)
    <2>1. CASE BeginOffload
        <3>1. s \in todo' => disk[s] # NoPair /\ marker[s] = Nobody
            BY <2>1 DEF BeginOffload, Complete
        <3>2. s \in todo' => Writers(s) = {}
            BY <3>1, DeadUnwritten DEF Dead, Ordinary
        <3> QED BY <3>1, <3>2 DEF Finished
    <2>2. CASE EndOffload \/ PlanEviction \/ EndEviction \/ CopyFails
        BY <2>2 DEF EndOffload, PlanEviction, EndEviction, CopyFails
    <2> QED BY <2>1, <2>2
<1>7. shipper' = "deleting" /\ s \in todo' => bucket[s] # NoPair
    BY DEF BeginOffload, EndOffload, PlanEviction, EndEviction, CopyFails, Evictable
<1>8. CopiedFirst(s)'
    BY <1>1, <1>2, <1>3, <1>4, <1>6, <1>7 DEF CopiedFirst
<1> QED BY <1>5, <1>8

-----------------------------------------------------------------------------
(* The inductive invariant.                                                *)

ClaimsInv == ClaimsTyped /\ Ownership /\ RepairsSafe /\ MirrorSafe

ArchiveInv ==
    /\ ClaimsInv
    /\ bucket \in [Streams -> Pair] /\ deleted \in [Streams -> Pair]
    /\ DeletesTheOld

LEMMA ArchiveInitInv == ArchiveInit => ArchiveInv
<1> SUFFICES ASSUME ArchiveInit PROVE ArchiveInv
    OBVIOUS
<1> USE DEF ArchiveInit, ClaimsInit, OffloadInit
<1>0. NoPair \in Pair /\ NoPair.damaged = FALSE
    BY ClaimsBoundsAssumption DEF NoPair, Pair
<1>1. ClaimsTyped
    BY <1>0 DEF ClaimsTyped
<1>2. RecordersSane /\ PassesSane
    BY DEF RecordersSane, PassesSane, Opening
<1>3. MarkersOwned /\ LiveMarkersHeld
    BY DEF MarkersOwned, Owned, Opening, LiveMarkersHeld, HeldMarker
<1>4. RepairsSafe
    BY <1>0 DEF RepairsSafe, DamagedUnwritten, RepairsFindNobody, Mending,
           RepairsLeaveWritersAlone
<1>5. MirrorSafe
    BY <1>0 DEF MirrorSafe, PassesPassBy, CopiedFirst
<1>6. DeletesTheOld
    BY DEF DeletesTheOld
<1> QED BY <1>0, <1>1, <1>2, <1>3, <1>4, <1>5, <1>6 DEF ArchiveInv, ClaimsInv, Ownership

LEMMA QuietSteps ==
    ASSUME NEW r \in Recorders, ClaimsTyped,
           \/ \E s \in Streams : StartClaim(r, s) \/ Settle(r, s)
           \/ CreateMarker(r) \/ Judge(r) \/ UnlinkStale(r) \/ NameMarker(r)
           \/ RefusePair(r) \/ MarkerFails(r) \/ StopRecorder(r) \/ StartRecorder(r)
    PROVE  Quiet
<1> USE DEF Quiet, repairVars
<1>1. ASSUME NEW s \in Streams, StartClaim(r, s) \/ Settle(r, s) PROVE Quiet
    <2>1. \E gone : open' = [open EXCEPT ![r] = @ \ gone]
        BY <1>1 DEF StartClaim, Settle, Closed
    <2> QED BY <1>1, <2>1 DEF StartClaim, Settle, ClaimsTyped
<1>2. CASE CreateMarker(r)
    BY <1>2 DEF CreateMarker
<1>3. CASE Judge(r) \/ NameMarker(r) \/ RefusePair(r)
    BY <1>3 DEF Judge, NameMarker, RefusePair
<1>4. CASE UnlinkStale(r)
    BY <1>4 DEF UnlinkStale, RemoveStale
<1>5. CASE MarkerFails(r)
    BY <1>5 DEF MarkerFails
<1>6. CASE StopRecorder(r)
    <2>1. open' = [open EXCEPT ![r] = @ \ open[r]]
        BY <1>6 DEF StopRecorder, Closed
    <2> QED BY <1>6, <2>1 DEF StopRecorder, ClaimsTyped
<1>7. CASE StartRecorder(r)
    BY <1>7 DEF StartRecorder
<1> QED BY <1>1, <1>2, <1>3, <1>4, <1>5, <1>6, <1>7

LEMMA RecorderStepInv ==
    ASSUME ClaimsInv, NEW r \in Recorders, RecorderStep(r, Streams), UNCHANGED shipVars
    PROVE  ClaimsInv'
<1> USE DEF ClaimsInv
<1>1. ASSUME NEW s \in Streams, WriteFrame(r, s) PROVE ClaimsInv'
    BY <1>1, WriteStep, WriteRepairs, WriteMirror
<1>2. ASSUME NEW s \in Streams, StartClaim(r, s) \/ Settle(r, s) PROVE ClaimsInv'
    BY <1>2, StartClaimOwnership, SettleOwnership, QuietSteps, QuietRepairs, QuietMirror
<1>3. CASE OpenPair(r)
    <2>1. claim[r] # Nobody
        BY <1>3 DEF OpenPair, At
    <2>2. PICK s \in Streams : s = claim[r].stream
        BY <2>1, ClaimType
    <2> QED BY <1>3, <2>2, OpenOwnership, OpenRepairs, OpenMirror
<1>4. CASE KillRecorder(r)
    BY <1>4, KillOwnership, KillRepairs, KillMirror
<1>5. CASE StopRecorder(r) \/ StartRecorder(r)
    BY <1>5, StopOwnership, StartOwnership, QuietSteps, QuietRepairs, QuietMirror
<1>6. CASE CreateMarker(r) \/ Judge(r) \/ UnlinkStale(r) \/ NameMarker(r) \/ RefusePair(r)
           \/ MarkerFails(r)
    <2>1. claim[r] # Nobody
        BY <1>6 DEF CreateMarker, Create, Judge, UnlinkStale, NameMarker, RefusePair,
               MarkerFails, At
    <2>2. PICK s \in Streams : s = claim[r].stream
        BY <2>1, ClaimType
    <2>3. ClaimsTyped' /\ Ownership'
        BY <1>6, <2>2, CreateOwnership, JudgeOwnership, UnlinkOwnership, NameOwnership,
           RefuseOwnership, MarkerFailsOwnership
    <2>4. RepairsSafe' /\ MirrorSafe'
        BY <1>6, QuietSteps, QuietRepairs, QuietMirror
    <2> QED BY <2>3, <2>4
<1> QED BY <1>1, <1>2, <1>3, <1>4, <1>5, <1>6 DEF RecorderStep, Claiming

LEMMA PassStepInv ==
    ASSUME ClaimsInv, NEW q \in Passes, PassStep(q, Streams), UNCHANGED shipVars
    PROVE  ClaimsInv'
<1> USE DEF ClaimsInv
<1>1. ASSUME NEW s \in Streams, VisitPair(q, s) PROVE ClaimsInv'
    <2>1. /\ ClaimsTyped' /\ Ownership' /\ RecordersIdle
          /\ UNCHANGED <<disk, beneath, repairs, mistaken, excused>>
          /\ \A x \in Passes \ {q} : pass'[x] = pass[x]
          /\ \A t \in Streams : Mending(q, t)' => Mending(q, t)
        BY <1>1, VisitStep DEF PassBecomes, VisitAt, Mending
    <2>2. RepairsSafe'
        BY <2>1, PassRepairs
    <2> QED BY <1>1, <2>1, <2>2, VisitMirror
<1>2. CASE Repairing(q)
    <2>1. pass[q] # Nobody /\ pass[q].stream \in Streams
        BY <1>2 DEF Repairing, DropMarker, FindHealthy, FindDamaged, CheckHeld, Salvage,
               Replace, PassAt, ClaimsTyped, Visit
    <2>2. PICK s \in Streams : s = pass[q].stream
        BY <2>1
    <2>3. MirrorSafe'
        BY <1>2, RepairingMirror
    <2>4. CASE Replace(q)
        BY <2>2, <2>3, <2>4, ReplaceStep, ReplaceRepairs
    <2>5. CASE DropMarker(q)
        <3>1. /\ ClaimsTyped' /\ Ownership' /\ RecordersIdle
              /\ UNCHANGED <<disk, beneath, repairs, mistaken>> /\ excused \subseteq excused'
              /\ \A x \in Passes \ {q} : pass'[x] = pass[x]
              /\ \A t \in Streams : Mending(q, t)' => Mending(q, t)
            BY <2>2, <2>5, DropStep DEF PassBecomes, VisitAt, Mending
        <3> QED BY <2>3, <3>1, PassRepairs
    <2>6. CASE FindHealthy(q)
        <3>1. /\ ClaimsTyped' /\ Ownership' /\ RecordersIdle
              /\ UNCHANGED <<disk, beneath, repairs, mistaken, excused>>
              /\ \A x \in Passes \ {q} : pass'[x] = pass[x]
              /\ \A t \in Streams : Mending(q, t)' => Mending(q, t)
            BY <2>6, FindHealthyStep DEF PassBecomes, Mending
        <3> QED BY <2>3, <3>1, PassRepairs
    <2>7. CASE FindDamaged(q)
        <3>1. /\ ClaimsTyped' /\ Ownership' /\ RecordersIdle
              /\ UNCHANGED <<disk, beneath, repairs, mistaken, excused>>
              /\ \A x \in Passes \ {q} : pass'[x] = pass[x]
              /\ \A t \in Streams : Mending(q, t)' => Mending(q, t)
            BY <2>2, <2>7, FindDamagedStep DEF PassBecomes, VisitAt, Mending
        <3> QED BY <2>3, <3>1, PassRepairs
    <2>8. CASE CheckHeld(q)
        <3>1. /\ ClaimsTyped' /\ Ownership' /\ RecordersIdle
              /\ UNCHANGED <<disk, beneath, repairs, excused>>
              /\ mistaken \subseteq mistaken'
              /\ \A x \in Passes \ {q} : pass'[x] = pass[x]
              /\ \A t \in Streams : Mending(q, t)' => t = s /\ (disk[s].damaged \/ s \in mistaken')
            BY <2>2, <2>8, CheckStep DEF PassBecomes, VisitAt, Mending
        <3>2. \A t \in Streams : Mending(q, t)' => Unwritten(t)'
            BY <3>1 DEF Unwritten, Spared
        <3> QED BY <2>3, <3>1, <3>2, PassRepairs
    <2>9. CASE Salvage(q)
        <3>1. /\ ClaimsTyped' /\ Ownership' /\ RecordersIdle
              /\ UNCHANGED <<disk, beneath, repairs, mistaken, excused>>
              /\ \A x \in Passes \ {q} : pass'[x] = pass[x]
              /\ \A t \in Streams : Mending(q, t)' => Mending(q, t)
            BY <2>2, <2>9, SalvageStep DEF PassBecomes, VisitAt, Mending
        <3> QED BY <2>3, <3>1, PassRepairs
    <2> QED BY <1>2, <2>4, <2>5, <2>6, <2>7, <2>8, <2>9 DEF Repairing
<1> QED BY <1>1, <1>2 DEF PassStep

LEMMA TimeInv ==
    ASSUME ClaimsInv, TimePasses, UNCHANGED shipVars
    PROVE  ClaimsInv' /\ (clock = "old" => clock' = "old")
<1>1. Quiet
    BY DEF TimePasses, Quiet, repairVars, recorderVars
<1> QED BY <1>1, TimeOwnership, QuietRepairs, QuietMirror DEF ClaimsInv, TimePasses

LEMMA IdleInv ==
    ASSUME ClaimsInv, UNCHANGED claimsVars
    PROVE  ClaimsTyped' /\ Ownership' /\ RepairsSafe'
<1>1. Quiet
    BY DEF claimsVars, Quiet, repairVars, recorderVars
<1>2. ClaimsTyped' /\ Ownership'
    BY IdleOwnership DEF claimsVars, repairVars, recorderVars, ClaimsInv, ClaimsTyped,
       Ownership, PassesSane
<1> QED BY <1>1, <1>2, QuietRepairs DEF ClaimsInv

LEMMA ShipStepInv ==
    ASSUME ArchiveInv, Ship \/ CopyFails
    PROVE  ArchiveInv'
<1> USE DEF ArchiveInv, ClaimsInv
<1>1. ASSUME NEW s \in Streams, Copy(s) PROVE ArchiveInv'
    <2>1. UNCHANGED <<claimsVars, shipper, deleted>> /\ shipper = "copying"
        BY <1>1 DEF Copy
    <2>2. bucket' \in [Streams -> Pair]
        <3>1. [disk[s] EXCEPT !.damaged = @ \/ Writers(s) # {}] \in Pair
            BY ZenonT(60) DEF ClaimsTyped, Pair
        <3> QED BY <1>1, <3>1 DEF Copy
    <2>3. DeletesTheOld'
        BY <2>1 DEF DeletesTheOld
    <2> QED BY <1>1, <2>1, <2>2, <2>3, IdleInv, CopyMirror
<1>2. ASSUME NEW s \in Streams, Evict(s) PROVE ArchiveInv'
    <2>1. clock = "old" /\ clock' = clock /\ todo' \subseteq todo
        BY <1>2 DEF Evict, DeletesTheOld
    <2>2. deleted' \in [Streams -> Pair] /\ bucket' = bucket
        BY <1>2 DEF Evict, ClaimsTyped
    <2> QED BY <1>2, <2>1, <2>2, EvictStep, EvictRepairs, EvictMirror DEF DeletesTheOld
<1>3. CASE BeginOffload \/ EndOffload \/ PlanEviction \/ EndEviction \/ CopyFails
    <2>1. UNCHANGED <<claimsVars, bucket, deleted>>
        BY <1>3 DEF BeginOffload, EndOffload, PlanEviction, EndEviction, CopyFails
    <2>2. DeletesTheOld'
        <3>1. CASE PlanEviction
            <4>1. todo' # {} => clock = "old"
                BY <3>1 DEF PlanEviction, Evictable
            <4> QED BY <2>1, <4>1 DEF DeletesTheOld, claimsVars
        <3>2. CASE ~PlanEviction
            <4>1. shipper' # "deleting"
                BY <1>3, <3>2 DEF BeginOffload, EndOffload, EndEviction, CopyFails
            <4> QED BY <4>1 DEF DeletesTheOld
        <3> QED BY <3>1, <3>2
    <2> QED BY <1>3, <2>1, <2>2, IdleInv, ShipperMirror
<1> QED BY <1>1, <1>2, <1>3 DEF Ship

LEMMA ArchiveStepInv == ArchiveInv /\ [ArchiveNext]_archiveVars => ArchiveInv'
<1> SUFFICES ASSUME ArchiveInv, [ArchiveNext]_archiveVars PROVE ArchiveInv'
    OBVIOUS
<1> USE DEF ArchiveInv
<1>1. CASE ClaimsNext /\ UNCHANGED shipVars
    <2>1. ClaimsInv' /\ (clock = "old" => clock' = "old")
        <3>1. ASSUME NEW r \in Recorders, RecorderStep(r, Streams)
              PROVE  ClaimsInv' /\ clock' = clock
            <4>1. ClaimsInv'
                BY <1>1, <3>1, RecorderStepInv
            <4>2. clock' = clock
                BY <3>1 DEF RecorderStep, Claiming, WriteFrame, StartClaim, Settle, CreateMarker,
                   Judge, UnlinkStale, NameMarker, OpenPair, RefusePair, MarkerFails,
                   StopRecorder, KillRecorder, StartRecorder
            <4> QED BY <4>1, <4>2
        <3>2. ASSUME NEW q \in Passes, PassStep(q, Streams)
              PROVE  ClaimsInv' /\ clock' = clock
            <4>1. ClaimsInv'
                BY <1>1, <3>2, PassStepInv
            <4>2. clock' = clock
                BY <3>2 DEF PassStep, Repairing, VisitPair, DropMarker, FindHealthy, FindDamaged,
                   CheckHeld, Salvage, Replace, NotByPass
            <4> QED BY <4>1, <4>2
        <3> QED BY <1>1, <3>1, <3>2, TimeInv DEF ClaimsNext, ClaimsStep
    <2> QED BY <1>1, <2>1 DEF shipVars, DeletesTheOld
<1>2. CASE Ship \/ CopyFails
    BY <1>2, ShipStepInv
<1>3. CASE UNCHANGED archiveVars
    <2>1. ClaimsTyped' /\ Ownership' /\ RepairsSafe' /\ UNCHANGED shipVars
        BY <1>3, IdleInv DEF archiveVars, ClaimsInv
    <2>2. Quiet
        BY <1>3 DEF archiveVars, claimsVars, Quiet, repairVars, recorderVars
    <2>3. MirrorSafe'
        BY <2>1, <2>2, QuietMirror DEF ClaimsInv
    <2>4. DeletesTheOld' /\ UNCHANGED <<bucket, deleted>>
        BY <1>3 DEF archiveVars, claimsVars, shipVars, DeletesTheOld
    <2> QED BY <2>1, <2>3, <2>4 DEF ClaimsInv
<1> QED BY <1>1, <1>2, <1>3 DEF ArchiveNext

LEMMA ArchiveInvHolds == ArchiveSpec => []ArchiveInv
BY ArchiveInitInv, ArchiveStepInv, PTL DEF ArchiveSpec

-----------------------------------------------------------------------------
(* What the invariant says.                                                *)

LEMMA HeldMarkers == ClaimsTyped /\ LiveMarkersHeld => MarkersAreHeld
<1> SUFFICES ASSUME ClaimsTyped, LiveMarkersHeld, NEW s \in Streams,
                    marker[s] # Nobody, marker[s].alive, NEW r, r = marker[s].owner
             PROVE  s \in open[r] \/ (claim[r] # Nobody /\ claim[r].stream = s)
    BY DEF MarkersAreHeld
<1>1. Holds(r, s)
    BY DEF LiveMarkersHeld, HeldMarker
<1> QED BY <1>1 DEF Holds, Opening

LEMMA SingleWriter == ClaimsTyped /\ Ownership => OneWriterPerHour
<1> SUFFICES ASSUME ClaimsTyped, Ownership, NEW s \in Streams, s \notin excused
             PROVE  ~(Cardinality(Writers(s)) > 1)
    BY DEF OneWriterPerHour
<1>1. CASE Writers(s) = {}
    BY <1>1, FS_EmptySet
<1>2. CASE Writers(s) # {}
    <2>1. PICK r \in Writers(s) : TRUE
        BY <1>2
    <2>2. Writers(s) = {r}
        BY <2>1, OnlyOwnerWrites
    <2>3. Cardinality({r}) = 1
        BY FS_Singleton
    <2> QED BY <2>2, <2>3
<1> QED BY <1>1, <1>2

LEMMA OrdinaryMirrored == MirrorSafe => OrdinaryHoursAreMirrored
BY DEF MirrorSafe, CopiedFirst, Ordinary, OrdinaryHoursAreMirrored

(* A live marker beside a pair is the marker of a recorder that has the    *)
(* pair open or is opening it, whatever recorders die between two steps of *)
(* a claim and whatever passes clear (raw_writer.py, _claim_hour_or_refuse,*)
(* _release_claim, close).                                                 *)
THEOREM MarkersHeld == ArchiveSpec => []MarkersAreHeld
<1>1. ArchiveInv => MarkersAreHeld
    BY HeldMarkers DEF ArchiveInv, ClaimsInv, Ownership
<1> QED BY <1>1, ArchiveInvHolds, PTL

(* No two recorders have an hour open, and no repair replaces the files    *)
(* beneath the one that has, but for the exceptions the properties name:   *)
(* for any number of recorders, passes and streams (raw_writer.py,         *)
(* reconcile_pair).                                                        *)
THEOREM WritersAlone == ArchiveSpec => []WritersAreAlone
<1>1. ArchiveInv => WritersAreAlone
    BY SingleWriter DEF ArchiveInv, ClaimsInv, RepairsSafe, WritersAreAlone
<1> QED BY <1>1, ArchiveInvHolds, PTL

(* A pair opened once, with a marker that stayed its own, and closed in    *)
(* order is in the bucket as it was when it was deleted from local disk:   *)
(* for any interleaving of the shipping with the recorders and the repairs *)
(* (offload_to_gcs.sh, raw_eviction.py).                                   *)
THEOREM OrdinaryHoursMirrored == ArchiveSpec => []OrdinaryHoursAreMirrored
<1>1. ArchiveInv => OrdinaryHoursAreMirrored
    BY OrdinaryMirrored DEF ArchiveInv, ClaimsInv
<1> QED BY <1>1, ArchiveInvHolds, PTL

-----------------------------------------------------------------------------
(* The hour under kills alone, as MCProgress plays it: the theorems of     *)
(* RawHourProofs, for the constants of that scene.                         *)
MildHour == INSTANCE RawHourProofs WITH Faults <- {"kill"}, BlockFills <- FALSE, MaxFrames <- 4

MildInv == scene = "hour" => MildHour!IInv /\ MildHour!IndexBehind

LEMMA MildAssumptions ==
    /\ MildHour!FaultsAssumption /\ MildHour!BlockFillsAssumption
    /\ MildHour!BoundsAssumption /\ MildHour!SentinelAssumption
BY BoundsAssumption, SentinelAssumption
   DEF MildHour!FaultsAssumption, MildHour!BlockFillsAssumption,
       MildHour!BoundsAssumption, MildHour!SentinelAssumption

LEMMA MildBegins == Init => MildHour!IInv /\ MildHour!IndexBehind
<1>1. Init => MildHour!Init
    BY SMTT(60) DEF Init, NewFile, MildHour!Init, MildHour!NewFile
<1> QED BY <1>1, MildAssumptions, MildHour!InitIInv, MildHour!InitBehind

LEMMA MildStep == Mild!Next => MildHour!Next
BY DEF Mild!NewFile, MildHour!NewFile, Mild!Spill, MildHour!Spill,
       Mild!Boundary, MildHour!Boundary, Mild!Synced, MildHour!Synced,
       Mild!WholeLines, MildHour!WholeLines, Mild!Taken, MildHour!Taken,
       Mild!Left, MildHour!Left, Mild!Survivors, MildHour!Survivors,
       Mild!Rewritten, MildHour!Rewritten, Mild!Appendable,
       MildHour!Appendable, Mild!Unrepairable, MildHour!Unrepairable,
       Mild!EntryFor, MildHour!EntryFor, Mild!RebuiltIndex,
       MildHour!RebuiltIndex, Mild!NothingToRepair,
       MildHour!NothingToRepair, Mild!RepairSkips, MildHour!RepairSkips,
       Mild!RepairIndex, MildHour!RepairIndex, Mild!RepairRaw,
       MildHour!RepairRaw, Mild!Remembered, MildHour!Remembered,
       Mild!ResumePosition, MildHour!ResumePosition, Mild!Accepts,
       MildHour!Accepts, Mild!Position, MildHour!Position, Mild!RawTakes,
       MildHour!RawTakes, Mild!IdxTakes, MildHour!IdxTakes,
       Mild!AppendFrame, MildHour!AppendFrame, Mild!AppendFails,
       MildHour!AppendFails, Mild!Refuse, MildHour!Refuse,
       Mild!RawWriteStarts, MildHour!RawWriteStarts, Mild!RawWriteEnds,
       MildHour!RawWriteEnds, Mild!RawSyncs, MildHour!RawSyncs,
       Mild!IdxWriteStarts, MildHour!IdxWriteStarts, Mild!IdxWriteEnds,
       MildHour!IdxWriteEnds, Mild!After, MildHour!After, Mild!IdxSyncs,
       MildHour!IdxSyncs, Mild!BoundaryFails, MildHour!BoundaryFails,
       Mild!BrokenCloseEnds, MildHour!BrokenCloseEnds, Mild!ProcessEnds,
       MildHour!ProcessEnds, Mild!Stop, MildHour!Stop, Mild!Kill,
       MildHour!Kill, Mild!PowerLoss, MildHour!PowerLoss, Mild!Next,
       MildHour!Next, Mild!IsOpen, MildHour!IsOpen, Mild!files,
       MildHour!files, Mild!bufs, MildHour!bufs

LEMMA MildKeeps ==
    MildHour!IInv /\ MildHour!IndexBehind /\ (Mild!Next \/ UNCHANGED vars)
        => MildHour!IInv' /\ MildHour!IndexBehind'
<1> SUFFICES ASSUME MildHour!IInv, MildHour!IndexBehind, Mild!Next \/ UNCHANGED vars
             PROVE  MildHour!IInv' /\ MildHour!IndexBehind'
    OBVIOUS
<1>1. [MildHour!Next]_(MildHour!vars)
    BY MildStep DEF vars, MildHour!vars
<1> QED BY <1>1, MildAssumptions, MildHour!NextIInv, MildHour!StepKeepsIndexBehind

(* Whatever kills leave of the hour, and however often the recorder, its   *)
(* repair and its boundaries are interrupted, reconcile_pair can repair it:*)
(* for any number of failures (raw_writer.py, reconcile_pair).             *)
THEOREM HourRepairable == ProgressSpec => []HourIsRepairable
<1>1. ProgressInit => MildInv
    BY MildBegins DEF ProgressInit, MildInv
<1>2. MildInv /\ [ProgressNext]_progressVars => MildInv'
    <2> SUFFICES ASSUME MildInv, [ProgressNext]_progressVars, scene' = "hour"
                 PROVE  MildHour!IInv' /\ MildHour!IndexBehind'
        BY DEF MildInv
    <2>1. scene = "hour" /\ (Mild!Next \/ UNCHANGED vars)
        <3>1. CASE ProgressNext
            BY <3>1 DEF ProgressNext, PlayHour, PlayMirror, PlayRetrain, PlayBots
        <3>2. CASE UNCHANGED progressVars
            BY <3>2 DEF progressVars
        <3> QED BY <3>1, <3>2
    <2> QED BY <2>1, MildKeeps DEF MildInv
<1>3. MildInv => HourIsRepairable
    <2>1. MildHour!IInv /\ MildHour!IndexBehind => MildHour!DamageIsRepairable
        BY MildAssumptions, MildHour!BehindIsRepairable
    <2>2. MildHour!DamageIsRepairable => DamageIsRepairable
        BY DEF DamageIsRepairable, Unrepairable, MildHour!DamageIsRepairable, MildHour!Unrepairable
    <2> QED BY <2>1, <2>2 DEF MildInv, HourIsRepairable
<1> QED BY <1>1, <1>2, <1>3, PTL DEF ProgressSpec
=============================================================================
