----------------------------- MODULE StatusWall -----------------------------
(***************************************************************************)
(* The boards (statuswall/cli.py, plan/cli.py, statuswall/segment_tiles.py,*)
(* statuswall/blotter_cli.py, capture/capture_console.py) and the loops    *)
(* that regenerate them (scripts/boards_supervisor.sh, run_console.sh), for*)
(* one tile at a time, any of WallTiles and PageTiles.  A pass probes      *)
(* while the evidence goes on changing, keeps the answers of a few probes  *)
(* for Ttl, and rewrites its pages in place; the reader's browser ages a   *)
(* page by the stamp on it.  A pass may be killed anywhere (the wall was,  *)
(* for its memory), a new loop does not know the passes of the one before, *)
(* and one pass may outlast the next.                                      *)
(***************************************************************************)
EXTENDS PageTiles, FiniteSets

CONSTANTS
    Boards,         \* what is looked at: a page, a tile of it, the passes at a time
    Ttl,            \* how long a kept answer is used (EXPENSIVE_TTL_S)
    StaleAfter,     \* the age at which a page says that it is stale
    MaxPass,        \* bound: the longest pass
    LastMoment,     \* bound: the last instant
    MaxSpoils       \* bound: how often a piece of evidence goes bad

ASSUME StatusWallAssumption ==
    {Ttl, StaleAfter, MaxPass, LastMoment, MaxSpoils} \subseteq Nat

(* Of the tiles, which WallTiles and PageTiles define: a probe returns the *)
(* best for no condition, nor when parts are missing.                      *)
TellsBest(tile) ==
    /\ Len(tile.asks) \in Nat /\ DOMAIN tile.asks = 1 .. Len(tile.asks)
    /\ tile.best # "none"
    /\ \A i \in DOMAIN tile.asks : \A c \in Conditions(tile.asks[i]) :
        /\ tile.asks[i][c] # tile.best
        /\ tile.asks[i][c] = Missing => tile.best \notin {PARTIAL, tile.none}

ASSUME TilesAssumption == \A look \in Boards : TellsBest(look.tile)

VARIABLES
    board,          \* the one of Boards that is looked at
    evidence,       \* what each piece of evidence is: "sound" or a condition
    spoiled,        \* when each piece was last sound, if it is not now
    moment,         \* the clock
    passing,        \* the passes, each at its step
    held,           \* the kept answer: probe-cache/<key>.json
    page,           \* the page as a reader would load it
    spoils          \* how often evidence went bad

wallVars == <<board, evidence, spoiled, moment, passing, held, page, spoils>>

-----------------------------------------------------------------------------
(* What the pages show: statuswall.cli writes the wall and the progress of *)
(* the build from one measuring, plan.cli measures for each of its two.    *)
TilesOf(of) ==
    CASE of = "status-wall" -> PROBES \union SYSTEM_TILES
      [] of = "build-progress" -> PROBES \union PROGRESS_TILES
      [] of \in {"plan", "rulings"} -> SEGMENT_PROBES \union RULING_PROBES
      [] of = "segment-bots" -> SEGMENT_TILES
      [] of = "blotter" -> BLOTTER_TILES
      [] of = "console" -> CONSOLE_TILES

Pages == {"status-wall", "build-progress", "plan", "rulings", "segment-bots", "blotter", "console"}

Passes == board.passes
Asks == DOMAIN board.tile.asks
Ask(i) == board.tile.asks[i]
IsMeasuredBySystem == board.page \in {"status-wall", "build-progress"}
IsKept == IsMeasuredBySystem /\ board.tile \in KeptTiles

NoAnswer == [state |-> "none", at |-> 0]
Idle == [step |-> "idle", known |-> FALSE, began |-> 0, saw |-> <<>>, state |-> "none", at |-> 0]

WallTypeOK ==
    /\ board \in Boards /\ board.page \in Pages /\ board.tile \in TilesOf(board.page)
    /\ \A i \in Asks : evidence[i] \in {"sound"} \union Conditions(Ask(i))
    /\ spoiled \in [Asks -> 0..LastMoment] /\ moment \in 0..LastMoment
    /\ \A p \in Passes : passing[p].step \in {"idle", "probe", "keep", "open", "fill"}
    /\ spoils \in 0..MaxSpoils

WallInit ==
    /\ board \in Boards
    /\ evidence = [i \in Asks |-> "sound"] /\ spoiled = [i \in Asks |-> 0]
    /\ moment = 0
    /\ passing = [p \in Passes |-> Idle]
    /\ held = NoAnswer /\ page = NoAnswer
    /\ spoils = 0

-----------------------------------------------------------------------------
(* The world: time passes, evidence goes bad.                              *)
MomentPasses ==
    /\ moment < LastMoment
    /\ \A p \in Passes : passing[p].step # "idle" => moment - passing[p].began < MaxPass
    /\ moment' = moment + 1
    /\ UNCHANGED <<board, evidence, spoiled, passing, held, page, spoils>>

Spoil(i) ==
    /\ spoils < MaxSpoils /\ evidence[i] = "sound"
    /\ \E c \in Conditions(Ask(i)) : evidence' = [evidence EXCEPT ![i] = c]
    /\ spoiled' = [spoiled EXCEPT ![i] = moment]
    /\ spoils' = spoils + 1
    /\ UNCHANGED <<board, moment, passing, held, page>>

-----------------------------------------------------------------------------
(* The verdict of a probe on what it saw (the returns of every probe, and  *)
(* _fraction): the first finding that settles it; with parts missing and   *)
(* nothing else, how many are; with no finding, the best.  An exception    *)
(* that the probe lets through is FAILING (assess).                        *)
Finding(saw, i) == IF saw[i] = "sound" THEN Pass ELSE Ask(i)[saw[i]]
Settles(saw, i) == Finding(saw, i) \notin {Pass, Missing}

VerdictOfAny(saw) ==
    LET settling == {i \in DOMAIN saw : Settles(saw, i)}
    IN  IF settling # {}
        THEN Finding(saw, CHOOSE i \in settling : \A j \in settling : i <= j)
        ELSE IF \E i \in DOMAIN saw : saw[i] = "sound" THEN board.tile.best ELSE board.tile.none

Verdict(saw) ==
    LET seen == DOMAIN saw
        settling == {i \in seen : Settles(saw, i)}
        missing == {i \in seen : Finding(saw, i) = Missing}
        counted == {i \in seen :
                        saw[i] = "sound" /\ \E c \in Conditions(Ask(i)) : Ask(i)[c] = Missing}
    IN  IF settling # {}
        THEN Finding(saw, CHOOSE i \in settling : \A j \in settling : i <= j)
        ELSE IF missing = {} THEN board.tile.best
        ELSE IF counted = {} THEN board.tile.none ELSE PARTIAL

Raised(saw) == \E i \in DOMAIN saw : saw[i] = "torn" /\ Finding(saw, i) = FAILING

(* What measure_system takes at the start of a pass.                       *)
IsFact(i) == IsMeasuredBySystem /\ Ask(i).of \in Facts

At(p, step) == passing[p].step = step
Moves(p, to) == passing' = [passing EXCEPT ![p] = to]

(* The loop starts a pass when the one it knows of is over; a loop started *)
(* anew knows of none (boards_supervisor.sh).                              *)
Launch(p) ==
    /\ At(p, "idle") /\ \A q \in Passes : ~passing[q].known
    /\ Moves(p, [Idle EXCEPT !.step = "probe", !.known = TRUE, !.began = moment,
                             !.saw = [i \in {k \in Asks : IsFact(k)} |-> evidence[i]],
                             !.at = moment])
    /\ UNCHANGED <<board, evidence, spoiled, moment, held, page, spoils>>

LoopRestarts ==
    /\ \E p \in Passes : passing[p].known
    /\ passing' = [p \in Passes |-> [passing[p] EXCEPT !.known = FALSE]]
    /\ UNCHANGED <<board, evidence, spoiled, moment, held, page, spoils>>

(* measured_periodically: an answer that is young enough is shown again.   *)
KeptForever == IsKept /\ held # NoAnswer
KeptIsUsable == IsKept /\ held # NoAnswer /\ moment - held.at < Ttl

UseKept(p) ==
    /\ At(p, "probe") /\ passing[p].saw = <<>> /\ KeptIsUsable
    /\ Moves(p, [passing[p] EXCEPT !.step = "open", !.state = held.state])
    /\ UNCHANGED <<board, evidence, spoiled, moment, held, page, spoils>>

(* The probe reads the next piece; a finding that settles ends it.         *)
AskNext(p) ==
    LET saw == passing[p].saw
        left == Asks \ DOMAIN saw
        i == CHOOSE k \in left : \A j \in left : k <= j
    IN  /\ At(p, "probe") /\ left # {} /\ \A k \in DOMAIN saw : ~Settles(saw, k)
        /\ saw = <<>> => ~KeptIsUsable
        /\ Moves(p, [passing[p] EXCEPT
                        !.saw = [k \in {i} \union DOMAIN @ |-> IF k = i THEN evidence[i] ELSE @[k]]])
        /\ UNCHANGED <<board, evidence, spoiled, moment, held, page, spoils>>

(* The pass knows the tile.  The plan and the console are stamped then; the*)
(* wall and the segment board bear the start of their pass, and the rulings*)
(* the time before their measuring; of the blotter's two writers one stamps*)
(* before it reads and one after.                                          *)
Stamps(p) ==
    (IF board.page \in {"plan", "console", "blotter"} THEN {moment} ELSE {})
        \union (IF board.page \in {"plan", "console"} THEN {} ELSE {passing[p].at})

Judge(p) ==
    LET saw == passing[p].saw
    IN  /\ At(p, "probe")
        /\ DOMAIN saw = Asks \/ \E k \in DOMAIN saw : Settles(saw, k)
        /\ \E stamp \in Stamps(p) :
              Moves(p, [passing[p] EXCEPT
                          !.step = IF IsKept /\ ~Raised(saw) THEN "keep" ELSE "open",
                          !.state = Verdict(saw), !.saw = <<>>, !.at = stamp])
        /\ UNCHANGED <<board, evidence, spoiled, moment, held, page, spoils>>

(* Only an answer that was measured is kept; the file may not be writable. *)
Keep(p) ==
    /\ At(p, "keep")
    /\ Moves(p, [passing[p] EXCEPT !.step = "open"])
    /\ held' \in {held, [state |-> passing[p].state, at |-> moment]}
    /\ UNCHANGED <<board, evidence, spoiled, moment, page, spoils>>

(* write_text: the page is empty before it is full; the console's page is  *)
(* written beside and put in its place.  The progress of the build bears   *)
(* the time of its writing.                                                *)
OpenPageStamped(p) ==
    /\ At(p, "open")
    /\ Moves(p, [passing[p] EXCEPT !.step = "fill", !.at = moment])
    /\ page' = NoAnswer
    /\ UNCHANGED <<board, evidence, spoiled, moment, held, spoils>>

OpenPage(p) ==
    /\ At(p, "open")
    /\ Moves(p, [passing[p] EXCEPT !.step = "fill",
                                   !.at = IF board.page = "build-progress" THEN moment ELSE @])
    /\ page' = IF board.page = "console" THEN page ELSE NoAnswer
    /\ UNCHANGED <<board, evidence, spoiled, moment, held, spoils>>

FillPage(p) ==
    /\ At(p, "fill")
    /\ page' = [state |-> passing[p].state, at |-> passing[p].at]
    /\ Moves(p, Idle)
    /\ UNCHANGED <<board, evidence, spoiled, moment, held, spoils>>

(* A kill also in the middle of writing the cache, whose file is then no   *)
(* answer.                                                                 *)
KillPassing(p) ==
    /\ ~At(p, "idle")
    /\ Moves(p, Idle)
    /\ held' \in IF At(p, "keep") THEN {held, NoAnswer} ELSE {held}
    /\ UNCHANGED <<board, evidence, spoiled, moment, page, spoils>>

Passing(p) ==
    \/ Launch(p) \/ UseKept(p) \/ AskNext(p) \/ Judge(p) \/ Keep(p)
    \/ OpenPage(p) \/ FillPage(p) \/ KillPassing(p)

WallNext ==
    \/ MomentPasses \/ LoopRestarts
    \/ \E i \in Asks : Spoil(i)
    \/ \E p \in Passes : Passing(p)

-----------------------------------------------------------------------------
(* The banner of a page, in the reader's browser; the board of the segment *)
(* bots and the console have none.                                         *)
HasBanner == board.page \notin {"segment-bots", "console"}
Warned == HasBanner /\ moment - page.at > StaleAfter

(* When a piece of evidence was last in order, or in a condition that the  *)
(* probe lets pass.                                                        *)
LastSound(i) ==
    IF evidence[i] = "sound" \/ Ask(i)[evidence[i]] = Pass THEN moment ELSE spoiled[i]

(* How much older than its stamp the evidence of a page may be: the pass   *)
(* itself where the page is stamped after the measuring, and the age and   *)
(* the making of a kept answer.                                            *)
Slack ==
    (IF board.page \in {"build-progress", "plan", "blotter", "console"} THEN MaxPass ELSE 0)
        + (IF IsKept THEN Ttl + MaxPass ELSE 0)

(* No tile is green for evidence that was not there: when a page that does *)
(* not call itself stale shows the best of a tile, every piece that the    *)
(* tile rests on was in order not longer ago than the banner tolerates and *)
(* the page's slack; on the board without a banner, than its stamp.        *)
GreenIsEarned ==
    page.state = board.tile.best /\ ~Warned =>
        \A i \in Asks :
            LastSound(i) + Slack >= (IF HasBanner THEN moment - StaleAfter ELSE page.at)

WallSpec == WallInit /\ [][WallNext]_wallVars
=============================================================================
