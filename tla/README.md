# Verification of the trading system

TLA+ models, TLC runs and TLAPS proofs for the Python system under
`src/trading-system`. The system records market data from several venues to
compressed files, ships and evicts them, migrates and transforms them, trains
and registers models, and runs paper-trading engines that size, gate, log and
fill orders. Its processes share nothing but files: everything that is hard in
it is a matter of what two processes, or one process and its own restart, find
in a file.

Paths below are relative to `src/trading-system/src` unless they say otherwise.

## 1. Inventory

| Part | State it keeps | Operations | Interacts through |
|---|---|---|---|
| raw tape writer (`capture/raw_writer.py`) | per stream and hour a raw file and an index file of zstd frames, a `.writing` marker, two compressors, `_n`, a remembered clean close | claim, open/resume, append, flush, close, read, reconcile | the files; the recorder calls it |
| archive repair (`capture/repair_archive.py`) | none | a pass over all pairs: drop stale markers, reconcile | markers and files; run by the capture supervisor before each start |
| recorder (`capture/venue_recorder.py`, `capture_ledger.py`, `cli.py`) | LRU pool of open writers, unwritable hours with their losses, last frames and gaps of each stream | consume, evict, quarantine, record silence and losses, settle ended hours, close | writers; the ledger |
| supervisors (`../scripts/*.sh`) | pid files | restart loops, forwarding of SIGTERM, repair before start | processes |
| offload and eviction (`../scripts/offload_to_gcs.sh`, `ops/raw_eviction.py`) | the bucket | no-clobber upload of unmarked hours, deletion of uploaded old hours | the archive, the bucket |
| universe tracker (`capture/universe_tracker.py`) | `last_snapshot.json`, day files of listings and delistings | fetch, judge, diff, append, replace | the venue; two processes may run it |
| store: bars (`store/live_bars.py`, `cli.py`, `correct_bars.py`, `parquet_partition.py`, `clock_gated_reader.py`) | partitions of parts, quarantine files, the ids of builds | live build, day build, correction, read as of a moment | the archive; backtests, the paper feed |
| store: polled datasets, reconstructions (`store/build_polled.py` and its extractors, `bar_backfill.py`, `funding_backfill.py`) | parts by hour, reports | build for a day, walk pages of a venue | the archive, the venue's REST |
| hourly migration (`store/hourly_migration.py`) | legacy parts, a building tree, a manifest of consumed parts | migrate, resume, verify, swap | files |
| order intent log (`execution/order_intent_wal.py`, `state_recovery.py`) | an append-only JSON-lines file | submit, resolve, unresolved, recover and reconcile | transport and venue; forward engine |
| forward engine, broker, exits, positions, journal (`paper/`, `strategy/deterministic_exit.py`) | positions, resting orders and paths in memory, a resume marker, a journal, the exit latch | poll, submit, match, walk the exit policy, propose exits | log, gate, broker |
| shared capital pool (`segment/capital_pool.py`, `capital_declaration.py`) | a reservation ledger under `flock`, `capital.json` | reserve, release, reclaim orphans, compact | every segment bot |
| segment live engine (`segment/live_engine.py`, brains, tails, arbiter, `learn/online_calibration.py`) | positions in memory, a fills journal, the calibration and its file, the model in use | recover, sweep, poll, decide, open, manage, close, learn, adopt a champion | pool, journal, feed, registry |
| live feed (`live/`, `segment/live_features.py`) | a bounded tick buffer, a newest stamp, rolling windows | connect, back off, put, drain, admit | venues, engines |
| models, trials, holdout (`models/model_registry.py`, `learn/train_segment_model.py`, `validation/`) | artefacts, aliases with history, the ledger of trials, the holdout's seal | fit, register, compare, assign, promote, freeze, consume | files, several processes |
| pre-trade gate (`risk/`) | a rate window, limits | evaluate, record | engines |
| halts, liveness, rate budget (`ops/`) | halt entries, a liveness stamp and outages, a shared token bucket | observe, tick, spend, note a ban | files |
| status wall (`statuswall/`) | pages, kept answers | ask for evidence, judge, keep, write pages | everything, read only |
| health and console (`capture/capture_health.py`, `capture_console.py`) | the console's page | measure freshness, bytes, silences and runway, write the page | archive and ledger, read only |
| sequencing, venue adapters, pollers, watchdog, features, strategies, statistics, costs, plan | none a property speaks of | parsing, numeric transforms, reports | |

What is hard, in one line each (the full list, with lines, is `hazards` in
`PROJECT.json`):

- **Crash and restart.** Nearly every file is written by a process that may die
  inside the write; nearly every restart trusts what it finds.
- **Two processes, one file.** Claims by marker, ledgers by lock, aliases by
  replacement, some files by nothing.
- **Lost answers.** An order whose response is lost must be neither repeated nor
  forgotten.
- **Order of two writes.** Raw before index, journal before or after release,
  rows before state, recovery before the sweep, a hash before a rename.
- **Late and missing data.** Trades that arrive in the next hour, hours that
  close after a newer row was stored, pages that come back short, evidence that
  went bad after it was asked for, quotes of a market that stopped talking.
- **Termination.** Refuse, repair, resume must end; so must the reclaiming of
  margin, the way of a pair to the bucket and of a champion to the engine.

What makes each part correct:

| Part | Correct when |
|---|---|
| raw tape | an index entry names its own frame; durable frames stay; damage is repairable; capture resumes |
| claims and repair pass | one writer for an hour; a pass never rewrites an hour that is being written; a marker that is there means a writer |
| offload and eviction | what is deleted locally is whole in the bucket; what is on disk gets there |
| recorder and universe | what was not heard or not kept is on record; a member of the universe was listed |
| order log | no intent is sent twice; none that was sent is forgotten; a known outcome stays known |
| capital pool and bots | what is reserved fits the declared budget; margin is neither lost nor leaked; positions survive a restart |
| forward engine | a bar is traded once; both books agree; caps hold across one poll; a touched rail leaves a request to close, as if every bar had been watched |
| bot | it trades on what it has just watched; a trade is journalled, learned and attributed as it happened; errors make it cautious |
| model records | looks are counted; a champion loads, improves and comes to serve; a holdout is spent once |
| store | a backtest sees nothing early; an id vouches for its trades; rows are built once and a backfill has no hole; migrated data is complete |
| halts, outages, budget | a halt outlasts its cause; an outage is on record; what all processes spend fits one bucket |
| status wall | no green for evidence that was not there |

## 2. Modules

### The raw hour

`DurableLog` is the abstract specification: frames are appended, a suffix that
is not durable may be lost, a durable frame never moves.

`RawHour` models one hour of one stream: `RawWriter` with both compressors, the
steps of `flush` and `close`, resumption, refusal, `reconcile_pair`, and the
recorder and the supervisor as far as they touch that hour.

| In the model | In the code |
|---|---|
| `raw`, `idx` | the two files: decodable lines, how many are fsynced, frame boundaries, a torn tail |
| `rawBuf`, `idxBuf` | lines inside the zstd compressors |
| `n`, `closed` | `RawWriter._n`; `_closed_n` with `_closed_sizes` |
| `AppendFrame`, `AppendFails` | `append`, `_open`, `_resume_position_for` |
| `RawWriteStarts` ... `IdxSyncs` | the order raw write, raw fsync, index write, index fsync of `flush` and `close` |
| `BoundaryFails`, `BrokenCloseEnds` | the exception paths of the two |
| `Refuse` | `HourFileNotAppendable` and the quarantine of the stream |
| `RepairSkips`, `RepairIndex`, `RepairRaw` | `reconcile_pair`, index replaced first, raw second |
| `Stop`, `Kill`, `PowerLoss` | the supervisor's stop, a kill, a power cut |

`RawHourProofs` holds the proofs.

### The archive around it

`HourClaims` has many hours as small pairs, with the markers that claim them:
recorders with a pool of open writers, and repair passes. `ArchiveOffload` adds
the bucket, the uploader and the evictor.

| In the model | In the code |
|---|---|
| `marker`, `Live`, `Orphaned` | the `.writing` file, its pid, `is_hour_being_written` |
| `StartClaim`, `CreateMarker`, `Judge`, `UnlinkStale`, `NameMarker`, `MarkerFails` | `_claim_hour_or_refuse`, one system call at a time |
| `OpenPair`, `RefusePair`, `WriteFrame`, `Evicted`, `Settle`, `ReleaseClaim` | `_open`, `append`, the pool's limit, the settling of ended hours |
| `VisitPair`, `DropMarker`, `FindHealthy`, `FindDamaged`, `CheckHeld`, `Salvage`, `Replace` | `repair_archive` and `reconcile_pair`, with what they read and when they act on it |
| `BeginOffload`, `Copy`, `PlanEviction`, `Evict` | listing of complete files, `cp -n`, `plan_raw_eviction`, deletion |
| `excused`, `disturbed`, `mistaken`, `beneath`, `deleted` | auxiliary: pairs that were opened against the rules, that were opened again or not closed in order, that a pass set out to repair though they were whole; writers whose files were replaced; what was deleted |

`Recorder` is what one recorder keeps about its streams: last frames, gaps, days
already recorded as silent, unwritable hours and the frames lost in them; its
actions are a frame received, the periodic check, a close, a kill and a start.
`Universe` is `record_snapshot` cut into its reads and writes, for two observers
whose listings differ.

### The store

`BarStore` has a tape of trades with event and receipt minutes, the files a
reader finds, live builds, day builds in steps, corrections, and the row served
at a clock, and at its end the paper feed's watermark. `PolledBuild` has polled
frames (sets of the fields they carry), the extractors of all polled datasets,
passes of the build loop over one dataset and venue, and held, abandoned and
reopened hours. `Backfill` has the two page walks against a venue with unusable
rows. `HourlyMigration` has parts with rows of several hours, a pass that reads
them in batches, its manifest, verification and the swap.

### Models, trials, holdout

`TrialLedger` and `ModelRegistry` are the two records, write by write;
`Retraining` composes them with fits (of a supervisor, and orphans it does not
wait for), the promotion pipeline and the engines that adopt champions.
`Holdout` is the custodian, call by call.

### Operations and boards

`VenueHalts`, `LivenessLedger` and `RateBudget` each take one file of `ops/` and
the processes that share it. `WallTiles` and `PageTiles` are tables: each
probe of `statuswall/`, each tile of the segment board, the banner and the
plan, the sections of the blotter and the tiles of the capture console are the
evidence they ask for, with the verdict each condition of it gives, and their
best verdict. `StatusWall` measures one tile of one page with such a table while
its evidence goes bad; pages differ in when they are stamped, in whether they are
empty while they are written, and in whether they call themselves stale.

### What a bot sees and does

`LiveFeed` has discovery, the boards' fan-out, connections with backoff, the
shared buffer, the rolling window and admission. `Brains` has the decisions of
rule brains, learned brains, calibration and arbiter on classes of market views;
`PositionLife` the life of one position under them, with restarts between any
two writes and promotions in the middle of a trade.

### The order log

`LineLog` is a file of JSON lines under kills: a line cut short has no newline,
so the next line is glued to it and neither parses. It is shared with the
capital pool, whose ledger behaves the same way.

`OrderSubmission` has the log itself, the rows its writers append and what its
readers (`_read`, `_folded`, `unresolved`, `has_torn_tail`) make of the file, and
an engine, a venue and an operator around it.

| In the model | In the code |
|---|---|
| `lines`, `unended` | the file and whether it ends in a newline |
| `Corrupt`, `HasTornTail`, `Folded`, `Unresolved` | `WalCorrupt`, `has_torn_tail`, `_folded`, `unresolved` |
| `MayStart` | what `recover_and_reconcile` would say of the log |
| `Expire`, `Refuse`, `Record`, `Acknowledge`, `RecordFailure` | `submit`, in the order of its statements, with `ForwardEngine._submit` catching what it raises |
| `Send`, `RequestLost`, `fate`, `sends` | external: transport and venue |
| `Resolve` | `resolve`, called by an operator for an unresolved intent while the engine is down |
| `Start`, `Kill`, `KillInWrite` | the paper supervisor's loop and deaths between and inside writes |

`attempted` is an auxiliary variable. `dropped` is the counter
`orders_duplicate`, kept as the set of intents counted.

### The capital pool and the segment bots

`CapitalDeclaration` has the declared amounts and the arithmetic of margin;
`Budget` is the abstract specification of the pool; `CapitalPool` is the ledger
with its lock, replay, compaction and reclaiming; `SegmentBots` composes it with
the bots that spend from it.

| In the model | In the code |
|---|---|
| `poolLog`, `unended` | the ledger file |
| `holder`, `buffer` | the process inside `flock` for more than one write, and the rows it still has to write |
| `Refusal`, `Reserve`, `Release`, `StartReclaim`, `Compacted` | `reserve` and its refusals, `release`, `reclaim_orphans`, `_maybe_compact` |
| `positions`, `journal` | the engine's positions; what a replay of its fills finds |
| `Recover`, `SweepOrphans` | start-up: `recover_open_positions`, then the sweep |
| `CloseAndRelease`, `JournalClose` | `_close`: release first, CLOSE row second |
| `Size`, `ReserveMargin`, `CapitalRefused`, `GateRefuses`, `OpenPosition` | `_open`, from `_size_entry` through `_risk_gate` |
| `EditDeclaration` | an operator replaces `capital.json` |
| `KillBot`, `KillInWrite` | a bot dies between writes, or inside one |

Amounts are summed by counting units (`Units`), which keeps recursion out of the
modules. `refusals` and `damaged` are auxiliary variables.

### The forward engine

`Market` is what the parts agree on; `TapeReplay` the feed and the marker that a
run leaves for the next; `PaperBroker` the paper venue with the gate in front of
it; `ForwardEngine` adds the positions kept a second time, with the exit latch,
and composes them into the polls of one process and its restarts. There, whether a rail was touched is a free choice; `ExitRails` is the other
half: one instrument, the bars, the path since the entry, the average true range
before it, and the exit policy walked anew for every bar, beside a follower that
sees each bar once.

| In the model | In the code |
|---|---|
| `store`, `RowsFrom` | the rows in order of availability; `read_as_of` with its inclusive lower bound |
| `watermark`, `emitted`, `marker` | `_availability_watermark`, the keys of `_emitted`, `prime-marker.json` |
| `Start` with `MarkSeen` | `resume_or_prime`: from the marker on, or everything |
| `BeginPoll`, `TakeEvent`, `EndPoll` | `poll_once`, its loop, and `write_prime_marker` after it |
| `FillNext`, `FillsDone` | `on_market_event` order by order, each fill shown to `on_fill` |
| `Shown`, `Judged`, `WalkPath`, `StepPolicy` (`ExitRails`) | `observe`, the part of the path that is judged, `run_exit_policy` and one bar of it |
| `Exit`, `NoExit`, `Latch` | `exit_proposal`: whether a rail was touched is a free choice; `pending_exit` |
| `Enter` | plumbing-momentum: a buy on every bar but the first of an instrument |
| `Submit`, `GateRefuses`, `Rejects`, `Rest` | `_submit`: the gate, the log's refusal of duplicates, the broker |
| `submitted` | the ids in the log with the time of this poll; ids with another time cannot collide |
| `Kill`, `KillInMarker` | a death between steps, or after the marker was truncated and before it was written |

`fed` and `began` are auxiliary variables.

### What TLC runs

The parts of the host meet in files only, and their product would multiply the
states and show nothing. `MCHost`, `MCProgress` and `MCData` therefore play one
*scene* in a behaviour: the initial state chooses a scene, its part takes all
steps, and the variables of the other parts stay as they began. A property of a
part is vacuous in the scenes of others and is checked in full in its own.
`MCSegmentBots` gives the bots and the pool their instances; `MCData` and
`MCProgress` extend it and play them as the scene "capital", and the two
counterexamples of the pool run on it directly. `rawhour_deadend` runs `RawHour`
itself.

## 3. What the runs check

| Run | Scenes | Result | Question |
|---|---|---|---|
| `shared_files` | submission | holds | two intents under all faults: sent once, never forgotten, known outcomes kept |
| | engine, rails | holds | corrections, a kill anywhere, polls of any length: each new bar traded once; both books agree, caps hold, one exit rests; rails as if every bar had been watched |
| | double start, pool, passes, mirror | holds | two recorders for an hour, two hours in a pool of one, two passes, the uploader: writers alone, markers held, ordinary hours mirrored |
| | recorder, universe | holds | is silence on record, are losses, was every member listed? |
| | polled, backfill | holds | are polled rows stored once, or behind a newer row of their venue; has what a backfill stored no hole, and all of the gap if the walk says so? |
| | migration, holdout | holds | does the verification notice one death; is the holdout opened once? |
| | position | holds | life of one position: exits kept, deals true, lessons kept |
| `progress` | hour, harsh hour | holds | kills, power losses and failed writes at every step: positions exact, entries true, durable frames kept; under kills all damage is repairable and the hour is resumed |
| | mirror | holds | does a pair on disk reach the bucket? |
| | retrain | holds | overlapping fits, kills, failures: looks counted, champions load and improve, and come to serve |
| | capital | holds | two bots with an instrument each, two declarations, all faults: the ledger is a `Budget`, what a dead bot had reserved is reclaimed |
| `ops_and_store` | halts, liveness, budget | holds | do halts outlast their cause, are outages on record, does spending fit one bucket? |
| | bars | holds | does a backtest see nothing early, do ids vouch for their trades? |
| | wall, market | holds | is green earned, does a bot trade only on what it has just watched? |
| | capital | holds | two bots, one with two instruments, two declarations, all faults: margin fits, is accounted for and kept; a restart recovers what was journalled |
| `rawhour_deadend` | | violated | is damage repairable after a power loss with a compressor block filled between boundaries? |
| `capital_gate` | | violated | is all reserved margin behind a position? Not after the gate refuses an entry |
| `capital_close` | | violated | is every open position funded? Not after a kill between release and CLOSE |
| `wal_refusals` | submission | violated | is what the engine counts as a duplicate one? Not once the log is corrupt |
| `engine_partial` | engine | violated | does a reduce-only order only reduce? Not when prints are smaller than orders |
| `archive_mirror` | mirror | violated | is every evicted hour whole in the bucket? Not one that the pool closed and reopened |
| `polled_turnover` | polled | violated | is an hour that was skipped because it was open built once it is closed? Not when a newer row of its venue was stored before |
| `bars_shadow` | bars | violated | is the complete bar served once it is there? Not when its minute's last trade came in the next hour |
| `errors_embolden` | position | violated | does an error make the bot abstain more? No, it abstains less |

### What the violations mean

- `rawhour_deadend`: the zstd compressor may emit an index block before raw's
  boundary. After a power loss the index can describe frames that an intact raw
  file no longer has; the repair refuses that pair, and the hour can neither be
  read nor resumed.
- `capital_gate`: `_open` reserves margin before it asks the risk gate, and
  returns on a refusal without releasing. The margin is out of the pool until
  the bot restarts and sweeps.
- `capital_close`: `_close` releases the margin before it journals the CLOSE. A
  death in between revives the position at restart with nothing reserved.
- `wal_refusals`: a partial line followed by any append is a corrupt log. The
  engine takes `WalCorrupt` for a duplicate, so it drops every later order,
  exits included, and goes on polling.
- `engine_partial`: a partial fill of an exit clears `pending_exit` while the
  rest of it is still in the broker. A second exit for what is left passes the
  broker's check against the position, and both fill: a long ends short.
- `archive_mirror`: a pair without a marker is complete to the uploader, whether
  its hour is over or the pool closed it. It is copied, reopened and grows; the
  copy is never replaced, and the eviction compares names.
- `polled_turnover`: a pass skips the open hour of one symbol and stores a newer
  row of another. The next pass reads the hour, closed by then, and keeps only
  rows newer than the newest of the venue: what `_hour_files` promises to pick up
  with the next run is dropped, without a fault and without a word in the report.
- `bars_shadow`: a live build reads the current hour's file alone and writes the
  last minute of the hour before from the late trade in it; its row ties with
  the complete one on availability and wins by the name of its file.
- `errors_embolden`: an error enters the window of non-conformities as 1.0 and
  raises the quantile, and the bot abstains *above* the quantile.

### Behaviour the models reach and no run is kept for

*Raw hours and markers.* Two claimants of one stale marker, or a pass that
judged it and unlinks it late (`repair_archive.py:206`), can remove the marker of
a living writer; the properties excuse exactly those pairs. A pass that finds no
marker may take for damage what a writer has not finished; when that writer has
closed before the pass asks for it, the pass replaces a pair from what it read,
beneath the next writer. A second pass can
replace a pair from what it read before the first. A writer killed before it put
its pid into the marker locks the hour for good. A pass drops a damaged pair's
marker before it repairs, so the damaged pair may be copied and kept by `-n`.

*Recorder and universe.* A recorder that restarts within the grace period never
reports a silence; a venue without any frame is not checked before the close. A
snapshot killed between two rows, or a torn row, loses a delisting: the next one
diffs against a state that has the symbol.

*Order log and paper engine.* An exit that the gate refuses, or that has the id
of an earlier exit of the same poll, leaves `pending_exit` set for good. After a
restart a correction of a bar older than the marker is traded as new, and a bar
stored after a later one was fed is never fed (`market_replay.py:166` calls the
bound "an optimisation and never the correctness argument"). All decisions of a
poll carry its time, so of several entries in one instrument the first is sent
and the others are duplicates. The fill's own bar is the first of the path,
which `forward_engine.py:353` says it is not. A position whose rails were
measured late keeps an index into a path that is cut at its front: it never
reaches its last bar and its lock can move away. An add moves the average entry
and with it the hard stop, and old bars are judged again.

*Bots.* The ratchet is tested before the lock, so a position past its lock is not
closed while its excursion is above the trigger. A restart loses the locked stop,
the peaks and the opening score. A short that lost within the spread is learned
as "a long would have paid". After a change of models the old model's scores
calibrate the new one. A one-sided quote refreshes the age of a quote; managing
and closing use any frame in the window; the feed's liveness is that of its
newest connection. The board of perpetuals quotes TRADIFI instruments, which only
the minimum of trades keeps out.

*Models.* Aliases are one file, changed by read, replace and one temporary name:
of two overlapping assignments one is lost, and another's partial file can be
renamed. A torn ledger with a row after it is corrupt for every reader. Every
fit that measures grouped weights fails on an undefined name
(`gradient_boosted_trees.py:343`); the runs use the pooled weighting. The pipeline
scores nine configurations and registers one trial. Nothing in the sources calls
freeze or consume.

*Store.* A build killed between the parts of its plan leaves its id, so that the
rest is never written. It can also block another build: when the hour that it
could not read is released, the next build's first part gets the name of the part
that is there, `append_partition` refuses to overwrite it, and the rows of that
build, those of later hours too, are not stored, although
`parquet_partition.py:216` counts on the rebuild as "the whole recovery path". Trades after midnight that arrive when a day was built
are counted by the next day's build as covered. One ticker
with a blank number fails its venue's build on every pass; the parts of a polled
build that died keep a later pass with the same newest row from writing the rest
of it. `bar_backfill.py:379` says "Every symbol whose walk stopped early is named
with the reason": a walk that met a page of refused bars, or an answer that is no
list of rows, stops with `truncated_by` None and is named nowhere, and the walk
for funding names none of its ends, be it budget, network or page limit. In the
model these are the walks that ended with "nothing" or "garbled", and all short
walks of funding; `BackfillsHaveNoHoles` says what is true of them, that nothing is
missing before their last row. Two deaths of a migration can cancel in an
hour's count.

*Operations and boards.* A halt's dwell counts time nobody observed; a corrupting
event after the last pass before midnight is never seen. Nothing calls
`note_rate_limited`, and three roots keep three buckets. Several tiles are blind
to absence (a missing gap ledger, one of two venues); `segment-bots.html` has no
staleness banner; the wall is written in place though its supervisor says whole.
"Newest data" is STOPPED while data of today comes in, for an age of zero is read
as none. The console takes each file of an hour for a stream, so from the second
hour of a day "streams live" is bad. A failure of the blotter is not "caught and
reported on the page", as `statuswall/cli.py` has it: the page stays as it was.

### Bounds

Every bound is a constant of its module and named there as one. What they must
allow:

| Part | Values | Why they are enough |
|---|---|---|
| raw hour | `MaxFrames` 3 (4 under kills alone), `MaxFailures` 3 | a frame before a boundary, one after it and one in the compressor; the fourth is captured after a repair; a failure, one while recovering and one after |
| capital | two bots, one with two instruments (one each in `progress`), `MaxUsdt` 3, `CompactAfter` 3, `MaxKills` 1, `MaxOpenPositions` 1 | the bots compete for the last of the budget, one holds its own second instrument against its cap, compaction happens with reservations alive, a bot restarts beside one that goes on |
| submission | two intents, `MaxKills` 2, `MaxLines` 1 | one line torn and one glued to it; `MaxLines` stops only the logging of expiries, which can be repeated for ever |
| engine | two instruments at prices 1 and 2, `MaxRows` 4, one kill, caps 2, 3, 4 | a bar to be seen, one to enter on, one that fills and touches a rail, one that fills the exit, or a correction in the place of one; each cap is reached |
| rails | four bars, `MaxHoldingBars` 3, `AtrPeriod` 1, tape of 5, one restart | every rail is touched by longs and, after an exit that filled twice, shorts; the path is cut; rails come late |
| claims, mirror | two recorders or two passes or two hours, one kill, `MaxPairFrames` 2 (1 in `progress`), pool of 1 | each race has two parties; a pair grows after its copy |
| recorder | two streams, one renamed, days of 3 moments, hours of 2, moments to 4, two sessions | a silence and a loss across midnight, a close and a kill |
| universe | two symbols, two observers, three snapshots, one cut | a torn row, its successor, and an overlap |
| holdout, migration | two callers, four calls; three parts, two deaths | kill and repetition; a resumed run |
| polled | two instants an hour, two hours a day, the clock from 0 or 3 to 2 or 4, two frames, two passes, one death of each kind | an hour held over a pass and over midnight, a newer row between, two rows of one hour |
| backfill | gap of 5 moments, pages of 2, two pages | more rows than the pages hold, an unusable one in each place |
| position | prices to 3, four polls, one restart, two models | stop, target, ratchet, lock and age each end a trade; a promotion while one is open |
| retrain | one segment, two trials at a time of two families, two mishaps | two fits and a promotion overlap; one is killed |
| ops | dwell 2 in days of 3 and 6 ticks; 7 beats, two kills; two spenders, capacity 2, a boot | a midnight inside a dwell; a torn row and its successor; a ban and an emptied state |
| bars | two trades (three in `bars_shadow`), hours of 2 minutes, days of 2 hours, two builds, one correction | a late trade within an hour, across an hour and across midnight |
| wall | one tile at a time, all tiles on some page, moments 0 to 3, two passes for a kept tile and for the blotter, one piece of evidence spoiled | a tile's verdict depends on its own evidence only |
| market | six symbols, a buffer of 1 and a ring of 2, instants 0 to 3, one fault | a tick dropped by a full buffer, a window that ran out, a connection behind its backoff; more ticks in a buffer only add to what a poll sees, and `LiveTrades` is for every size |

Deadlock checking is off in all runs but `capital_gate` and `capital_close`: when the rows,
frames and moments of the bounds are used up, nothing is left to happen.
Symmetry is not used.

### Fairness

- *The hour* (`MCProgress!HourFairness`): the repair pass runs, as the supervisor
  runs it before each start, and frames that keep arriving are appended. No
  fairness is asked of flushes, closes or faults.
- *The mirror* (`MirrorFairness`): a started claim, settling, a pass and the
  shipping loop run on, a supervisor restarts a recorder, time passes (weak);
  a copy that is repeated every hour succeeds once (strong, since a copy may be
  unavailable in between).
- *Retraining*: the engine looks for a new champion every poll (weak). Fits are
  not fair.
- *The bots* (`CapitalFairness`): while a bot is dead a supervisor restarts one, and
  a bot inside the lock runs on (weak). Opening and closing are not fair: a bot may
  hold a position for ever.
- *Those who wait* (`WaitingFairness`, strong): a pass comes to the pair whose
  marker was held, and a bot waiting for the lock to sweep gets it. `flock` is
  contended for microseconds of a poll that lasts seconds, but a bot that asks is
  not guaranteed a turn each time the lock is free.
- Fairness of the bots is asked of some bot, not of each as in `BotsSpec`: there are
  finitely many kills and a bot recovers and sweeps once after each, so no bot can
  take every turn from another. That asks no more than the supervisors give, and
  one formula for those who wait keeps TLC's work small.
- All other parts state safety only. A torn tail of the order log can never be
  resolved, so nothing guarantees that it ever allows a start again.

## 4. What is proved

The proofs hold for all values of the constants that the named assumptions in
the modules allow.

**`RawHourProofs`.** `IInv` adds to the properties that both files, taken
together with their compressors, are contiguous from 0 (`Contiguous`) and
truthful (`Truthful`), that both are complete up to `n` while no write has
failed (`BothExact`), that buffers are empty where the code has emptied them
(`BuffersEmptied`, `ReasonFits`), and that a remembered close was level
(`RememberedIsLevel`). It is needed because the properties speak of the files,
and what the files will hold is decided in the compressors. Most steps move
lines from compressor to file and leave the concatenation alone; an append
extends both by one; a crash cuts each to a prefix; a repair rebuilds the index
from raw. From it follow `TypeOK`, `PositionIsExact`, `ReadPairIsFaithful`, the
refinement of `DurableLog`, `EntriesAreKept`, and, without power losses and
without blocks filling between boundaries, `DamageIsRepairable`.

**`LineLogProofs`.** Lemmas about putting a row into a file that may or may not
be ended: type, length, contents, and that the last element of a nonempty finite
set of indices is one of them.

**`TradingProofs`** has the order log, the paper engine's feed, orders and rails,
and a segment's position.
*Order log*: a complete line is never lost. `IInv` says that each intent that was
sent, or is in submission, has an event on a complete line or else the log is
corrupt (`SentIsRecorded`); that no outcome in the log differs from the order's
fate (`OutcomesAreTrue`); and that what is in submission is still unknown to the
log (`InSubmissionIsUnknown`). A row glued to a partial line is lost, but it
leaves a line that does not parse and is not the last, so the log refuses
everything after it. From it follow `TypeOK`, `NeverSentTwice`, `NothingForgotten`
and `KnownStaysKnown`, for any set of intents and any number of kills.
*Feed*: while a run lasts the feed has read on at least to where the run began and
has marked the row that was then the newest (`FeedInv`); what a poll is still to
handle is marked, newer than the run, in the queue once and not handled before
(`QueueInv`). A lemma that counts the rows before each one shows that the feed
hands over each new row in its turn and once. So no bar is traded twice in a run,
and none that was stored before it (`BarsAreTradedOnce`).
*Orders*: the books of broker and exit manager agree (`BooksAgree`); what rests is
an entry of the engine's size that its instrument has room for, or an exit that
takes all there is (`OrdersAreSound`); an exit rests before an entry of its
instrument, and there is one of each at most (`ExitsGoFirst`); what a bar has been
offered to is gone from it before the strategy is asked (`OffersInv`).
*Rails*: while a follower who has seen every bar has touched no rail, the
position keeps its whole path, and the follower is where a walk over that
path ends; once one is touched, the latch is set (`HasWatched`). It is needed
because the code does not keep the follower: it walks a path that is cut to
`max_holding_bars`.  The walk and a bar's fills are recursive functions; that
they exist and that a walk over a longer path takes one more step is shown by
contradiction at the least length at which it fails, which needs no induction
theorem. From these follows `PositionsAreWatched`, for any prices, bars, refusals
and kills, if each print covers any order that may rest (`PrintsAreAmple`);
`engine_partial` shows that the books do not stay so without it.
*Position*: what memory and the OPEN row say of a trade is the same deal; a trade
that was not recovered has the tail that opened it; what is being opened is marked
at this poll's price (`TradeInv`); and a saved calibration has scores
(`LessonsInv`). From it follows `TradesAreAccountedFor`, for all prices, models,
restarts and promotions, where the segment's rails are ordered
(`LifeAssumption`).

**`HourClaimsProofs`** is about `ArchiveSpec`: recorders, repair passes, offload
and eviction, for any number of each, of hours and of kills. `ArchiveInv` has
four parts. *Ownership*: outside excused pairs a recorder that has an hour open,
or is about to, has its own marker beside it (`Owned`); a marker of a running
recorder is being held or given back (`LiveMarkersHeld`); what a claimant or a
pass judged stale belongs to the dead (`RecordersSane`, `PassesSane`). *Safety of
repairs*: a damaged pair has no writer (`DamagedUnwritten`), and a pass on its
way to replace a pair finds it damaged, or out of its hour with no writer
(`RepairsFindNobody`). *The mirror*: a pass passes by an ordinary pair, and such
a pair is copied only once it has its last frame (`PassesPassBy`, `CopiedFirst`).
*The evictor* deletes only after the hour is old (`DeletesTheOld`). The proof
classes the steps of a recorder by what they can disturb (a quiet step, one
claim's step, a release) and has a lemma for each part and each class. From it
follow `MarkersAreHeld`, `WritersAreAlone` and `OrdinaryHoursAreMirrored`. The last
section is about `ProgressSpec` of `MCProgress`: under any number of kills and
failures, but without power losses and without blocks that fill between
boundaries, a pass would repair whatever has happened to the hour
(`HourIsRepairable`, the theorem of `RawHourProofs` through the instance that the
scene plays).

**`RecordsProofs`** has the records that are rewritten under kills. *Holdout*:
while calls have not overlapped one caller is inside, what it holds is a step
forward from the seal, and a seal that says "consumed" has its record (`OneCall`).
*Universe*: symbols in the state, in the answer of an observer whose rows are
written, and in what it is about to store are all on record (`UniverseInv`).
*Trials*: a ledger that can be read numbers its rows without a hole, and its
count is that of the looks begun (`Counted`); without overlap it ends in the
trial of the fit in hand (`Named`). *Registry*: every version in a table, in a
partial file or in the hands of a fit past its metadata has artefact and metadata
(`RegistryInv`); without overlap a fit that assigns holds a better version and
the table it will write is today's with one entry replaced (`Assigning`). From
these follow `HoldoutSpentOnce`, `MembersWereListed`, `EveryLookIsCounted`,
`ModelsAreSound` and `ChampionsOnlyImprove`. *Migration*: a pass that copies
expects exactly the rows of the parts that it read, and no file has a row of a
part that it neither read nor is about to read (`ExpectsWhatItReads`); before a
death nothing is wrong, and after one an hour has either rows twice or rows
missing, never both (`OneKindOfError`); so that the count of an hour tells, and
what the swap's report vouches for is in one file (`ClaimedIsThere`). From it
follows `OneDeathIsNoticed`, for any parts and hours.

**`AbsenceProofs`** is about `HostSpec` of `MCHost`: what was not heard or not
written is on record (`AbsenceIsOnRecord`), and what was built from polls or fetched
later is whole (`DatasetsAreWhole`). *Recorder*: its next look is a moment away at
most, what it will not repeat today is in the ledger (`RecorderShape`), and what
was lost of an hour is the ledger's total and the account still open
(`LossesAreOnRecord`). *Backfill*: what a walk has fetched so far has no hole
behind the place it has reached (`WalkIsWhole`), which rests on lemmas about the
first and the latest rows of a page. *Polled datasets*: a row that a build has read
is in the dataset, behind a newer row of its venue, or in a part that the build is
about to write (`ReadIsAccounted`), parts have no row in common (`PartsInv`), and
without a kill a part that names a newest row is not without it (`NamesInv`), so
that a dataset vouches for what it has (`VouchedInv`). A row that a newer
one has overtaken is lost (`polled_turnover` shows one); the theorem says that,
unless a build dies, no row that was read is lost in any other way.

**`OpsAndStoreProofs`** has operations, market, bars and wall. *Budget*: what was
spent and what the bucket is worth now, refill included, fit the allowance, and so
does the state a caller inside the lock is about to write (`BudgetInv`). *Halts*:
an entry, stored or in the hands of a pass, is halted with its healthy spell begun
after the last corrupting report, or the dwell is over (`StaysHalted`). *Outages*:
stamps rise, and the holes that are not on record and the one a running tick owes
are together no more than the torn lines (`Covered`); without a clock set back
every row ends before now and covers no stamp (`RowsArePast`). *Market*: what waits
in the buffer or is in the window was heard from the venue (`WasHeard`), and only a
connection that the segment has for a listing of its kind can bring it (`CanBe`). *Bars*: a row is available after its minute and
after each of its trades was received (`RowsAreDated`); of the hours that its id
does not name as unread a build can read every trade (`BuildCanRead`), and what it has read is in a bar to be stored, left to
a neighbour's build, or set aside (`BuildHasPlaced`). *Wall*: a pass that finds a
tile at its best has found each piece of evidence sound when it began or later
(`HasSeen`, `HasEarned`), and a page or a kept answer is younger than its evidence
by no more than the slack of its board (`Earned`). From these follow `SpendFits`,
`HaltsOutlastTheirCause`, `OutagesAreOnRecord`, `TradesNeedALiveMarket`,
`NothingFromTheFuture`, `IdsVouchForTheirTrades` and `GreenIsEarned`.

**`SegmentBotsProofs`** is about `BotsSpec` of `SegmentBots`, for any bots,
instruments, declarations and faults. `BotsInv` begins with the shape: types; the
process in the lock is the one the lock names; a compaction's file and buffer
together name no key twice; an entry in progress has an instrument that is not
open (`ShapeInv`). Then `JournalIsMemory`; a sweep's buffer releases only what it
found orphaned (`SweepInv`); what is reserved fits some declaration, and it would
if the partial line were lost (`FitsInv`); and what is reserved belongs to a
position, an entry, a refused entry or the rows still to be swept (`AccountInv`).
The lemmas it rests on are about replaying a ledger: what one more row, a glued
row or a compacted file changes in `Reservations`, and that fitting is a matter
of sets of units, so that less always fits. From it follow `BotsTypeOK`,
`JournalIsMemory`, `MarginsAreAccounted`, `FundingIsKept` and the refinement of
`Budget` (`PoolIsABudget`): every step is a grant that fits, a giving back, a new
declaration or a stutter.

The assumptions are those the modules name, bounds in `Nat` and sentinels outside
their sets. Those that say more: `LivenessLedger` asks for a last beat after 0, the
moment of its initial stamp; `LifeAssumption` for a give-back below the ratchet's
trigger below the target, and for a stop above 0, which hold of every segment's
declaration; `PolledAssumption` that only bybit's dated futures are built, as the
supervisor calls it; `TilesAssumption` that no condition gives a tile a better state
than sound evidence, which TLC finds true of the tiles in `PageTiles`; and
`MigrationAssumption` for finitely many parts.

**Only model-checked.** The type invariants `HostTypeOK`, `ProgressTypeOK`
and `DataTypeOK` of the scenes, whose bounds are those of the instances. All
liveness (`HourIsResumed`, `HourIsShipped`, `ChampionsComeToServe`,
`OrphansAreReclaimed`): liveness under fairness and `ENABLED` are outside
what the prover does. Except for `AbsenceIsOnRecord`, `DatasetsAreWhole`,
`HourIsRepairable` and `PositionsAreWatched` the proofs are about the parts on their own; the scenes
of `MCHost`, `MCProgress` and `MCData` take the same steps beside variables
that do not change.

## 5. What the models leave out

*RawHour.* One writer owns the hour (`HourClaims` has the claims). A power loss
leaves a prefix of each file. A full disk stays full through the close it causes.
A raw write that fails inside `append` leaves what a kill at that point leaves.
The quarantined copy of an index is taken to survive.

*HourClaims, ArchiveOffload.* A pair is a count of frames and whether it is
damaged; raw and index are copied and deleted as one. A pid is not reused.

*Recorder.* Streams are heard or not; two recorders that share a venue's name are
not played together. *Universe.* A venue's answer is a set of symbols.

*OrderSubmission.* One engine owns the log; nothing in the code locks it. An fsync
makes the line and the file's directory entry durable; a power loss is therefore
a kill. Nothing in the sources calls `recover_and_reconcile`, so `Start` does not
wait for `MayStart`.

*SegmentBots.* One engine for each segment: the hand-over by a supervisor that
does not wait for its child is not modelled. A row of the fills journal is
written whole or not at all. What brains, timing, feed and leverage decide is a
free choice there; without a valid declaration no entry is sized.

*ForwardEngine.* Prices do not move and every order is a market order, as those of
the engine are; outside `engine_partial` each print covers every order. Bars of
one instrument become available in the order of their times. The journal and the
equity curve are written and never read back; the kill file and a corrupt order
log are not modelled here. A poll is as long as the rate window.

*ExitRails.* One instrument, prices as small integers, fills by whole lots. Which
rail is named, and that a path has a hole, are only written down by the code.

*Retraining.* A fit's score is a free choice; the arithmetic of training is not
modelled. *Holdout.* Commits are two names.

*BarStore.* One symbol and one live tier; a bar is its set of trades. A power cut
is not modelled: parts are renamed into place. *PolledBuild.* A frame is the set
of its fields; one pass builds one dataset of one venue. *Backfill.* Comparing a
reconstruction with observed bars is left out. *HourlyMigration.* Files are
renamed whole.

*LiveFeed.* The wall clock does not step; a tick is stamped and buffered in one
step; the settlement window of dated contracts and a failing discovery are left
out. *Brains, PositionLife.* A market view is a member of a small set that has
one case for each thing a brain looks at; scores are two bins and none; frames
have both sides, as the feed makes them, so that waiting for an entry never
happens.

*StatusWall, PageTiles.* One tile of a page at a time, evidence that goes bad once;
two passes that write one open file are left out, and so are amounts and wording.

*Not modelled.* Venue adapters and pollers (parsing and network I/O), sequence
gaps, the alerts of the capture's health (nothing calls
`write_alerts`), the watchdog (nothing calls `trip`) and the
shadow ledger (nothing calls it), models, features, statistics, costs, the
research strategies, plan and integrity reports: numeric transforms and reports
with no state that two actors share. `PROJECT.json` lists each with its reason.

## 6. Plan

| Order | Modules | State |
|---|---|---|
| 1 | `RawHour`, `DurableLog`; `CapitalPool`, `SegmentBots`, `Budget`; `OrderSubmission` | modelled, checked and proved |
| 2 | `HourClaims`, `ArchiveOffload`, `Universe`, `Holdout`, `TrialLedger`, `ModelRegistry`, `Retraining` | modelled, checked and proved |
| 3 | `VenueHalts`, `LivenessLedger`, `RateBudget` | modelled, checked and proved |
| 4 | `ForwardEngine`, `Recorder`, `HourlyMigration`, `BarStore`, `PolledBuild`, `Backfill`, `PageTiles`, `StatusWall`, `LiveFeed`, `PositionLife` | modelled, checked and proved |
| 5 | `WallTiles`, `Brains`, `ExitRails` | modelled and checked; `ExitRails` proved |
