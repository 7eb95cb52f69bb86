----------------------------- MODULE PageTiles ------------------------------
(***************************************************************************)
(* The tiles of the other pages, in the terms of WallTiles: on the plan and*)
(* ruling boards what segment_probes.py measures of the four bots, and what*)
(* ruling_conformance.py measures of the standing rulings; those of the    *)
(* segment board, the blotter and the console; and those that the wall and *)
(* the progress of the build show beside the probes.  A probe that raises  *)
(* has measured nothing (measure_rows).  Most probes read the tail of the  *)
(* newest journal and do not ask how old it is.                            *)
(***************************************************************************)
EXTENDS WallTiles, TLC

(* A tile with a piece of evidence per segment: a segment counts when it is*)
(* sound, and the tile says how many do.  Two segments stand for the four. *)
_of(subject, conditions) ==
    [c \in conditions \union {"of"} |-> IF c = "of" THEN subject ELSE Missing]
_fraction(conditions) == Tile(<<_of("perp", conditions), _of("options", conditions)>>, OK)

(* The same over the parts of one thing; none of them at all is DEGRADED.  *)
_fraction_of(asks, conditions) ==
    [Tile(asks \o <<_of("first part", conditions), _of("second part", conditions)>>, OK)
     EXCEPT !.none = DEGRADED]

(* The journal of decisions of a bot, by its newest rows.                  *)
Decisions == [of |-> "decisions", gone |-> NOT_MEASURED, empty |-> NOT_MEASURED]

-----------------------------------------------------------------------------
(* The engines, their feeds and their journals.                            *)
probe_segment_engine_running == _fraction({"gone", "off", "stale", "undated", "unnamed"})

probe_perp_engine_running == Tile(
    <<[of |-> "heartbeat", gone |-> NOT_MEASURED, off |-> DEGRADED, undated |-> NOT_MEASURED,
       stale |-> DEGRADED],
      [of |-> "fills", gone |-> PARTIAL]>>, OK)

(* A heartbeat without a time is not asked for its age.                    *)
probe_live_feed_fresh == _fraction({"gone", "dead feed", "stale", "unknown tick", "old tick"})

probe_intraday_data_lag == Tile(
    <<[of |-> "live bots", gone |-> NOT_MEASURED],
      [of |-> "oldest tick", stale |-> FAILING],
      [of |-> "live bots", thin |-> PARTIAL]>>, OK)

probe_segment_features_current == _fraction({"gone", "undated", "stale", "empty", "windowless"})

probe_perp_features_current == Tile(
    <<[of |-> "heartbeat", gone |-> NOT_MEASURED], Decisions,
      [of |-> "heartbeat", stale |-> DEGRADED],
      [of |-> "decisions", windowless |-> FAILING]>>, OK)

-----------------------------------------------------------------------------
(* Brains, arbiter and profit tail, by what the decisions hold.            *)
probe_segment_brains_reason == _fraction({"gone", "no evidence", "no outcome", "no reason"})

probe_perp_bull_agent_reasons == Tile(
    <<Decisions,
      [of |-> "bull outcomes", wrong |-> FAILING, thin |-> PARTIAL]>>, OK)

probe_perp_bear_agent_reasons == Tile(
    <<Decisions,
      [of |-> "bear reasons", gone |-> FAILING],
      [of |-> "bear evidence", copied |-> DEGRADED],
      [of |-> "bear reasons", shared |-> PARTIAL]>>, OK)

probe_segment_arbiter_decides == _fraction({"gone", "both sides", "unbound tail", "no outcome"})

probe_perp_arbiter_decides == Tile(
    <<Decisions,
      [of |-> "selections", both |-> FAILING],
      [of |-> "tail authority", wrong |-> FAILING]>>, OK)

probe_profit_tail_authority == _fraction({"gone", "unbound tail", "no stop", "no timing"})

probe_perp_bands_journalled == Tile(
    <<[of |-> "fills", gone |-> NOT_MEASURED, empty |-> NOT_MEASURED, unbanded |-> FAILING],
      [of |-> "second band", gone |-> PARTIAL]>>, OK)

probe_perp_risk_gate_refuses == Tile(
    <<[of |-> "heartbeat", gone |-> NOT_MEASURED, uncounted |-> NOT_MEASURED],
      [of |-> "refusals in the tail", gone |-> PARTIAL]>>, OK)

probe_perp_band_performance == Tile(
    <<[of |-> "fills", gone |-> NOT_MEASURED],
      [of |-> "closes", gone |-> NOT_MEASURED, thin |-> PARTIAL]>>, OK)

(* The record is not asked for its age.                                    *)
probe_perp_promotion_gate == Tile(
    <<[of |-> "promotion record", gone |-> NOT_MEASURED, torn |-> DEGRADED],
      [of |-> "promotion", gone |-> PARTIAL]>>, OK)

-----------------------------------------------------------------------------
(* The boards themselves, by the time of their files.                      *)
probe_segment_tiles_measured == Tile(
    <<[of |-> "segment board", gone |-> NOT_MEASURED, thin |-> DEGRADED, stale |-> DEGRADED]>>,
    OK)

probe_perp_tile_measured == Tile(
    <<[of |-> "segment board", gone |-> NOT_MEASURED, thin |-> DEGRADED],
      [of |-> "heartbeat", gone |-> PARTIAL]>>, OK)

probe_board_generated == Tile(
    <<[of |-> "boards", gone |-> NOT_MEASURED, stale |-> DEGRADED, thin |-> DEGRADED]>>, OK)

-----------------------------------------------------------------------------
(* The universes: the listing of the venue before the admission pass of the*)
(* heartbeat; a heartbeat without a time passes.                           *)
_one_universe_probe(segment) == Tile(
    <<[of |-> "listing of " \o segment, gone |-> NOT_MEASURED, failed |-> FAILING,
       empty |-> FAILING],
      [of |-> "heartbeat", gone |-> PARTIAL, unadmitted |-> PARTIAL, stale |-> DEGRADED,
       undated |-> Pass]>>, OK)
probe_spot_universe_measured == _one_universe_probe("spot")
probe_dated_universe_measured == _one_universe_probe("dated")
probe_options_universe_measured == _one_universe_probe("options")

probe_universe_is_the_venues == _fraction({"gone", "failed", "empty"})

probe_universe_breadth == Tile(
    <<[of |-> "listings", gone |-> NOT_MEASURED],
      [of |-> "symbols scanned", empty |-> DEGRADED, thin |-> PARTIAL]>>, OK)

probe_segments_captured == _fraction({"gone", "stale", "undated"})
probe_segment_bots == _fraction({"gone", "undeclared", "shared venue", "shared brains"})
probe_three_bots == _fraction({"undeclared", "other brains", "same brain"})
probe_uptime_continuous == _fraction({"gone", "off", "stale", "undated"})

-----------------------------------------------------------------------------
(* What is learned.  A model of no trial or no score is DEGRADED; a record *)
(* that cannot be read is not counted.                                     *)
RetrainReports == [of |-> "retrain reports", gone |-> NOT_MEASURED]

probe_training_set_built == Tile(
    <<RetrainReports, [of |-> "training sets", gone |-> NOT_MEASURED, thin |-> PARTIAL]>>, OK)

probe_model_registered_with_loss == Tile(
    <<[of |-> "model records", gone |-> NOT_MEASURED, torn |-> Pass, unaccounted |-> DEGRADED]>>,
    OK)

probe_brains_are_learned == _fraction({"gone", "warming", "refused", "rule"})

(* Only learned bots count; a rule brain emits no belief.                  *)
probe_beliefs_carry_provenance ==
    LET bot(segment) == "rule" :> Pass @@
            _of(segment, {"empty", "no proposal", "no belief", "no provenance"})
    IN  Tile(<<[of |-> "learned bots", gone |-> NOT_MEASURED], bot("perp"), bot("options")>>, OK)

probe_calibration_updates_live == _fraction({"gone", "unobserved", "unreported"})
probe_profit_tail_is_learned == _fraction({"gone", "deterministic"})

(* A board that does not show the figures outranks them; no board does not.*)
probe_capital_and_pnl_reported ==
    LET unclosed == {"empty", "unconvertible", "no close"}
    IN  Tile(<<[of |-> "segment board", wrong |-> DEGRADED, gone |-> Pass],
               _of("perp", unclosed), _of("options", unclosed)>>, OK)

probe_champion_reload_current ==
    LET unused == {"gone", "unregistered", "unloaded", "superseded"}
    IN  Tile(<<[of |-> "aliases", gone |-> NOT_MEASURED, torn |-> NOT_MEASURED],
               _of("perp", unused), _of("options", unused)>>, OK)

probe_axis_tests_run == Tile(
    <<RetrainReports,
      [of |-> "axis runs", gone |-> NOT_MEASURED, failing |-> PARTIAL, thin |-> PARTIAL]>>, OK)

probe_retrainer_running == Tile(
    <<RetrainReports, [of |-> "supervisor", dead |-> DEGRADED],
      [of |-> "newest refit", stale |-> DEGRADED]>>, OK)

probe_axis_verdicts_present == Tile(
    <<[of |-> "axis verdicts", gone |-> NOT_MEASURED, torn |-> NOT_MEASURED,
       unanswered |-> DEGRADED]>>, OK)

(* Three probes judged together: one that measured anything makes a part.  *)
probe_intelligence_axes ==
    LET sub(probe) == "partial" :> PARTIAL @@ _of(probe, {"unmeasured"})
    IN  Tile(<<sub("brains"), sub("axis probes"), sub("calibration")>>, OK)

-----------------------------------------------------------------------------
(* Governance: rules, order, and the probes that rows name.                *)
probe_permanent_rules_present == Tile(
    <<[of |-> "rules", gone |-> NOT_MEASURED, empty |-> DEGRADED]>>, OK)
probe_build_order_current == Tile(
    <<[of |-> "plan", gone |-> NOT_MEASURED, torn |-> NOT_MEASURED],
      [of |-> "order of slices", wrong |-> PARTIAL]>>, OK)
probe_probes_implemented == Tile(
    <<[of |-> "plan", gone |-> NOT_MEASURED, torn |-> NOT_MEASURED],
      [of |-> "probes", thin |-> DEGRADED]>>, OK)

-----------------------------------------------------------------------------
(* The capital slice of the two governed bots, from their fills.           *)
Declaration == [of |-> "declaration", gone |-> NOT_MEASURED, torn |-> NOT_MEASURED]

probe_capital_declaration_is_enforced == Tile(
    <<Declaration, [of |-> "sized opens", gone |-> PARTIAL, thin |-> PARTIAL]>>, OK)

(* A breach outranks what is missing; a row without its figures is skipped.*)
probe_excursions_journalled_on_close == Tile(
    <<[of |-> "excursions", wrong |-> FAILING, torn |-> Pass],
      [of |-> "closes", gone |-> NOT_MEASURED, thin |-> PARTIAL]>>, OK)

probe_pool_never_overcommits == Tile(
    <<[of |-> "pool ledger", gone |-> NOT_MEASURED], Declaration,
      [of |-> "margin held", wrong |-> FAILING]>>, OK)

(* No open at all, and an open nobody can price, read as inside the band.  *)
probe_margin_per_trade_within_band == Tile(
    <<Declaration, [of |-> "opens", unsized |-> DEGRADED, gone |-> Pass, torn |-> Pass],
      [of |-> "margins", wrong |-> FAILING]>>, OK)

probe_leverage_declared_and_bounded == Tile(
    <<Declaration,
      [of |-> "leverage", over |-> FAILING, unreachable |-> FAILING, torn |-> Pass],
      [of |-> "opens", gone |-> NOT_MEASURED, thin |-> PARTIAL]>>, OK)

probe_intraday_timeframes_declared == Tile(<<[of |-> "timeframes", thin |-> DEGRADED]>>, OK)

probe_no_stored_bar_on_decision_path == Tile(
    <<[of |-> "engine source", gone |-> NOT_MEASURED, wrong |-> FAILING]>>, OK)

(* A governed bot down or off, and another one up, before one merely down. *)
probe_only_perp_and_spot_running == Tile(
    <<[of |-> "governed bots", gone |-> FAILING, stale |-> FAILING, off |-> FAILING],
      [of |-> "other bots", live |-> FAILING],
      [of |-> "off switches", gone |-> DEGRADED]>>, OK)

probe_swing_scope_is_perp_and_spot == Tile(<<[of |-> "off switches", gone |-> DEGRADED]>>, OK)

probe_swing_band_is_live == Tile(<<[of |-> "bands", swing |-> FAILING]>>, NOT_MEASURED)

probe_one_engine_not_two == Tile(
    <<[of |-> "engine modules", two |-> FAILING, gone |-> NOT_MEASURED],
      [of |-> "state directories", stray |-> DEGRADED]>>, OK)

probe_champion_promotion_is_gated == Tile(
    <<[of |-> "gate and trainer", gone |-> NOT_MEASURED, wrong |-> FAILING],
      [of |-> "alias history", gone |-> PARTIAL, empty |-> PARTIAL],
      [of |-> "newest champions", ungated |-> DEGRADED]>>, OK)

probe_reconciliation_is_current == Tile(
    <<[of |-> "reconciliation", gone |-> NOT_MEASURED, stale |-> DEGRADED]>>, OK)

-----------------------------------------------------------------------------
(* The standing rulings.                                                   *)
probe_store_offloaded == Tile(
    <<[of |-> "bucket", torn |-> NOT_MEASURED, gone |-> DEGRADED, empty |-> DEGRADED]>>, OK)

probe_memory_reachable == Tile(
    <<[of |-> "named memory", gone |-> NOT_MEASURED],
      [of |-> "generic memory", gone |-> DEGRADED, thin |-> DEGRADED]>>, OK)

probe_paper_engine_running == _fraction({"gone", "torn", "stale"})

(* What a first success left in the cache is all there is to see of a pass.*)
probe_wall_pass_completes == Tile(
    <<[of |-> "probe cache", gone |-> NOT_MEASURED], [of |-> "page", gone |-> PARTIAL],
      [of |-> "probe cache", thin |-> PARTIAL], [of |-> "page", stale |-> DEGRADED]>>, OK)

probe_hour_pruning_enabled == _fraction_of(
    <<[of |-> "datasets", gone |-> NOT_MEASURED]>>, {"legacy"})

(* The newest hour is not judged; a sealed hour without a part is skipped. *)
probe_sealed_hour_compacted == _fraction_of(
    <<[of |-> "sealed hours", gone |-> NOT_MEASURED, young |-> NOT_MEASURED,
       empty |-> NOT_MEASURED]>>, {"scattered"})

probe_poll_scan_cost == Tile(
    <<[of |-> "bars", gone |-> NOT_MEASURED, unpartitioned |-> DEGRADED],
      [of |-> "count of fragments", unfinished |-> PARTIAL, wrong |-> DEGRADED]>>, OK)

probe_enforcement_live == Tile(
    <<[of |-> "hooks", gone |-> NOT_MEASURED, thin |-> PARTIAL]>>, OK)

probe_rulings_register_loads == Tile(
    <<[of |-> "register", gone |-> NOT_MEASURED, torn |-> DEGRADED]>>, OK)
probe_spine_parses == Tile(<<[of |-> "plan", gone |-> NOT_MEASURED, torn |-> DEGRADED]>>, OK)
probe_spine_present == Tile(<<[of |-> "plan", gone |-> NOT_MEASURED, thin |-> PARTIAL]>>, OK)
probe_scope_arithmetic == Tile(
    <<[of |-> "plan and register", gone |-> NOT_MEASURED, torn |-> DEGRADED],
      [of |-> "covered rulings", thin |-> PARTIAL]>>, OK)
probe_authority_chain_consistent == Tile(
    <<[of |-> "marks of authority", gone |-> DEGRADED, thin |-> PARTIAL]>>, OK)
probe_reconciliation_sweeps == Tile(
    <<[of |-> "plan", gone |-> NOT_MEASURED, torn |-> DEGRADED],
      [of |-> "members", unassigned |-> PARTIAL]>>, OK)

_board_freshness(page) == Tile(<<[of |-> page, gone |-> NOT_MEASURED, stale |-> DEGRADED]>>, OK)
probe_plan_board_rendered == _board_freshness("plan board")
probe_ruling_conformance == _board_freshness("ruling board")

probe_perp_universe_measured == Tile(
    <<[of |-> "universe report", gone |-> NOT_MEASURED, torn |-> NOT_MEASURED,
       inconsistent |-> FAILING, refused |-> FAILING, empty |-> NOT_MEASURED, stale |-> DEGRADED],
      [of |-> "deep symbols", gone |-> PARTIAL]>>, OK)

-----------------------------------------------------------------------------
(* The tiles of a bot on its own board, by its heartbeat and its fills:    *)
(* statuswall/segment_tiles.py.  A heartbeat without a time is very old;   *)
(* only the status asks how old one is.                                    *)
LIVE == "LIVE"
STALE == "STALE"
OFF == "OFF"

read_segment == Tile(
    <<[of |-> "heartbeat", gone |-> NOT_MEASURED, torn |-> NOT_MEASURED, off |-> OFF,
       stale |-> STALE, undated |-> STALE]>>, LIVE)

AnyHeartbeat == [of |-> "heartbeat", gone |-> NOT_MEASURED, torn |-> NOT_MEASURED,
                 off |-> Pass, stale |-> Pass, undated |-> Pass]

_declared_capital_block == Tile(
    <<AnyHeartbeat,
      [of |-> "capital block", gone |-> NOT_MEASURED, ungoverned |-> "not governed",
       rejected |-> "NO CAPITAL DECLARATION"]>>, "declared")

(* The badge of the brain, of whose maker a heartbeat without one is silent.*)
badge_of_brain == Tile(
    <<AnyHeartbeat,
      [of |-> "brain", rule |-> "RULE BRAIN", claiming |-> "EDGE CLAIM"],
      [of |-> "warm-up", gone |-> Pass, thin |-> "WARMING UP"]>>, "LEARNED")

live_row == Tile(
    <<AnyHeartbeat,
      [of |-> "live fit", gone |-> NOT_MEASURED, unresolved |-> NOT_MEASURED,
       breached |-> "BREACHED"]>>, "holds")

(* A fill without a rate is left out of every figure, and counted; with no *)
(* close left there is no return.                                          *)
SegmentFills == [of |-> "fills", gone |-> NOT_MEASURED, torn |-> Pass]

_capital_block == Tile(
    <<SegmentFills, [of |-> "closes", gone |-> NOT_MEASURED],
      [of |-> "rates of the fills", thin |-> "unconvertible"]>>, "returns")

winrate == Tile(<<[of |-> "closes", gone |-> "too few", thin |-> "too few", torn |-> Pass]>>, "rate")

_excursion_cell == Tile(
    <<[of |-> "peak of the fill", gone |-> "dash", torn |-> "dash"],
      [of |-> "rate of the fill", gone |-> Pass, torn |-> Pass],
      [of |-> "samples", thin |-> "few samples", gone |-> Pass]>>, "peak")

-----------------------------------------------------------------------------
(* What the wall shows above its probes: wall_page.py.  Of the reports only*)
(* those there are count, so that none at all is OK.                       *)
_system_banner == Tile(
    <<[of |-> "capture process", dead |-> STOPPED, old |-> FAILING, gone |-> FAILING]>>, OK)

venues_capturing == Tile(<<[of |-> "venues", gone |-> FAILING]>>, OK)

(* Data of today is 0 hours old, which the tile takes for no data: it is OK*)
(* in the first two hours after the newest day alone.                      *)
newest_data == Tile(
    <<[of |-> "newest data", gone |-> STOPPED, stale |-> STOPPED, today |-> STOPPED]>>, OK)

_of_reports(bad) == Tile(<<[of |-> "reports", gone |-> Pass, wrong |-> bad]>>, OK)
silence_events == _of_reports(DEGRADED)
corrupting_events == _of_reports(FAILING)
supervisor_restarts == Tile(<<[of |-> "restarts", gone |-> Pass, wrong |-> DEGRADED]>>, OK)

(* And beside the phases of the plan: build_progress.py.                   *)
count_unresolved_ledger_rows == Tile(
    <<[of |-> "ledger", gone |-> NOT_MEASURED, empty |-> Pass, unresolved |-> "rows"]>>, "0 rows")

probe_forward_paper == Tile(
    <<[of |-> "journal directory", gone |-> "NOT RUNNING"],
      [of |-> "paper heartbeat", gone |-> "NOT RUNNING", torn |-> "NOT RUNNING",
       stale |-> "NOT RUNNING"]>>, "RUNNING")

-----------------------------------------------------------------------------
(* The blotter (paper/blotter.py, blotter_page.py): a line that is torn is *)
(* passed over, and nothing asks when the engine last wrote one.           *)
JournalledFills == [of |-> "fills", gone |-> "no fills", empty |-> "no fills", torn |-> Pass,
                    stale |-> Pass]

LotsLeft == [of |-> "lots", gone |-> "no open positions"]
_open_section == Tile(<<JournalledFills, LotsLeft>>, "positions")

(* With fills of one side only no trade can have closed, for a fill closes *)
(* the lots of the other side, first in first out, and opens what is left. *)
_closed_section == Tile(
    <<JournalledFills, [of |-> "sides", thin |-> "ZERO closed round trips"]>>, "trades")

blotter_claims == Tile(
    <<JournalledFills, [of |-> "edge claim", gone |-> "no edge claim"],
      [of |-> "calibration", thin |-> "uncalibrated"]>>, "performance")

-----------------------------------------------------------------------------
(* The console of the capture: capture_console.py over capture_health.py.  *)
(* The refusals of the ledger outrank the age of a file; a ledger that     *)
(* cannot be parsed, or is not there, refuses nothing.                     *)
Refusals == [of |-> "refusals", there |-> "quarantined", torn |-> Pass, gone |-> Pass]

LastFrame == [of |-> "last frame", stale |-> "stale"]
stream_mark == Tile(
    <<[of |-> "hour file", gone |-> "no files today"], Refusals, LastFrame>>, "live")

(* Every hour file of the day is a stream of its own here, so that a stream*)
(* whose hour turned has one that is stale.                                *)
streams_live == Tile(
    <<[of |-> "hour files", gone |-> "bad", stale |-> "bad", rotated |-> "bad"],
      [Refusals EXCEPT !.there = "bad"]>>, "ok")

(* Bytes of one stream are enough for the day to be present.               *)
capture_status == Tile(
    <<[of |-> "bytes of the day", gone |-> "absent", empty |-> "absent",
       never |-> "uninitialised", thin |-> Pass]>>, "present")

(* A silence counts until a file of the stream, under any of its names, was*)
(* written after it.                                                       *)
Silences == [of |-> "silence events", gone |-> Pass, torn |-> Pass, answered |-> Pass,
             there |-> "silent"]
silent_stream_symbols == Tile(<<Silences>>, "none silent")

(* A rate measured over too little history, or of nothing written, is not  *)
(* shown as days; a runway is judged by the days of the worst venue.       *)
History == [of |-> "history", gone |-> "measuring", thin |-> "measuring"]
BytesWritten == [of |-> "bytes written", gone |-> "unmeasured"]
DaysLeft == [of |-> "days left", thin |-> "warn", gone |-> "bad"]
disk_runway == Tile(<<History, BytesWritten, DaysLeft>>, "ok")

-----------------------------------------------------------------------------
SEGMENT_PROBES ==
    {probe_segment_engine_running, probe_perp_engine_running, probe_live_feed_fresh,
     probe_intraday_data_lag, probe_segment_features_current, probe_perp_features_current,
     probe_segment_brains_reason, probe_perp_bull_agent_reasons, probe_perp_bear_agent_reasons,
     probe_segment_arbiter_decides, probe_perp_arbiter_decides, probe_profit_tail_authority,
     probe_perp_bands_journalled, probe_perp_risk_gate_refuses, probe_perp_band_performance,
     probe_perp_promotion_gate, probe_segment_tiles_measured, probe_perp_tile_measured,
     probe_board_generated, probe_spot_universe_measured, probe_dated_universe_measured,
     probe_options_universe_measured, probe_universe_is_the_venues, probe_universe_breadth,
     probe_segments_captured, probe_segment_bots, probe_three_bots, probe_uptime_continuous,
     probe_training_set_built, probe_model_registered_with_loss, probe_brains_are_learned,
     probe_beliefs_carry_provenance, probe_calibration_updates_live, probe_profit_tail_is_learned,
     probe_capital_and_pnl_reported, probe_champion_reload_current, probe_axis_tests_run,
     probe_retrainer_running, probe_axis_verdicts_present, probe_intelligence_axes,
     probe_permanent_rules_present, probe_build_order_current, probe_probes_implemented,
     probe_capital_declaration_is_enforced, probe_excursions_journalled_on_close,
     probe_pool_never_overcommits, probe_margin_per_trade_within_band,
     probe_leverage_declared_and_bounded, probe_intraday_timeframes_declared,
     probe_no_stored_bar_on_decision_path, probe_only_perp_and_spot_running,
     probe_swing_scope_is_perp_and_spot, probe_swing_band_is_live, probe_one_engine_not_two,
     probe_champion_promotion_is_gated, probe_reconciliation_is_current}

RULING_PROBES ==
    {probe_store_offloaded, probe_memory_reachable, probe_paper_engine_running,
     probe_wall_pass_completes, probe_hour_pruning_enabled, probe_sealed_hour_compacted,
     probe_poll_scan_cost, probe_enforcement_live, probe_rulings_register_loads,
     probe_spine_parses, probe_spine_present, probe_scope_arithmetic,
     probe_authority_chain_consistent, probe_reconciliation_sweeps, probe_plan_board_rendered,
     probe_ruling_conformance, probe_perp_universe_measured}

SEGMENT_TILES ==
    {read_segment, _declared_capital_block, badge_of_brain, live_row, _capital_block, winrate,
     _excursion_cell}
SYSTEM_TILES ==
    {_system_banner, venues_capturing, newest_data, silence_events, corrupting_events,
     supervisor_restarts}
PROGRESS_TILES == {count_unresolved_ledger_rows, probe_forward_paper}
BLOTTER_TILES == {_open_section, _closed_section, blotter_claims}
CONSOLE_TILES == {stream_mark, streams_live, capture_status, silent_stream_symbols, disk_runway}
=============================================================================
