------------------------------ MODULE WallTiles ------------------------------
(***************************************************************************)
(* The tiles of the status wall (statuswall/evidence.py), each as its probe*)
(* decides it: the pieces of evidence it reads, in the order of its        *)
(* returns, and what it returns when a piece is not in order; `best' is    *)
(* what it returns when all are.  A piece of evidence is "sound" or in one *)
(* of the conditions the probe tells apart:                                *)
(*     gone    not there              torn    cannot be read, or raises    *)
(*     empty   there, with nothing    thin    there for some, not for all  *)
(*     stale   too old                wrong   there, and bad               *)
(* and a few of a probe's own.  A condition the probe sees and lets pass   *)
(* is Pass.  An exception a probe does not catch is FAILING (assess).      *)
(***************************************************************************)
EXTENDS Naturals, Sequences

OK == "ok"
PARTIAL == "partial"
DEGRADED == "degraded"
STOPPED == "stopped"
FAILING == "failing"
NOT_MEASURED == "not measured"
NOT_BUILT == "not built"
Pass == "pass"

(* One part of a tile that counts its parts is missing; `none' is what the *)
(* tile shows when all of them are.                                        *)
Missing == "missing"

Tile(asks, best) == [asks |-> asks, best |-> best, none |-> NOT_MEASURED]

(* The conditions a piece of evidence can be in but sound.                 *)
Conditions(ask) == DOMAIN ask \ {"of"}

(* Evidence that measure_system takes once, before the probes of a pass;   *)
(* the rest is read by the probe itself.                                   *)
Facts == {"capture process", "streams", "reports", "restarts", "disk runway", "venues", "newest data"}

Capture == [of |-> "capture process", dead |-> STOPPED]
Reports == [of |-> "reports", gone |-> NOT_BUILT]
StoredBars == [of |-> "bars", gone |-> NOT_BUILT, torn |-> FAILING, empty |-> DEGRADED]

-----------------------------------------------------------------------------
(* A subscribed stream that never spoke fails; one nobody subscribed to is *)
(* not built; data of a route that is not silent answers for all.          *)
_silent_stream_probe ==
    <<[of |-> "streams", silent |-> FAILING, gone |-> NOT_BUILT]>>

probe_trade_tape == Tile(<<[of |-> "streams", gone |-> NOT_BUILT], Capture>>, PARTIAL)

probe_l2_depth == Tile(<<[of |-> "streams", gone |-> NOT_BUILT], Capture>>, OK)

probe_liquidation_feed == Tile(_silent_stream_probe \o <<Capture>>, OK)

probe_funding_rates == Tile(_silent_stream_probe \o <<Capture>>, OK)

probe_open_interest == Tile(_silent_stream_probe \o <<Capture>>, OK)

(* The capture and the reconciliation, and the weaker of the two.          *)
probe_mark_price == Tile(_silent_stream_probe \o
    <<[of |-> "reconciliation", torn |-> PARTIAL, empty |-> PARTIAL,
       unjudged |-> PARTIAL, wrong |-> DEGRADED],
      Capture>>, OK)

probe_gap_detection == Tile(
    <<Reports,
      [of |-> "reconstructed bars", torn |-> PARTIAL, empty |-> PARTIAL, blended |-> FAILING],
      [of |-> "bars to compare with", gone |-> PARTIAL]>>, OK)

(* A gap counts only while the capture runs.                               *)
probe_sequence_gap_detection == Tile(
    <<Reports, Capture, [of |-> "reports", wrong |-> DEGRADED]>>, OK)

probe_resource_watchdog == Tile(<<[of |-> "disk runway", wrong |-> DEGRADED]>>, OK)

(* A recorded halt outranks its age; a registry that nothing fed is not    *)
(* armed; then the alarms of the reports.                                  *)
probe_venue_health == Tile(
    <<Reports,
      [of |-> "halts", wrong |-> FAILING, gone |-> DEGRADED, torn |-> DEGRADED,
       stale |-> DEGRADED],
      [of |-> "reports", wrong |-> DEGRADED]>>, OK)

probe_data_quality_score == Tile(
    <<Reports, [of |-> "streams", gone |-> NOT_BUILT],
      [of |-> "reports", wrong |-> DEGRADED]>>, OK)

probe_capture_supervisor == Tile(
    <<[of |-> "restarts", gone |-> NOT_BUILT],
      [of |-> "capture process", dead |-> STOPPED, gone |-> NOT_BUILT]>>, OK)

-----------------------------------------------------------------------------
(* The store, measured through the reader.  These five read much, so their *)
(* answers are kept for a while: see measured_periodically of StatusWall.  *)
_probe_bitemporal_store_now == Tile(
    <<StoredBars, [of |-> "newest part", stale |-> STOPPED],
      [of |-> "captured symbols", gone |-> Pass, thin |-> DEGRADED]>>, OK)

_probe_bar_price_validity_now == Tile(
    <<StoredBars, [of |-> "price columns", gone |-> DEGRADED],
      [of |-> "prices served", wrong |-> FAILING]>>, OK)

_probe_clock_gated_access_now == Tile(
    <<StoredBars, [of |-> "read before the earliest row", wrong |-> FAILING],
      [of |-> "read at the middle row", wrong |-> FAILING]>>, OK)

_probe_consolidated_price_now == Tile(
    <<[of |-> "book", gone |-> NOT_BUILT, torn |-> NOT_MEASURED],
      [of |-> "prices to consolidate", gone |-> DEGRADED]>>, PARTIAL)

_probe_promotion_readiness_now == Tile(
    <<[of |-> "observed funding", gone |-> NOT_MEASURED, empty |-> NOT_MEASURED, torn |-> FAILING],
      [of |-> "days observed", thin |-> PARTIAL]>>, OK)

probe_wash_trading_discount == Tile(
    <<[of |-> "bars to corroborate", torn |-> NOT_MEASURED, empty |-> NOT_BUILT]>>, PARTIAL)

probe_peg_monitor == Tile(
    <<[of |-> "pegs to judge", torn |-> NOT_MEASURED, empty |-> NOT_BUILT]>>, PARTIAL)

probe_spot_perp_basis == Tile(
    <<[of |-> "basis rows", torn |-> NOT_MEASURED, empty |-> NOT_BUILT],
      [of |-> "dated curve", torn |-> PARTIAL, empty |-> PARTIAL]>>, OK)

(* The receipt of the fees comes before the datasets, and what both lack   *)
(* is told apart.                                                          *)
probe_cost_engine == Tile(
    <<[of |-> "fee receipt and datasets", neither |-> NOT_BUILT, unverified |-> PARTIAL,
       uncharged |-> PARTIAL],
      [of |-> "verified venues", thin |-> PARTIAL, gone |-> Pass],
      [of |-> "fee receipt", stale |-> PARTIAL, undated |-> FAILING]>>, OK)

(* Evictions first, then the age and the absence of reports, then headroom.*)
probe_writer_descriptor_pool == Tile(
    <<Reports,
      [of |-> "reports", gone |-> NOT_MEASURED],
      [of |-> "reports", evicting |-> DEGRADED],
      [of |-> "reports", stale |-> PARTIAL, thin |-> PARTIAL],
      [of |-> "reports", tight |-> DEGRADED]>>, OK)

probe_unsupported_claims == Tile(
    <<[of |-> "requirements ledger", gone |-> NOT_MEASURED],
      [of |-> "claims of built", wrong |-> DEGRADED]>>, OK)

probe_axis_verdicts == Tile(
    <<[of |-> "modules", gone |-> NOT_MEASURED],
      [of |-> "verdicts", wrong |-> FAILING],
      [of |-> "axes", failed |-> DEGRADED],
      [of |-> "share judged", few |-> NOT_MEASURED, thin |-> PARTIAL]>>, OK)

probe_feature_staleness == Tile(
    <<[of |-> "feature rows", torn |-> NOT_MEASURED],
      [of |-> "stamps", gone |-> FAILING],
      [of |-> "values", empty |-> PARTIAL, stale |-> DEGRADED]>>, OK)

(* One of the two venues traded on is enough for the reading to pass.      *)
probe_exchange_reserves == Tile(
    <<[of |-> "reserves", gone |-> NOT_BUILT, empty |-> NOT_BUILT, torn |-> FAILING],
      [of |-> "venues traded on", gone |-> PARTIAL, thin |-> Pass],
      [of |-> "newest poll", stale |-> DEGRADED]>>, OK)

-----------------------------------------------------------------------------
(* A feature run on the store: rows that something reads, and nothing less,*)
(* are green; the wall itself is no reader of a feature.                   *)
Computed ==
    [of |-> "feature rows", torn |-> NOT_MEASURED, empty |-> NOT_MEASURED, refused |-> DEGRADED]
_consumers_of == [of |-> "readers of the feature", gone |-> PARTIAL]

_probe_computed_feature == Tile(<<Computed, _consumers_of>>, OK)

probe_realized_volatility == _probe_computed_feature
probe_microprice == _probe_computed_feature
probe_order_flow_imbalance == _probe_computed_feature
probe_absorption == _probe_computed_feature
probe_kyle_lambda == _probe_computed_feature
probe_fractional_differentiation == _probe_computed_feature
probe_beta_to_btc == _probe_computed_feature
probe_cross_sectional == _probe_computed_feature
probe_volatility_regime == _probe_computed_feature
probe_funding_basis == _probe_computed_feature

(* A claim that must also hold on the data: an effect at its floor, or a   *)
(* forecast that beats the random walk.                                    *)
probe_calendar_effects ==
    Tile(<<Computed, [of |-> "effect", gone |-> PARTIAL], _consumers_of>>, OK)
probe_har_rv ==
    Tile(<<Computed, [of |-> "forecast", beaten |-> PARTIAL], _consumers_of>>, OK)

probe_universe_coverage == Tile(
    <<[of |-> "symbols watched", torn |-> NOT_MEASURED, empty |-> NOT_MEASURED],
      [of |-> "segments", thin |-> DEGRADED],
      [of |-> "newest rows", stale |-> DEGRADED]>>, PARTIAL)

-----------------------------------------------------------------------------
(* Controls that are exercised on every pass: one that raises, or answers  *)
(* against its rule, fails.                                                *)
Exercise == [of |-> "exercise", torn |-> FAILING, wrong |-> FAILING]
Exercised(best) == Tile(<<Exercise>>, best)

_exercise_exit_policy == Exercised(PARTIAL)
probe_ratchet_profit_lock == _exercise_exit_policy
probe_deterministic_exit == _exercise_exit_policy
probe_stacked_ensemble == Exercised(PARTIAL)
probe_ledger_meta_model == Exercised(PARTIAL)
probe_champion_challenger == Exercised(PARTIAL)
probe_walk_forward == Exercised(PARTIAL)
probe_model_registry == Exercised(PARTIAL)
probe_gradient_boosted_trees == Exercised(PARTIAL)
probe_meta_labelling == Exercised(PARTIAL)
probe_sample_uniqueness == Exercised(OK)
probe_triple_barrier_labelling == Exercised(OK)
probe_naive_baseline_gate == Exercised(OK)

probe_pre_trade_gate ==
    Tile(<<[of |-> "gate limits", gone |-> NOT_MEASURED, torn |-> NOT_MEASURED], Exercise>>,
         PARTIAL)

probe_paper_tail_cap ==
    Tile(<<[of |-> "live ceiling", gone |-> NOT_MEASURED, torn |-> NOT_MEASURED], Exercise>>,
         PARTIAL)

probe_funding_carry == Tile(
    <<[of |-> "dollar-quoted universe", gone |-> DEGRADED],
      [of |-> "selection", torn |-> FAILING, unhedged |-> FAILING]>>, PARTIAL)

-----------------------------------------------------------------------------
(* What runs, by its own records.                                          *)
probe_paper_blotter == Tile(
    <<[of |-> "fills", torn |-> NOT_MEASURED, empty |-> NOT_MEASURED],
      [of |-> "closed trades", gone |-> DEGRADED]>>, PARTIAL)

probe_paper_engine == Tile(
    <<[of |-> "journal", gone |-> NOT_BUILT],
      [of |-> "heartbeat", gone |-> NOT_MEASURED, torn |-> NOT_MEASURED, stale |-> STOPPED,
       edgeless |-> PARTIAL]>>, OK)

probe_participation_calibration == Tile(
    <<[of |-> "calibration receipt", gone |-> NOT_MEASURED, torn |-> FAILING,
       empty |-> NOT_MEASURED]>>, OK)

(* A ledger of outages that is gone reads as one without outages.          *)
probe_outage_detection == Tile(
    <<[of |-> "liveness stamp", gone |-> NOT_MEASURED, torn |-> NOT_MEASURED,
       stale |-> STOPPED],
      [of |-> "outages", wrong |-> DEGRADED, gone |-> Pass]>>, OK)

-----------------------------------------------------------------------------
(* The tiles whose answer is kept, and all tiles that measure something;   *)
(* probe_status_wall measures nothing.                                     *)
KeptTiles == {_probe_bitemporal_store_now, _probe_bar_price_validity_now,
         _probe_clock_gated_access_now, _probe_consolidated_price_now,
         _probe_promotion_readiness_now}

PROBES == KeptTiles \union
    {probe_trade_tape, probe_l2_depth, probe_liquidation_feed, probe_funding_rates,
     probe_open_interest, probe_mark_price, probe_gap_detection, probe_sequence_gap_detection,
     probe_resource_watchdog, probe_venue_health, probe_data_quality_score,
     probe_capture_supervisor, probe_wash_trading_discount, probe_peg_monitor,
     probe_spot_perp_basis, probe_cost_engine, probe_writer_descriptor_pool,
     probe_unsupported_claims, probe_axis_verdicts, probe_feature_staleness,
     probe_exchange_reserves, probe_realized_volatility, probe_microprice,
     probe_order_flow_imbalance, probe_absorption, probe_kyle_lambda,
     probe_fractional_differentiation, probe_beta_to_btc, probe_cross_sectional,
     probe_volatility_regime, probe_funding_basis, probe_calendar_effects, probe_har_rv,
     probe_universe_coverage, probe_ratchet_profit_lock, probe_deterministic_exit,
     probe_stacked_ensemble, probe_ledger_meta_model, probe_champion_challenger,
     probe_walk_forward, probe_model_registry, probe_gradient_boosted_trees,
     probe_meta_labelling, probe_sample_uniqueness, probe_triple_barrier_labelling,
     probe_naive_baseline_gate, probe_pre_trade_gate, probe_paper_tail_cap,
     probe_funding_carry, probe_paper_blotter, probe_paper_engine,
     probe_participation_calibration, probe_outage_detection}
=============================================================================
