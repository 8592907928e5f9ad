----------------------------- MODULE MCBarFeed ------------------------------
(***************************************************************************)
(* The instance of BarFeed that TLC checks: two symbols, the second one    *)
(* steady; the bounds are in bar_feed.cfg and feed_baseline.cfg.           *)
(***************************************************************************)
EXTENDS BarFeed
=============================================================================
