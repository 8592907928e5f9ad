----------------------------- MODULE MCBarStore -----------------------------
(***************************************************************************)
(* The instance of BarStore that TLC checks: the station runs a save and a *)
(* tagging, the command line another save; two months of two timestamps,   *)
(* the first one with bars of two timeframes.                              *)
(***************************************************************************)
EXTENDS BarStore

CONSTANTS web, cli, tag     \* the jobs

MCProcess == [j \in {web, cli, tag} |-> IF j = cli THEN "cli" ELSE "station"]
MCMonthOf == [t \in 1..4 |-> (t + 1) \div 2]
MCStamps  == 1..4

\* The first bar of the first month; its two bars and the last one's daily
\* twin; the last bar of the first month and the first of the second; the
\* second month.
MCBatches == {
    {<<1, "1h">>},
    {<<1, "1h">>, <<2, "1h">>, <<2, "1d">>},
    {<<2, "1h">>, <<3, "1h">>},
    {<<3, "1h">>, <<4, "1h">>}}
=============================================================================
