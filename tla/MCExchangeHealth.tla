-------------------------- MODULE MCExchangeHealth --------------------------
(***************************************************************************)
(* ExchangeHealth with a window of two ticks and room for the streak of    *)
(* rate limits to trip a breaker the error rate would not.                 *)
(***************************************************************************)
EXTENDS ExchangeHealth
=============================================================================
