---------------------------- MODULE MCTradingLoop ----------------------------
(***************************************************************************)
(* TradingLoop on a few market data events.  The configurations differ in  *)
(* the sizes of the rings and of the connection and in whether SimEx may   *)
(* be missing or stop.                                                     *)
(***************************************************************************)
EXTENDS TradingLoop

==============================================================================
