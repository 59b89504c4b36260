------------------------------ MODULE MCPipeline ------------------------------
(***************************************************************************)
(* Pipeline with two symbols, two shards and short queues, so that every   *)
(* queue drops.                                                            *)
(***************************************************************************)
EXTENDS Pipeline

MCSymbolList == <<"BTC", "ETH">>
MCShardList  == <<"strat0", "strat1">>

==============================================================================
