--------------------------- MODULE MCChainRecords ---------------------------
(* The chains of MCTradeManager, with the thread that stores them. *)
EXTENDS MCTradeManager, ChainRecords
=============================================================================
