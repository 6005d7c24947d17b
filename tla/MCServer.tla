------------------------------ MODULE MCServer ------------------------------
(***************************************************************************)
(* An instance of Server: CKB and Doge, and one chain whose parser is made *)
(* only when it is switched on, as for eth, bsc, polygon and tron.         *)
(***************************************************************************)
EXTENDS Server

mcChains == {"ckb", "eth", "doge"}
mcAlwaysBuilt == {"ckb", "doge"}

=============================================================================
