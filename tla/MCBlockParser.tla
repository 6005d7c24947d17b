--------------------------- MODULE MCBlockParser ---------------------------
(***************************************************************************)
(* Instances of BlockParser. Every value is in the cfg of the run: Retain  *)
(* is 2 instead of 20, ConfirmNum 1 or 2, so that a short chain is longer *)
(* than what the parser remembers.                                         *)
(***************************************************************************)
EXTENDS BlockParser

=============================================================================
