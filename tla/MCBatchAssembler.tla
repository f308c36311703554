-------------------------- MODULE MCBatchAssembler --------------------------
(* TLC instance of BatchAssembler. *)
EXTENDS BatchAssembler, TLC
=============================================================================
