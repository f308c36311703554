---------------------------- MODULE MCCgroupCache ----------------------------
(* TLC instance of CgroupCache. *)
EXTENDS CgroupCache
=============================================================================
