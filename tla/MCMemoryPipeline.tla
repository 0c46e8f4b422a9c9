-------------------------- MODULE MCMemoryPipeline --------------------------
(***************************************************************************)
(* Instances of MemoryPipeline for TLC.  There is no symmetry, since one   *)
(* run checks a liveness property.                                         *)
(***************************************************************************)
EXTENDS MemoryPipeline
=============================================================================
