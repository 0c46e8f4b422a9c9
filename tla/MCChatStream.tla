---------------------------- MODULE MCChatStream ----------------------------
(***************************************************************************)
(* Instances of ChatStream for TLC.                                        *)
(***************************************************************************)
EXTENDS ChatStream, TLC

CONSTANTS r1, r2, member, visitor, ask, rephrase, other

(* "rephrase" is close enough to "ask" for the cache; "other" is not.      *)
MCSimilar ==
  [p \in Prompts |-> IF p = other THEN {other} ELSE {ask, rephrase} \cap Prompts]

RequestSymmetry == Permutations({r1, r2})
=============================================================================
