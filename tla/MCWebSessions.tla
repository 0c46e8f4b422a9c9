--------------------------- MODULE MCWebSessions ---------------------------
(***************************************************************************)
(* Instances of WebSessions for TLC.                                       *)
(***************************************************************************)
EXTENDS WebSessions, TLC

WebSymmetry ==
  Permutations(Browsers) \cup Permutations(Accounts) \cup Permutations(Names)
    \cup Permutations(Requests)
=============================================================================
