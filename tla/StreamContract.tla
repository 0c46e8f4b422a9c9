---------------------------- MODULE StreamContract ----------------------------
(***************************************************************************)
(* What the client of one chat call may observe: either one cached reply,  *)
(* or chunks of text followed by at most one receipt, which covers all of  *)
(* them and after which nothing comes.  The stream may end at any moment,  *)
(* and it does end.  The cache, the gauges, the configuration and the other*)
(* calls of ChatStream are invisible here.                                 *)
(***************************************************************************)
EXTENDS Naturals

CONSTANT None

VARIABLES
  phase,     \* "unasked" | "asked" | "streaming" | "signed" | "closed"
  chunks,    \* chunks of text received
  receipt,   \* how many chunks the receipt received covers, or None
  cached     \* the answer came out of the cache

vars == <<phase, chunks, receipt, cached>>

Init == phase = "unasked" /\ chunks = 0 /\ receipt = None /\ cached = FALSE

Ask ==
  /\ phase = "unasked"
  /\ phase' = "asked"
  /\ UNCHANGED <<chunks, receipt, cached>>

Replay ==
  /\ phase = "asked"
  /\ phase' = "closed"
  /\ cached' = TRUE
  /\ UNCHANGED <<chunks, receipt>>

Deliver ==
  /\ phase \in {"asked", "streaming"}
  /\ phase' = "streaming"
  /\ chunks' = chunks + 1
  /\ UNCHANGED <<receipt, cached>>

Sign ==
  /\ phase = "streaming"
  /\ phase' = "signed"
  /\ receipt' = chunks
  /\ UNCHANGED <<chunks, cached>>

End ==
  /\ phase \in {"asked", "streaming", "signed"}
  /\ phase' = "closed"
  /\ UNCHANGED <<chunks, receipt, cached>>

Next == Ask \/ Replay \/ Deliver \/ Sign \/ End

Closes == phase = "asked" ~> phase = "closed"

Safety == Init /\ [][Next]_vars
Spec == Safety /\ Closes
=============================================================================
