---------------------------- MODULE MCToolGateway ----------------------------
(***************************************************************************)
(* Instances of ToolGateway for TLC, with the registry and the tiers of the*)
(* source and a second server beside the one it configures.                *)
(***************************************************************************)
EXTENDS ToolGateway, TLC

CONSTANTS internal, remote, calculate_execution_time, search_web

MCOffers == internal :> {calculate_execution_time, search_web} @@ remote :> {search_web}

MCRegistry ==
  "general_memory" :> {calculate_execution_time, search_web}
    @@ "research_papers" :> {search_web} @@ "vision_detection" :> {}

MCModelOf ==
  "openai" :> (1 :> "gpt-4o-mini" @@ 2 :> "gpt-4o")
    @@ "claude" :> (1 :> "haiku" @@ 2 :> "sonnet")

GatewaySymmetry == Permutations(Keys)
=============================================================================
