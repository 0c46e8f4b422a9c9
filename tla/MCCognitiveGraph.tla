--------------------------- MODULE MCCognitiveGraph ---------------------------
(***************************************************************************)
(* Instances of CognitiveGraph for TLC.                                    *)
(***************************************************************************)
EXTENDS CognitiveGraph, TLC

CONSTANTS general_memory, research_papers, unknown_domain,
          search, lookup, fetch

MCLanes == {general_memory, research_papers}
MCDomains == MCLanes \cup {unknown_domain}

planned(i, lane) == [id |-> i, target_agent |-> lane]

(* No task; one, also with id 0; two on one lane or on both; ids that       *)
(* repeat or are out of order.                                             *)
MCPlans ==
  {<<>>, <<planned(0, general_memory)>>, <<planned(1, research_papers)>>}
    \cup {<<planned(1, a), planned(2, b)>> : a, b \in MCLanes}
    \cup {<<planned(1, general_memory), planned(1, research_papers)>>,
          <<planned(2, research_papers), planned(1, general_memory)>>}

(* For the runs where the tool loop is not the subject.                    *)
MCShortPlans ==
  {<<>>, <<planned(1, general_memory), planned(2, research_papers)>>,
   <<planned(1, general_memory), planned(1, research_papers)>>}

CallSymmetry == Permutations({search, lookup, fetch})
=============================================================================
