-------------------------- MODULE MCPipelineEpisode --------------------------
(* PipelineEpisode with two episodes of the talent and two recruiters; neither *)
(* the episodes nor the recruiters are told apart by anything.                *)
EXTENDS PipelineEpisode, TLC

CONSTANTS e1, e2, r1, r2, w1

PeopleSymmetry == Permutations({r1, r2}) \union Permutations({e1, e2})
=============================================================================
