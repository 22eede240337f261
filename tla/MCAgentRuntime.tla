--------------------------- MODULE MCAgentRuntime ---------------------------
(***************************************************************************)
(* Instances of AgentRuntime for TLC.                                      *)
(***************************************************************************)
EXTENDS AgentRuntime, TLC

Content(agent, llm, mode, rest) ==
  [valid |-> TRUE, agent |-> agent, llm |-> llm,
   bus |-> [policyCommands |-> mode, rest |-> rest]]

On       == Content("enabled", "m1", "enabled", "r1")
OnTuned  == Content("enabled", "m2", "enabled", "r1")
OnMoved  == Content("enabled", "m2", "enabled", "r2")
Off      == Content("disabled", "m1", "enabled", "r1")
Removed  == Content("absent", "m1", "enabled", "r1")
Broken   == [On EXCEPT !.valid = FALSE]

JustOn      == {On}
OnOrTuned   == {On, OnTuned}
AllContents == {On, OnTuned, OnMoved, Off, Removed, Broken}

AtZero    == [p \in Partitions |-> 0]
Symmetry  == Permutations(Partitions)
=============================================================================
