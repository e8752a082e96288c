---- MODULE MCAgentService ----
(* A tool that is registered and a name that is not; an override of a model *)
(* the router knows and one of a model it does not.  The limits are those   *)
(* around the boundaries, a negative one, and one above what the graph      *)
(* allows.                                                                  *)
EXTENDS AgentService, TLC

MCTasks ==
  { [limit |-> -1, override |-> None],
    [limit |-> 0, override |-> None], [limit |-> 1, override |-> "claude"],
    [limit |-> 2, override |-> "unknown"], [limit |-> 3, override |-> None] }

====
