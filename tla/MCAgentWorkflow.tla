-------------------------- MODULE MCAgentWorkflow --------------------------
(* Two iterations at most, two tool calls a reply; the faults a provider   *)
(* can have, with the tokens of their texts.                               *)
EXTENDS AgentWorkflow

MCModels == {"opus", "haiku"}
MCIterations == {0, 1}
Fault(f, s) == [fault |-> f, says |-> s]

(* The second has no token: "bad_request: unknown provider" and            *)
(* "bad_request: response contained no choices" have none.  The third is a *)
(* refused request whose text has a 429 in it, as an id may.               *)
MCFaults ==
  {Fault("refused", {"refusal"}), Fault("malformed", {}),
   Fault("malformed", {"rate_limit", "invalid_request"})}
=============================================================================
