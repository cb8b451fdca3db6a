----------------------------- MODULE MCAgentRuns -----------------------------
(* TLC instances of AgentRuns.  A fault between the server's rotation and  *)
(* the rename of the state file loses the token; SafeFaults leaves that    *)
(* window out, and ProfileFault is the one failure in it that the order of *)
(* the agent's own calls makes harmful.                                    *)
EXTENDS AgentRuns

AnyFault == Steps

ProfileFault == {"profile"}

SafeFaults == Steps \ {"refresh", "profile", "save"}
=============================================================================
