--------------------------- MODULE MCSupervisorRpc ---------------------------
(* Instances of SupervisorRpc for TLC. *)
EXTENDS SupervisorRpc

\* List, UpdateSelf, and the requests that are answered Ok or Error.
AllAnswers ==
    [k \in Kinds |-> CASE k = "list" -> {"services"}
                       [] k = "update" -> {"ok", "nochange"}
                       [] OTHER -> {"ok", "error"}]
=============================================================================
