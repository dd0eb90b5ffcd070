---------------------------- MODULE MCTaskQueue ----------------------------
(***************************************************************************)
(* Instance of TaskQueue for TLC: three tasks of two tenants, of which the *)
(* pool serves one, with two priorities and two equal creation times.      *)
(***************************************************************************)
EXTENDS TaskQueue

CONSTANTS urgent, early, foreign, ours, theirs

MCTasks == {urgent, early, foreign}
MCTwoTasks == {urgent, foreign}
MCTenants == {ours, theirs}
MCTenantOf == [t \in Tasks |-> IF t = foreign THEN theirs ELSE ours]
MCPriority == [t \in Tasks |-> IF t = urgent THEN 1 ELSE 2]
MCCreatedAt == [t \in Tasks |-> IF t = urgent THEN 1 ELSE 0]
=============================================================================
