------------------------------ MODULE MCStores ------------------------------
(***************************************************************************)
(* Instances of TraceStore and ExecStore for TLC, in one run.  The two     *)
(* stores share nothing, so that only one of them is used in a behaviour.  *)
(*                                                                         *)
(* The trace: a session whose log overflows twice, with and without events *)
(* of an execution, another session of the same execution, and the log of  *)
(* the events without a session.  The executions: a call, its repetition,  *)
(* and a call with the same idempotency key for another execution, with    *)
(* two updates of the first.                                               *)
(***************************************************************************)
EXTENDS TraceStore, ExecStore

VARIABLE used

CONSTANTS busy, quiet, call, again, other, accept, finish, first, second, shared

MCSessions == {busy, quiet}
MCAppended == [s \in Logs |-> IF s = busy THEN 12 ELSE 1]
MCPuts == {call, again, other}
MCUpdates == {accept, finish}
MCExecOf == [c \in Puts \cup Updates |-> IF c = other THEN second ELSE first]
MCKeyOf == [e \in ExecIds |-> shared]

MCInit ==
    /\ TraceInit /\ ExecInit
    /\ used \in {"trace", "execs"}
    /\ used = "trace" => adapter = "memory"

TraceStep == used = "trace" /\ TraceNext /\ UNCHANGED <<execVars, used>>

ExecStep == used = "execs" /\ ExecNext /\ UNCHANGED <<traceVars, used>>

MCNext == TraceStep \/ ExecStep

MCSpec == MCInit /\ [][MCNext]_<<traceVars, execVars, used>>
=============================================================================
