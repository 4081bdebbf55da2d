------------------------------ MODULE Programs ------------------------------
(***************************************************************************)
(* The two ways a program is run for a sandbox: on the host, by the broker *)
(* (BrokerOps), and inside the sandbox, by its sbx-exec agent (SbxExec).   *)
(* They share nothing: one is explored with the other at rest, which       *)
(* reaches every state of both.                                            *)
(***************************************************************************)
EXTENDS BrokerOps, SbxExec

VARIABLE where     \* which of the two runs

programVars == <<where, vars, execVars>>

ProgramsInit ==
  /\ where \in {"host", "sandbox"} /\ Init /\ ExecInit
  /\ IF where = "host" THEN xfolder = "same" /\ xtty
     ELSE running = {} /\ \A r \in Request : op[r] = "exec"

ProgramsNext ==
  /\ UNCHANGED where
  /\ \/ where = "host" /\ Next /\ UNCHANGED execVars
     \/ where = "sandbox" /\ ExecNext /\ UNCHANGED vars

ProgramsSpec ==
  /\ ProgramsInit /\ [][ProgramsNext]_programVars
  /\ \A r \in Request : WF_vars(where = "host" /\ ThreadStep(r))
  /\ ExecFair

\* The types of both, and the count of requests the agent goes by when it
\* is to exit.
ProgramsTypeOK == TypeOK /\ ExecTypeOK

\* Every request to the broker is answered and its connection closed, however
\* its programs, helpers and units fail.
HostRequestsFinished == where = "host" => EveryRequestFinished

\* Nobody who asked for a program waits for ever: that, and the client of a
\* command that has exited returns.
EveryProgramEnds == HostRequestsFinished /\ RunReturns
=============================================================================
