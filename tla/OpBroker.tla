------------------------------ MODULE OpBroker ------------------------------
(***************************************************************************)
(* op-broker as a whole: the fills (OpFill) and the links they come over   *)
(* in VM mode (OpUplink).  The two share no variable: a connection OpFill  *)
(* serves is a link of OpUplink in "serve", and neither looks at what the  *)
(* other keeps.  So each is explored with the other at rest, which reaches *)
(* every state of both.                                                    *)
(***************************************************************************)
EXTENDS OpFill, OpUplink

VARIABLE part     \* the one that runs

opVars == <<part, fillVars, upVars>>

OpInit ==
  /\ part \in {"fill", "uplink"} /\ FillInit /\ UpInit
  /\ part = "uplink" => who = CHOOSE w \in Whose : TRUE

OpNext ==
  /\ UNCHANGED part
  /\ \/ part = "fill" /\ FillNext /\ UNCHANGED upVars
     \/ part = "uplink" /\ UpNext /\ UNCHANGED fillVars

OpSpec == OpInit /\ [][OpNext]_opVars /\ FillFair /\ UpFair

\* The types of both, and the counts a thread must give back on every way
\* out: the fills in flight, the dialog lock, the workers' counters.
OpTypeOK == FillTypeOK /\ UpTypeOK

\* Every fill gets its reply, whoever holds the dialog lock and whatever the
\* user and op do; and as long as the guest runs, an uplink is on offer again
\* and again.
OpEnds == FillAnswered /\ UplinkOnOffer
=============================================================================
