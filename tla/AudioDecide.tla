---------------------------- MODULE AudioDecide ----------------------------
(***************************************************************************)
(* What sandboxes wait for at sbx-broker: its decisions (BrokerDecide), and *)
(* the recordings they are made for (PulseFilter, to which a decision is   *)
(* any answer at any later time).  One is explored with the other at rest, *)
(* which reaches every state of both.                                      *)
(***************************************************************************)
EXTENDS BrokerDecide, PulseFilter

VARIABLE part     \* which of the two runs

partVars == <<part, vars, avars>>

BothInit ==
  /\ part \in {"decisions", "audio"} /\ Init /\ AudioInit
  /\ IF part = "decisions" THEN plan = CHOOSE p \in Plan : TRUE
     ELSE /\ sandbox = [r \in Request |-> CHOOSE s \in Sandbox : TRUE]
          /\ key = [r \in Request |-> CHOOSE k \in Key : TRUE]

BothNext ==
  /\ UNCHANGED part
  /\ \/ part = "decisions" /\ Next /\ UNCHANGED avars
     \/ part = "audio" /\ AudioNext /\ UNCHANGED vars

\* The broker's and the filter's threads are scheduled, dialogs end (sbx-prompt
\* gets --timeout 90 and is killed after 120 seconds), and the sound server
\* answers.  Nothing is assumed of the client, of who gets a turn first, who
\* hangs up, or what the user answers.
BothSpec ==
  /\ BothInit /\ [][BothNext]_partVars
  /\ \A r \in Request : WF_vars(part = "decisions" /\ ThreadStep(r))
  /\ WF_avars(part = "audio" /\ ForwardHeld)
  /\ WF_avars(part = "audio" /\ FromServerStep)
  /\ WF_avars(part = "audio" /\ ServerStep)
  /\ \A r \in Rec : WF_avars(part = "audio" /\ RecordStep(r))

\* Every request to the broker is answered and its slot given back, however
\* the others' dialogs go (Broker.decide).
DecisionsMade ==
  part = "decisions" => <>(\A r \in Request : pc[r] = "closed" /\ verdict[r] # "none")
=============================================================================
