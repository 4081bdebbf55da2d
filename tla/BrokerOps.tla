------------------------------ MODULE BrokerOps ------------------------------
(***************************************************************************)
(* What sbx-broker does with a request from its first byte to the close of *)
(* its connection (lib/broker/broker.py): Broker.handle, and the           *)
(* operations exec, grant-net, grant-path, camera and fido around          *)
(* Broker.decide.                                                          *)
(*                                                                         *)
(* The answer is a stream of messages.  An exec's output is sent by two    *)
(* threads, one per stream of the program.  decide() is any answer here    *)
(* (BrokerDecide models it); so is what the helpers and programs do.       *)
(***************************************************************************)
EXTENDS Naturals, Sequences, FiniteSets, SequencesExt

CONSTANTS
  Request,     \* connections, one thread each
  Unit,        \* the units a sandbox may run as (netUnits)
  MaxChunks    \* bound on the output of a program, per stream

ASSUME OpsAssumption == MaxChunks \in Nat

\* grant-path and camera alike ask, run a helper and report its success.
Ops == {"exec", "grant-net", "helper", "fido"}
Final == {"granted", "denied", "error", "exit"}
Streams == {"stdout", "stderr"}

VARIABLES
  op,         \* what each request asks for
  pc,         \* where its thread is
  sent,       \* the messages sent on its connection
  left,       \* output of each exec's program not yet pumped, by stream
  total,      \* history: all of its output
  pumping,    \* the streams whose pump runs
  listed,     \* the units a grant-net found running
  todo,       \* those it has yet to update
  extended,   \* history: units that allow the address by now
  running     \* the units that run

exec == <<left, total, pumping>>
net == <<listed, todo, extended>>
vars == <<op, pc, sent, left, total, pumping, listed, todo, extended,
          running>>

PCs == {"read", "validate", "decide", "start", "pump", "list",
        "update", "helper", "open", "relay", "close", "closed"}

Init ==
  /\ op \in [Request -> Ops]
  /\ pc = [r \in Request |-> "read"]
  /\ sent = [r \in Request |-> <<>>]
  /\ left = [r \in Request |-> [s \in Streams |-> 0]]
  /\ total = [r \in Request |-> 0]
  /\ pumping = [r \in Request |-> {}]
  /\ listed = [r \in Request |-> {}]
  /\ todo = [r \in Request |-> {}]
  /\ extended = [r \in Request |-> {}]
  /\ running \in SUBSET Unit

Goto(r, from, to) ==
  /\ pc[r] = from
  /\ pc' = [pc EXCEPT ![r] = to]

Send(r, m) == sent' = [sent EXCEPT ![r] = Append(@, m)]

\* The last thing an operation does.
Finish(r, from, m) ==
  /\ Goto(r, from, "close")
  /\ Send(r, m)

(***************************************************************************)
(* Broker.handle                                                           *)
(***************************************************************************)
\* A line was read and names an operation; or it was too long, was not JSON,
\* named none, or did not come within 30 seconds.
Read(r) ==
  /\ \/ Goto(r, "read", "validate") /\ UNCHANGED sent
     \/ Finish(r, "read", "error")
  /\ UNCHANGED <<op, exec, net, running>>

\* finally: conn.close()
Close(r) ==
  /\ Goto(r, "close", "closed")
  /\ UNCHANGED <<sent, op, exec, net, running>>

(***************************************************************************)
(* The operations                                                          *)
(***************************************************************************)
\* The arguments are bad, or the sandbox isn't configured for this.
Validate(r) ==
  /\ \/ Goto(r, "validate", "decide") /\ UNCHANGED sent
     \/ \E m \in {"error", "denied"} : Finish(r, "validate", m)
  /\ UNCHANGED <<op, exec, net, running>>

AfterDecide ==
  [o \in Ops |-> CASE o = "exec" -> "start" [] o = "grant-net" -> "list"
                   [] o = "helper" -> "helper" [] o = "fido" -> "open"]

\* Mutant: a refusal is sent, and then forgotten.
Decide_NoReturn(r) ==
  /\ Goto(r, "decide", AfterDecide[op[r]])
  /\ Send(r, "denied") \/ UNCHANGED sent
  /\ UNCHANGED <<op, exec, net, running>>

Decide(r) ==
  /\ \/ Goto(r, "decide", AfterDecide[op[r]]) /\ UNCHANGED sent
     \/ Finish(r, "decide", "denied")
  /\ UNCHANGED <<op, exec, net, running>>

\* exec: the program can't be run, or runs with any output.
Start(r) ==
  /\ \/ /\ Finish(r, "start", "error")
        /\ UNCHANGED exec
     \/ /\ Goto(r, "start", "pump")
        /\ pumping' = [pumping EXCEPT ![r] = Streams]
        /\ \E n, m \in 0 .. MaxChunks :
             /\ left' = [left EXCEPT ![r] = [s \in Streams |-> IF s = "stdout" THEN n ELSE m]]
             /\ total' = [total EXCEPT ![r] = n + m]
        /\ UNCHANGED sent
  /\ UNCHANGED <<op, net, running>>

\* Mutant: the end of a stream isn't recognised.
Pump_NoEnd(r, s) ==
  /\ s \in pumping[r]
  /\ left[r][s] > 0
  /\ left' = [left EXCEPT ![r][s] = @ - 1]
  /\ Send(r, s)
  /\ UNCHANGED <<pc, op, total, pumping, net, running>>

\* pump: the next piece of one stream, or its end.
Pump(r, s) ==
  /\ s \in pumping[r]
  /\ \/ /\ left[r][s] > 0
        /\ left' = [left EXCEPT ![r][s] = @ - 1]
        /\ Send(r, s)
        /\ UNCHANGED pumping
     \/ /\ left[r][s] = 0
        /\ pumping' = [pumping EXCEPT ![r] = @ \ {s}]
        /\ UNCHANGED <<left, sent>>
  /\ UNCHANGED <<pc, op, total, net, running>>

\* Mutant: stderr's thread isn't waited for.
Exit_NoJoin(r) ==
  /\ "stdout" \notin pumping[r]
  /\ Finish(r, "pump", "exit")
  /\ UNCHANGED <<op, exec, net, running>>

\* stdout has ended, stderr's thread is joined, the program has exited.
Exit(r) ==
  /\ pumping[r] = {}
  /\ Finish(r, "pump", "exit")
  /\ UNCHANGED <<op, exec, net, running>>

\* grant-net: the units that run now, unless there are none, they can't be
\* listed, or there is no attach helper.
ListUnits(r) ==
  /\ \/ /\ \/ running = {} /\ Finish(r, "list", "denied")
           \/ Finish(r, "list", "error")
        /\ UNCHANGED net
     \/ /\ running # {}
        /\ Goto(r, "list", "update")
        /\ listed' = [listed EXCEPT ![r] = running]
        /\ todo' = [todo EXCEPT ![r] = running]
        /\ UNCHANGED <<sent, extended>>
  /\ UNCHANGED <<op, exec, running>>

\* Mutant: a unit that couldn't be updated is skipped.
UpdateUnit_Skips(r, u) ==
  /\ u \in todo[r]
  /\ pc[r] = "update"
  /\ todo' = [todo EXCEPT ![r] = @ \ {u}]
  /\ \/ extended' = [extended EXCEPT ![r] = @ \cup {u}]
     \/ UNCHANGED extended
  /\ UNCHANGED <<pc, sent, op, exec, listed, running>>

\* attach allow-ip: done; or it failed, or timed out and was killed before or
\* after its work, and the rest is left as it is.
UpdateUnit(r, u) ==
  /\ u \in todo[r]
  /\ \/ /\ pc[r] = "update"
        /\ extended' = [extended EXCEPT ![r] = @ \cup {u}]
        /\ todo' = [todo EXCEPT ![r] = @ \ {u}]
        /\ UNCHANGED <<pc, sent>>
     \/ /\ Finish(r, "update", "error")
        /\ \/ extended' = [extended EXCEPT ![r] = @ \cup {u}]
           \/ UNCHANGED extended
        /\ UNCHANGED todo
  /\ UNCHANGED <<op, exec, listed, running>>

NetGranted(r) ==
  /\ todo[r] = {}
  /\ Finish(r, "update", "granted")
  /\ UNCHANGED <<op, exec, net, running>>

\* Mutant: the helper's exit code is sent as it is.
Helper_RawCode(r) ==
  /\ \E m \in {"granted", "code"} : Finish(r, "helper", m)
  /\ UNCHANGED <<op, exec, net, running>>

\* grant-path and camera: the helper fails or does it.
Helper(r) ==
  /\ \E m \in {"granted", "error"} : Finish(r, "helper", m)
  /\ UNCHANGED <<op, exec, net, running>>

\* fido: the key can't be opened; or it is relayed after the answer.
Open(r) ==
  /\ \/ Finish(r, "open", "error")
     \/ Goto(r, "open", "relay") /\ Send(r, "granted")
  /\ UNCHANGED <<op, exec, net, running>>

Relayed(r) ==
  /\ Goto(r, "relay", "close")
  /\ UNCHANGED <<sent, op, exec, net, running>>

\* External: units start and stop.
UnitStarts(u) ==
  /\ u \notin running
  /\ running' = running \cup {u}
  /\ UNCHANGED <<pc, sent, op, exec, net>>

UnitStops(u) ==
  /\ u \in running
  /\ running' = running \ {u}
  /\ UNCHANGED <<pc, sent, op, exec, net>>

ThreadStep(r) ==
  \/ Read(r) \/ Validate(r) \/ Decide(r)
  \/ Start(r) \/ Exit(r) \/ \E s \in Streams : Pump(r, s)
  \/ ListUnits(r) \/ NetGranted(r) \/ \E u \in Unit : UpdateUnit(r, u)
  \/ Helper(r) \/ Open(r) \/ Relayed(r) \/ Close(r)

Next ==
  \/ \E r \in Request : ThreadStep(r)
  \/ \E u \in Unit : UnitStarts(u) \/ UnitStops(u)

Spec == Init /\ [][Next]_vars

\* Threads run, programs and helpers end, a key's relay is hung up.
FairSpec == Spec /\ \A r \in Request : WF_vars(ThreadStep(r))

-----------------------------------------------------------------------------
TypeOK ==
  /\ op \in [Request -> Ops]
  /\ pc \in [Request -> PCs]
  /\ sent \in [Request -> Seq(Final \cup Streams)]
  /\ left \in [Request -> [Streams -> 0 .. MaxChunks]]
  /\ total \in [Request -> Nat]
  /\ pumping \in [Request -> SUBSET Streams]
  /\ listed \in [Request -> SUBSET Unit]
  /\ todo \in [Request -> SUBSET Unit]
  /\ extended \in [Request -> SUBSET Unit]
  /\ running \subseteq Unit

\* The answer is a stream of messages, the last one final: none follows it,
\* a closed connection has had it, and an exec's has all output ahead of it,
\* although two threads send.
FinalReplyLast ==
  \A r \in Request :
    /\ \A i \in DOMAIN sent[r] : sent[r][i] \in Final => i = Len(sent[r])
    /\ pc[r] = "closed" => sent[r] # <<>> /\ Last(sent[r]) \in Final
    /\ Contains(sent[r], "exit") => Len(sent[r]) = total[r] + 1

\* "granted" to a grant-net means that every unit found running allows the
\* address, and a refusal that none was touched; an error promises nothing,
\* as the units ahead of the one that failed stay extended.
NetGrantCovers ==
  \A r \in Request :
    /\ op[r] = "grant-net" /\ Contains(sent[r], "granted") => listed[r] \subseteq extended[r]
    /\ Contains(sent[r], "denied") => extended[r] = {}

\* Every connection is answered and closed.
EveryRequestFinished ==
  \A r \in Request : <>(pc[r] = "closed" /\ sent[r] # <<>>)
=============================================================================
