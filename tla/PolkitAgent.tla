---------------------------- MODULE PolkitAgent ----------------------------
(***************************************************************************)
(* sbx-polkit-agent (lib/vm/polkit-agent.py) in one VM, with the broker it *)
(* asks (BrokerAuth) and polkitd, which it answers.                        *)
(*                                                                         *)
(* The watcher's thread gives each process it finds an Agent: a bus        *)
(* connection with a queue of polkitd's calls, which a serving thread      *)
(* takes off one by one.  BeginAuthentication gets a thread of its own,    *)
(* the CancelAuthentication behind it doesn't; the two meet in the event   *)
(* the first stores under its cookie, and closing the agent sets the       *)
(* events it finds there.                                                  *)
(*                                                                         *)
(* A BeginAuthentication, its cookie and the connection to the broker it   *)
(* makes are one Request.                                                  *)
(***************************************************************************)
EXTENDS BrokerAuth, Sequences

CONSTANTS
  App,          \* processes of the VM: a (pid, start time) never comes back
  AppOf,        \* the process each request of the agent is about
  Vm,           \* the VM's sandbox
  MAX_AGENTS,
  Mix           \* bounds: who makes which request, the agent, another program
                \* or nobody; of which sandbox; whether the clock runs; and
                \* whether the behaviour is long enough for deadlines to pass

ASSUME PolkitAssumption ==
  /\ AppOf \in [Request -> App]
  /\ Vm \in Sandbox
  /\ Mix \subseteq [who : [Request -> {"agent", "other", "nobody"}],
                     of : [Request -> Sandbox], timed : BOOLEAN, deadlines : BOOLEAN]
  /\ \A m \in Mix : \A r \in Request : m.who[r] = "agent" => m.of[r] = Vm
  /\ MAX_AGENTS \in Nat \ {0}

VARIABLES
  mix,          \* the mix of requests: never changes
  app,          \* each process: not started yet, live or dead
  agent,        \* the Agent of each: none, open, closing or closed
  failed,       \* processes whose registration failed a moment ago
  queue,        \* polkitd's calls an agent hasn't taken yet  (self.queue)
  gpc,          \* where each BeginAuthentication is
  cancel,       \* the requests with an event stored          (self.cancel)
  event,        \* the events that are set
  session,      \* polkitd's side of each request
  early         \* history: told to stop before their event was stored

watcher == <<app, agent, failed>>
calls == <<queue, gpc, cancel, event, session, early>>
guest == <<watcher, calls, mix>>
pvars == <<vars, guest>>

Guest == {r \in Request : mix.who[r] = "agent"}
Agents == {a \in App : agent[a] \in {"open", "closing"}}
OfApp(a) == {r \in Guest : AppOf[r] = a}
Call(kind, r) == [kind |-> kind, request |-> r]
Stop == [kind |-> "stop"]

PInit ==
  /\ Init
  /\ mix \in Mix
  /\ sandbox = mix.of
  /\ app = [a \in App |-> "new"]
  /\ agent = [a \in App |-> "none"]
  /\ failed = {}
  /\ queue = [a \in App |-> <<>>]
  /\ gpc = [r \in Request |-> "none"]
  /\ cancel = {}
  /\ event = {}
  /\ session = [r \in Request |-> "none"]
  /\ early = {}

GoGuest(r, from, to) ==
  /\ gpc[r] = from
  /\ gpc' = [gpc EXCEPT ![r] = to]

-----------------------------------------------------------------------------
(* Processes and the watcher                                               *)

AppStarts(a) ==
  /\ app[a] = "new" /\ OfApp(a) # {}
  /\ app' = [app EXCEPT ![a] = "live"]
  /\ UNCHANGED <<vars, agent, failed, calls, mix>>

AppDies(a) ==
  /\ app[a] = "live"
  /\ app' = [app EXCEPT ![a] = "dead"]
  /\ failed' = failed \ {a}
  /\ UNCHANGED <<vars, agent, calls, mix>>

\* A matching process without an agent, which the limit leaves room for and
\* whose registration didn't fail in the last 5 seconds; polkitd takes it or
\* refuses.
Register(a) ==
  /\ app[a] = "live" /\ agent[a] = "none" /\ a \notin failed
  /\ Cardinality(Agents) < MAX_AGENTS
  /\ \/ agent' = [agent EXCEPT ![a] = "open"] /\ UNCHANGED failed
     \/ failed' = failed \cup {a} /\ UNCHANGED agent
  /\ UNCHANGED <<vars, app, calls, mix>>

FailureForgotten(a) ==
  /\ a \in failed
  /\ failed' = failed \ {a}
  /\ UNCHANGED <<vars, app, agent, calls, mix>>

\* Mutant: the requests in progress are left alone.
CloseEvents_None(a) ==
  /\ app[a] = "dead" /\ agent[a] = "open"
  /\ agent' = [agent EXCEPT ![a] = "closing"]
  /\ UNCHANGED <<vars, app, failed, calls, mix>>

\* The watcher finds the process dead and closes its agent: the events that
\* are stored by now are set ...
CloseEvents(a) ==
  /\ app[a] = "dead" /\ agent[a] = "open"
  /\ agent' = [agent EXCEPT ![a] = "closing"]
  /\ event' = event \cup (OfApp(a) \cap cancel)
  /\ early' = early \cup {r \in OfApp(a) : gpc[r] \in {"queued", "begun"}}
  /\ UNCHANGED <<vars, app, failed, queue, gpc, cancel, session, mix>>

\* ... and the bus connection goes; the calls that are queued are still ahead
\* of the serving thread's stop.
CloseBus(a) ==
  /\ agent[a] = "closing"
  /\ agent' = [agent EXCEPT ![a] = "closed"]
  /\ queue' = [queue EXCEPT ![a] = Append(@, Stop)]
  /\ session' = [r \in Request |-> IF r \in OfApp(a) /\ session[r] = "open"
                                   THEN "gone" ELSE session[r]]
  /\ early' = early \cup {r \in OfApp(a) : gpc[r] \in {"queued", "begun"}}
  /\ UNCHANGED <<vars, app, failed, gpc, cancel, event, mix>>

-----------------------------------------------------------------------------
(* polkitd and the serving thread                                          *)

\* polkitd asks the process's agent to have the user authenticate.
BeginAuthentication(r) ==
  LET a == AppOf[r]
  IN  /\ app[a] = "live" /\ agent[a] \in {"open", "closing"}
      /\ GoGuest(r, "none", "queued")
      /\ session' = [session EXCEPT ![r] = "open"]
      /\ queue' = [queue EXCEPT ![a] = Append(@, Call("begin", r))]
      /\ UNCHANGED <<vars, watcher, cancel, event, early, mix>>

\* polkitd gives the request up: the process withdrew it, or is gone.
CancelAuthentication(r) ==
  LET a == AppOf[r]
  IN  /\ session[r] = "open" /\ agent[a] \in {"open", "closing"}
      /\ session' = [session EXCEPT ![r] = "gone"]
      /\ queue' = [queue EXCEPT ![a] = Append(@, Call("cancel", r))]
      /\ UNCHANGED <<vars, watcher, gpc, cancel, event, early, mix>>

\* serve: a thread for a BeginAuthentication; the event of a
\* CancelAuthentication, if it is stored by now.
Serve(a) ==
  LET call == Head(queue[a])
  IN  /\ queue[a] # <<>>
      /\ queue' = [queue EXCEPT ![a] = IF call = Stop THEN <<>> ELSE Tail(@)]
      /\ IF call.kind = "begin"
         THEN GoGuest(call.request, "queued", "begun")
         ELSE UNCHANGED gpc
      /\ IF call.kind = "cancel"
         THEN /\ event' = event \cup (cancel \cap {call.request})
              /\ early' = early \cup {r \in {call.request} : gpc[r] = "begun"}
         ELSE UNCHANGED <<event, early>>
      /\ UNCHANGED <<vars, watcher, cancel, session, mix>>

-----------------------------------------------------------------------------
(* begin: the thread of a BeginAuthentication                              *)

\* Mutant: no finally, the event stays behind.
Reply_KeepsEvent(r, from, outcome) ==
  /\ GoGuest(r, from, "replied")
  /\ session' = [session EXCEPT ![r] = IF @ = "open" THEN outcome ELSE @]
  /\ UNCHANGED cancel

\* The reply: polkitd is done with the request if it wasn't already.
Reply(r, from, outcome) ==
  /\ GoGuest(r, from, "replied")
  /\ session' = [session EXCEPT ![r] = IF @ = "open" THEN outcome ELSE @]
  /\ cancel' = cancel \ {r}

\* Not an action of this VM's, or not an identity to answer with.
Refuse(r) ==
  /\ Reply(r, "begun", "gone")
  /\ UNCHANGED <<vars, watcher, queue, event, early, mix>>

Store(r) ==
  /\ GoGuest(r, "begun", "stored")
  /\ cancel' = cancel \cup {r}
  /\ UNCHANGED <<vars, watcher, queue, event, session, early, mix>>

\* ask_host: the request reaches op_authenticate ...
Ask(r) ==
  /\ GoGuest(r, "stored", "asking")
  /\ Begin(r)
  /\ UNCHANGED <<watcher, queue, cancel, event, session, early, mix>>

\* ... or nobody answers, or the broker has no slot for it.
AskFails(r) ==
  /\ GoGuest(r, "stored", "denied")
  /\ UNCHANGED <<vars, watcher, queue, cancel, event, session, early, mix>>

\* Mutant: any answer of the broker will do.
Hear_AnyAnswer(r) ==
  /\ pc[r] = "done"
  /\ GoGuest(r, "asking", "granted")
  /\ UNCHANGED <<vars, watcher, queue, cancel, event, session, early, mix>>

\* The broker's answer arrives.
Hear(r) ==
  /\ pc[r] = "done"
  /\ GoGuest(r, "asking", IF ok[r] THEN "granted" ELSE "denied")
  /\ UNCHANGED <<vars, watcher, queue, cancel, event, session, early, mix>>

\* The loop finds the event set, or BROKER_TIMEOUT passed, and hangs up.
HangUp(r) ==
  /\ r \in event \/ mix.deadlines
  /\ GoGuest(r, "asking", "denied")
  /\ UNCHANGED <<vars, watcher, queue, cancel, event, session, early, mix>>

\* AuthenticationAgentResponse2 and the reply; polkitd refuses the first when
\* it has given the request up.
Respond(r) ==
  /\ Reply(r, "granted", "authorized")
  /\ UNCHANGED <<vars, watcher, queue, event, early, mix>>

RespondDenied(r) ==
  /\ Reply(r, "denied", "gone")
  /\ UNCHANGED <<vars, watcher, queue, event, early, mix>>

-----------------------------------------------------------------------------
(* The broker's threads: the other programs of its sandboxes ask as well.  *)

BeginOther(r) ==
  /\ mix.who[r] = "other"
  /\ Begin(r)
  /\ UNCHANGED guest

GateStep(r) == Gate(r) /\ UNCHANGED guest

UserStep(r) == PkcheckEnds(r) /\ UNCHANGED guest

\* Mutant: only the deadline ends pkcheck, a requester that hung up doesn't.
PkcheckKilled_Deadline(r) ==
  /\ mix.deadlines
  /\ GiveUp(r)
  /\ UNCHANGED guest

\* The requester hung up, or the deadline passed.
PkcheckKilled(r) ==
  /\ mix.deadlines \/ (r \in Guest /\ gpc[r] # "asking")
  /\ GiveUp(r)
  /\ UNCHANGED guest

FreeStep(r) == Free(r) /\ UNCHANGED guest

CountStep(r) == Count(r) /\ UNCHANGED guest

TickStep == mix.timed /\ Tick /\ UNCHANGED guest

-----------------------------------------------------------------------------
AgentStep(a) == Register(a) \/ FailureForgotten(a) \/ CloseEvents(a) \/ CloseBus(a) \/ Serve(a)
ThreadStep(r) ==
  Store(r) \/ Ask(r) \/ AskFails(r) \/ Hear(r) \/ HangUp(r) \/ Respond(r) \/ RespondDenied(r)
BrokerStep(r) ==
  BeginOther(r) \/ GateStep(r) \/ PkcheckKilled(r) \/ FreeStep(r) \/ CountStep(r)

\* Nothing is left to do: the user and the clock may wait for ever.
Idle ==
  /\ \A r \in Request : pc[r] \in {"new", "done", "run"}
  /\ UNCHANGED pvars

PNext ==
  \/ \E a \in App : AppStarts(a) \/ AppDies(a) \/ AgentStep(a)
  \/ \E r \in Guest :
       BeginAuthentication(r) \/ CancelAuthentication(r) \/ Refuse(r) \/ ThreadStep(r)
  \/ \E r \in Request : BrokerStep(r) \/ UserStep(r)
  \/ TickStep
  \/ Idle

PSpec == PInit /\ [][PNext]_pvars

\* The agent's threads and the broker's run; deadlines pass in the behaviours
\* that are long enough.  Nobody makes a process start, polkitd ask or the
\* user answer.
PFairSpec ==
  /\ PSpec
  /\ \A a \in App : WF_pvars(AgentStep(a))
  /\ \A r \in Request : WF_pvars(r \in Guest /\ ThreadStep(r))
  /\ \A r \in Request : WF_pvars(BrokerStep(r))

-----------------------------------------------------------------------------
PolkitTypeOK ==
  /\ TypeOK
  /\ mix \in Mix
  /\ app \in [App -> {"new", "live", "dead"}]
  /\ agent \in [App -> {"none", "open", "closing", "closed"}]
  /\ failed \subseteq App
  /\ \A a \in App :
       queue[a] \in Seq([kind : {"begin", "cancel"}, request : OfApp(a)] \cup {Stop})
  /\ gpc \in [Request -> {"none", "queued", "begun", "stored", "asking", "granted", "denied", "replied"}]
  /\ cancel = {r \in Request : gpc[r] \in {"stored", "asking", "granted", "denied"}}
  /\ event \subseteq Request
  /\ session \in [Request -> {"none", "open", "gone", "authorized"}]
  /\ early \subseteq Request

\* polkitd authorizes a process only while it still waits for the request and
\* after the host's user authenticated for that very request.
AuthorizedByUser ==
  \A r \in Request : session[r] = "authorized" => pc[r] = "done" /\ ok[r]

\* A request that polkitd gave up, or whose process is gone, goes from the
\* host user's screen without their doing and without any deadline, unless the
\* agent was told so before begin() had stored the event: then its dialog
\* stays until somebody's deadline.
CancelledGoes ==
  \A r \in Request :
    session[r] = "gone" ~> (pc[r] \in {"new", "done"} /\ gpc[r] = "replied") \/ r \in early

\* In a behaviour that is long enough for deadlines every request the broker
\* takes is answered, and polkitd is never left waiting for the reply to a
\* BeginAuthentication.
EveryRequestEnds ==
  mix.deadlines => \A r \in Request :
    pc[r] = "gate" \/ gpc[r] = "queued" ~>
      pc[r] \in {"new", "done"} /\ gpc[r] \in {"none", "replied"}
=============================================================================
