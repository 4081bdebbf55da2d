------------------------------- MODULE Grants -------------------------------
(***************************************************************************)
(* Folders granted to a running VM (lib/vm/grants.py), with the part of    *)
(* the root attach helper it calls (lib/broker/attach.py, op vm-path).     *)
(*                                                                         *)
(* The VM's hub serves each request with a thread of its own, one grant at *)
(* a time: it runs the attach helper, which mounts the folder into the     *)
(* view of the VM's share, and has the VM's agent bind it at its own path. *)
(* Either may take too long.  The helper then goes on without the hub;     *)
(* the agent loses its connection, on which its answer would still come,   *)
(* and connects again.                                                     *)
(*                                                                         *)
(* What a path may name, and how it is walked, is data and left out: a     *)
(* folder is a member of Folder, a walk that is refused is a failure.      *)
(***************************************************************************)
EXTENDS Naturals, Sequences, FiniteSets

CONSTANTS
  Grant,        \* the requests made of the hub
  Folder,
  Asks,         \* what they may ask for, for model checking
  NoConn,       \* the agent isn't connected
  MaxConns      \* bound on the agent's connections, for model checking

Mode == {"ro", "rw"}

ASSUME GrantsAssumption ==
  /\ MaxConns \in Nat /\ NoConn \notin Nat
  /\ Asks \subseteq [folder : [Grant -> Folder], mode : [Grant -> Mode]]

VARIABLES
  gfolder,      \* the folder each request asks for
  gmode,        \* the mode it asks for
  gpc,          \* where its thread in the hub is
  gconn,        \* the agent's connection it took            (sock)
  glock,        \* the requests that hold self.lock, one at most
  granted,      \* self.granted
  hguest,       \* the agent's connection the hub has        (self.guest)
  helper,       \* the attach helper of each request
  view,         \* the folders in the VM's share, by the newest mount's mode
  agent,        \* the connection the agent has
  conns,        \* connections made so far
  shut,         \* connections the hub closed
  ask,          \* mounts the agent hasn't looked at, on its connection
  answer,       \* its answers the hub hasn't read
  bound         \* the folders in the VM, by the newest bind's mode

gin == <<gfolder, gmode>>
hub == <<gpc, gconn, glock, granted, hguest>>
vm == <<agent, conns, shut, ask, answer, bound>>
gvars == <<gfolder, gmode, hub, helper, view, vm>>

GrantsInit ==
  /\ \E a \in Asks : gfolder = a.folder /\ gmode = a.mode
  /\ gpc = [g \in Grant |-> "new"]
  /\ gconn = [g \in Grant |-> NoConn]
  /\ glock = {}
  /\ granted = {}
  /\ hguest = NoConn
  /\ helper = [g \in Grant |-> "none"]
  /\ view = [f \in Folder |-> "none"]
  /\ agent = NoConn /\ conns = 0 /\ shut = {}
  /\ ask = <<>> /\ answer = <<>>
  /\ bound = [f \in Folder |-> "none"]

GoGrant(g, from, to) ==
  /\ gpc[g] = from
  /\ gpc' = [gpc EXCEPT ![g] = to]

-----------------------------------------------------------------------------
(* Hub.grant                                                               *)

\* The lock, for a minute at most; what was granted before is granted again.
Lock(g) ==
  /\ \/ /\ glock = {}
        /\ IF <<gfolder[g], gmode[g]>> \in granted
           THEN GoGrant(g, "new", "ok") /\ UNCHANGED glock
           ELSE GoGrant(g, "new", "share") /\ glock' = {g}
     \/ /\ glock # {}
        /\ GoGrant(g, "new", "failed")
        /\ UNCHANGED glock
  /\ UNCHANGED <<gin, gconn, granted, hguest, helper, view, vm>>

StartHelper(g) ==
  /\ gpc[g] = "share" /\ helper[g] = "none"
  /\ helper' = [helper EXCEPT ![g] = "runs"]
  /\ UNCHANGED <<gin, hub, view, vm>>

\* share: the helper's answer; or it failed, or was given up after a minute,
\* which only ends the helper's client.
Shared(g) ==
  /\ \/ helper[g] = "done" /\ GoGrant(g, "share", "guest") /\ UNCHANGED glock
     \/ helper[g] \in {"runs", "failed"} /\ GoGrant(g, "share", "failed") /\ glock' = {}
  /\ UNCHANGED <<gin, gconn, granted, hguest, helper, view, vm>>

\* The agent's connection, once there is one; half a minute at most.
TakeGuest(g) ==
  /\ \/ /\ hguest # NoConn
        /\ GoGrant(g, "guest", "send")
        /\ gconn' = [gconn EXCEPT ![g] = hguest]
        /\ UNCHANGED glock
     \/ /\ hguest = NoConn
        /\ GoGrant(g, "guest", "failed")
        /\ glock' = {}
        /\ UNCHANGED gconn
  /\ UNCHANGED <<gin, granted, hguest, helper, view, vm>>

SendMount(g) ==
  /\ gconn[g] = agent
  /\ GoGrant(g, "send", "wait")
  /\ ask' = Append(ask, g)
  /\ UNCHANGED <<gin, gconn, glock, granted, hguest, helper, view,
                 agent, conns, shut, answer, bound>>

\* The agent's answer, whichever it is: granted, or refused.
ReadAnswer(g) ==
  /\ gconn[g] = agent /\ answer # <<>>
  /\ IF Head(answer)
     THEN /\ GoGrant(g, "wait", "ok")
          /\ granted' = granted \cup {<<gfolder[g], gmode[g]>>}
     ELSE GoGrant(g, "wait", "failed") /\ UNCHANGED granted
  /\ answer' = Tail(answer)
  /\ glock' = {}
  /\ UNCHANGED <<gin, gconn, hguest, helper, view, agent, conns, shut, ask, bound>>

\* Mutant: an agent that doesn't answer keeps its connection.
DropGuest_Keeps(g) == UNCHANGED <<hguest, shut>>

\* The connection goes, and with it the answer; a newer one stays.
DropGuest(g) ==
  /\ hguest' = IF hguest = gconn[g] THEN NoConn ELSE hguest
  /\ shut' = shut \cup {gconn[g]}

\* The connection is lost, or the agent didn't answer in 20 seconds.
NoAnswer(g) ==
  /\ GoGrant(g, "send", "failed") \/ GoGrant(g, "wait", "failed")
  /\ gpc[g] = "send" => gconn[g] # agent
  /\ DropGuest(g)
  /\ glock' = {}
  /\ UNCHANGED <<gin, gconn, granted, helper, view, agent, conns, ask, answer, bound>>

GrantStep(g) ==
  Lock(g) \/ StartHelper(g) \/ Shared(g) \/ TakeGuest(g) \/ SendMount(g)
    \/ ReadAnswer(g) \/ NoAnswer(g)

-----------------------------------------------------------------------------
(* The attach helper: root, one process per request                        *)

\* The folder, opened as the user, is mounted over what was there.
Attach(g) ==
  /\ helper[g] = "runs"
  /\ helper' = [helper EXCEPT ![g] = "done"]
  /\ view' = [view EXCEPT ![gfolder[g]] = gmode[g]]
  /\ UNCHANGED <<gin, hub, vm>>

\* It can't be opened, guarded, mapped or mounted, or there is no share; of
\* several devices one may have it by then.
AttachFails(g) ==
  /\ helper[g] = "runs"
  /\ helper' = [helper EXCEPT ![g] = "failed"]
  /\ \/ UNCHANGED view
     \/ view' = [view EXCEPT ![gfolder[g]] = gmode[g]]
  /\ UNCHANGED <<gin, hub, vm>>

-----------------------------------------------------------------------------
(* The agent in the VM                                                     *)

\* It connects; the hub takes the new connection for the old.
AgentConnects ==
  /\ agent = NoConn /\ conns < MaxConns
  /\ agent' = conns + 1 /\ conns' = conns + 1
  /\ hguest' = conns + 1
  /\ shut' = IF hguest = NoConn THEN shut ELSE shut \cup {hguest}
  /\ ask' = <<>> /\ answer' = <<>>
  /\ UNCHANGED <<gin, gpc, gconn, glock, granted, helper, view, bound>>

\* guest_mount: the folder is bound from the share, if it is there.  When the
\* hub has closed the connection the answer can't be sent, and the agent ends.
AgentMounts ==
  /\ agent # NoConn /\ ask # <<>>
  /\ ask' = Tail(ask)
  /\ LET f == gfolder[Head(ask)]
     IN  \E ok \in {FALSE} \cup {view[f] # "none"} :
           /\ bound' = IF ~ok THEN bound
                       ELSE [bound EXCEPT ![f] = IF gmode[Head(ask)] = "ro" THEN "ro" ELSE view[f]]
           /\ answer' = IF agent \in shut THEN <<>> ELSE Append(answer, ok)
           /\ agent' = IF agent \in shut THEN NoConn ELSE agent
  /\ UNCHANGED <<gin, hub, helper, view, conns, shut>>

\* It stops, or finds its connection at its end; systemd starts it again.
AgentStops ==
  /\ agent # NoConn
  /\ agent' = NoConn
  /\ ask' = <<>> /\ answer' = <<>>
  /\ UNCHANGED <<gin, hub, helper, view, conns, shut, bound>>

-----------------------------------------------------------------------------
GrantsNext ==
  \/ \E g \in Grant : GrantStep(g) \/ Attach(g) \/ AttachFails(g)
  \/ AgentConnects \/ AgentMounts \/ AgentStops

\* The hub's threads run and its timeouts pass; neither the helper nor the
\* agent need ever answer.
GrantsFair == \A g \in Grant : WF_gvars(GrantStep(g))

-----------------------------------------------------------------------------
GrantsTypeOK ==
  /\ gfolder \in [Grant -> Folder] /\ gmode \in [Grant -> Mode]
  /\ gpc \in [Grant -> {"new", "share", "guest", "send", "wait", "ok", "failed"}]
  /\ gconn \in [Grant -> Nat \cup {NoConn}]
  /\ glock = {g \in Grant : gpc[g] \in {"share", "guest", "send", "wait"}}
  /\ Cardinality(glock) <= 1
  /\ granted \subseteq Folder \X Mode
  /\ hguest \in Nat \cup {NoConn}
  /\ helper \in [Grant -> {"none", "runs", "done", "failed"}]
  /\ view \in [Folder -> {"none"} \cup Mode]
  /\ agent \in Nat \cup {NoConn} /\ conns \in 0 .. MaxConns /\ shut \subseteq Nat
  /\ ask \in Seq(Grant) /\ answer \in Seq(BOOLEAN)
  /\ bound \in [Folder -> {"none"} \cup Mode]

\* The folder is asked for in one mode only: the newest mount and the newest
\* bind count, so that a grant in the other mode takes the first one's place
\* without its being forgotten in self.granted.
OneMode(f) == \A g, h \in Grant : gfolder[g] = f /\ gfolder[h] = f => gmode[g] = gmode[h]

\* A grant is reported only with the folder in the VM's share and bound in the
\* VM, in the mode asked for, however late helpers and agents are and whatever
\* they did for earlier requests.
GrantReal ==
  [][\A g \in Grant :
       gpc[g] # "ok" /\ gpc'[g] = "ok" /\ OneMode(gfolder[g])
       => view'[gfolder[g]] = gmode[g] /\ bound'[gfolder[g]] = gmode[g]]_gvars

\* Every request is answered.
GrantAnswered == \A g \in Grant : <>(gpc[g] \in {"ok", "failed"})
=============================================================================
