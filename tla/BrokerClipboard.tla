--------------------------- MODULE BrokerClipboard ---------------------------
(***************************************************************************)
(* The clipboard operation of sbx-broker (lib/broker/broker.py,            *)
(* Broker.op_clipboard), with the wl-copy processes it runs and the        *)
(* Wayland selection they hold.                                            *)
(*                                                                         *)
(* A copy takes the sandbox's last wl-copy out of self.clips, starts a new *)
(* one, waits 0.3 s for it to fail, and puts it into self.clips.  A clear  *)
(* takes the last one out, and if it still runs (which it does for as long *)
(* as its text is the selection) clears the selection.  Only the accesses  *)
(* to self.clips are under the lock.                                       *)
(*                                                                         *)
(* A wl-copy is named after the request that started it.  Texts that are   *)
(* refused before self.clips is touched (no grant, bad base64, too long)   *)
(* are left out.                                                           *)
(***************************************************************************)
EXTENDS Naturals, FiniteSets

CONSTANTS
  Sandbox,
  Request,      \* the connections sandboxes ever make, one thread each
  Nothing,      \* no wl-copy; an empty selection
  User,         \* the selection is something copied outside the sandboxes
  MAX_CONNS,    \* requests of one sandbox served at once
  Faults        \* what may go wrong outside the broker: see FaultKinds

\* "spawn": wl-copy can't be started; "wlcopy": it exits with an error;
\* "slow": it takes longer than 0.3 s; "clear": wl-copy --clear fails.
FaultKinds == {"spawn", "wlcopy", "slow", "clear"}

ASSUME ClipboardAssumption ==
  /\ Nothing \notin Request
  /\ User \notin Request
  /\ Nothing # User
  /\ MAX_CONNS \in Nat
  /\ Faults \subseteq FaultKinds

VARIABLES
  sandbox,    \* whose socket each request arrives on
  op,         \* "copy" or "clear"
  pc,         \* where each request's thread is
  old,        \* the wl-copy each thread took from self.clips
  reply,      \* what each request was answered
  clips,      \* the wl-copy holding what each sandbox copied (self.clips)
  proc,       \* the wl-copy each copy started
  sel,        \* who holds the selection
  before,     \* history: the selection as each request took its turn
  disturbed   \* history: sandboxes with requests at once, or a fault in one

vars == <<sandbox, op, pc, old, reply, clips, proc, sel, before, disturbed>>
inputs == <<sandbox, op>>
history == <<before, disturbed>>

PCs == {"new", "spawn", "wait", "store", "poll", "clear", "done"}
ProcStates == {"none", "starting", "owner", "exited", "failed"}

Init ==
  /\ sandbox \in [Request -> Sandbox]
  /\ op \in [Request -> {"copy", "clear"}]
  /\ pc = [r \in Request |-> "new"]
  /\ old = [r \in Request |-> Nothing]
  /\ reply = [r \in Request |-> "none"]
  /\ clips = [s \in Sandbox |-> Nothing]
  /\ proc = [r \in Request |-> "none"]
  /\ sel = Nothing
  /\ before = [r \in Request |-> Nothing]
  /\ disturbed = {}

(***************************************************************************)
(* External: wl-copy and the compositor.  Whoever loses the selection      *)
(* exits.                                                                  *)
(***************************************************************************)
Disturbed(r) == disturbed \cup {sandbox[r]}

Running(p) == proc[p] \in {"starting", "owner"}

\* The processes once `owner` has the selection.
Owned(owner) ==
  [p \in Request |-> IF p = owner THEN "owner"
                     ELSE IF p = sel THEN "exited" ELSE proc[p]]

WlCopyClaims(p) ==
  /\ proc[p] = "starting"
  /\ proc' = Owned(p)
  /\ sel' = p
  /\ UNCHANGED <<inputs, pc, old, reply, clips, history>>

WlCopyFails(p) ==
  /\ "wlcopy" \in Faults
  /\ proc[p] = "starting"
  /\ proc' = [proc EXCEPT ![p] = "failed"]
  /\ disturbed' = Disturbed(p)
  /\ UNCHANGED <<inputs, pc, old, reply, clips, sel, before>>

UserCopies ==
  /\ sel # User
  /\ proc' = Owned(User)
  /\ sel' = User
  /\ UNCHANGED <<inputs, pc, old, reply, clips, history>>

(***************************************************************************)
(* Broker.op_clipboard                                                     *)
(***************************************************************************)
Goto(r, from, to) ==
  /\ pc[r] = from
  /\ pc' = [pc EXCEPT ![r] = to]

Reply(r, what) == reply' = [reply EXCEPT ![r] = what]

Served(s) == {r \in Request : sandbox[r] = s /\ pc[r] \notin {"new", "done"}}

\* Mutant: the last wl-copy is looked up, not taken out.
Pop_Keeps(r) ==
  /\ Cardinality(Served(sandbox[r])) < MAX_CONNS
  /\ Goto(r, "new", IF op[r] = "copy" THEN "spawn" ELSE "poll")
  /\ old' = [old EXCEPT ![r] = clips[sandbox[r]]]
  /\ before' = [before EXCEPT ![r] = sel]
  /\ disturbed' = IF Served(sandbox[r]) = {} THEN disturbed ELSE Disturbed(r)
  /\ UNCHANGED <<inputs, reply, clips, proc, sel>>

Pop(r) ==
  /\ Cardinality(Served(sandbox[r])) < MAX_CONNS
  /\ Goto(r, "new", IF op[r] = "copy" THEN "spawn" ELSE "poll")
  /\ old' = [old EXCEPT ![r] = clips[sandbox[r]]]
  /\ clips' = [clips EXCEPT ![sandbox[r]] = Nothing]
  /\ before' = [before EXCEPT ![r] = sel]
  /\ disturbed' = IF Served(sandbox[r]) = {} THEN disturbed ELSE Disturbed(r)
  /\ UNCHANGED <<inputs, reply, proc, sel>>

Spawn(r) ==
  /\ \/ /\ Goto(r, "spawn", "wait")
        /\ proc' = [proc EXCEPT ![r] = "starting"]
        /\ UNCHANGED <<reply, disturbed>>
     \/ /\ "spawn" \in Faults
        /\ Goto(r, "spawn", "done")
        /\ Reply(r, "error")
        /\ disturbed' = Disturbed(r)
        /\ UNCHANGED proc
  /\ UNCHANGED <<inputs, old, clips, sel, before>>

\* p.wait(0.3): it failed, or ended well, or is still there.
Wait(r) ==
  /\ \/ /\ proc[r] = "failed"
        /\ Goto(r, "wait", "done")
        /\ Reply(r, "error")
        /\ UNCHANGED disturbed
     \/ /\ proc[r] \in {"owner", "exited"}
        /\ Goto(r, "wait", "store")
        /\ UNCHANGED <<reply, disturbed>>
     \/ /\ proc[r] = "starting" /\ "slow" \in Faults
        /\ Goto(r, "wait", "store")
        /\ disturbed' = Disturbed(r)
        /\ UNCHANGED reply
  /\ UNCHANGED <<inputs, old, clips, proc, sel, before>>

Store(r) ==
  /\ Goto(r, "store", "done")
  /\ clips' = [clips EXCEPT ![sandbox[r]] = r]
  /\ Reply(r, "granted")
  /\ UNCHANGED <<inputs, old, proc, sel, history>>

Poll(r) ==
  /\ pc[r] = "poll"
  /\ \/ /\ old[r] # Nothing /\ Running(old[r])
        /\ Goto(r, "poll", "clear")
        /\ UNCHANGED reply
     \/ /\ ~(old[r] # Nothing /\ Running(old[r]))
        /\ Goto(r, "poll", "done")
        /\ Reply(r, "granted")
  /\ UNCHANGED <<inputs, old, clips, proc, sel, history>>

\* Mutant: answered without waiting for wl-copy --clear.
Clear_Later(r) ==
  /\ Goto(r, "clear", "done")
  /\ Reply(r, "granted")
  /\ clips' = [clips EXCEPT ![sandbox[r]] = old[r]]
  /\ UNCHANGED <<inputs, old, proc, sel, history>>

\* wl-copy --clear takes the selection from whoever has it by now.
Clear(r) ==
  /\ Goto(r, "clear", "done")
  /\ Reply(r, "granted")
  /\ \/ /\ proc' = Owned(Nothing)
        /\ sel' = Nothing
        /\ UNCHANGED disturbed
     \/ /\ "clear" \in Faults
        /\ disturbed' = Disturbed(r)
        /\ UNCHANGED <<proc, sel>>
  /\ UNCHANGED <<inputs, old, clips, before>>

ThreadStep(r) ==
  Pop(r) \/ Spawn(r) \/ Wait(r) \/ Store(r) \/ Poll(r) \/ Clear(r)

Next ==
  \/ \E r \in Request : ThreadStep(r) \/ WlCopyClaims(r) \/ WlCopyFails(r)
  \/ UserCopies

Spec == Init /\ [][Next]_vars

-----------------------------------------------------------------------------
TypeOK ==
  /\ sandbox \in [Request -> Sandbox]
  /\ op \in [Request -> {"copy", "clear"}]
  /\ pc \in [Request -> PCs]
  /\ old \in [Request -> Request \cup {Nothing}]
  /\ reply \in [Request -> {"none", "granted", "error"}]
  /\ clips \in [Sandbox -> Request \cup {Nothing}]
  /\ proc \in [Request -> ProcStates]
  /\ sel \in Request \cup {Nothing, User}
  /\ before \in [Request -> Request \cup {Nothing, User}]
  /\ disturbed \subseteq Sandbox

\* A wl-copy is in one place at most, self.clips or the hands of one thread
\* that may act on it: two clears never both take theirs to be running.
HandleUnique ==
  LET inHand(r) == pc[r] \in {"poll", "clear"} /\ old[r] # Nothing
  IN  /\ \A q, r \in Request : inHand(q) /\ inHand(r) /\ old[q] = old[r] => q = r
      /\ \A r \in Request : \A s \in Sandbox : inHand(r) => clips[s] # old[r]
      /\ \A s, t \in Sandbox : clips[s] = clips[t] /\ clips[s] # Nothing => s = t

\* r's clear is granted with the text the sandbox had on the clipboard gone.
Cleared(r) ==
  /\ op[r] = "clear"
  /\ reply[r] = "none" /\ reply'[r] = "granted"
  /\ before[r] \in Request /\ sandbox[before[r]] = sandbox[r]
  => sel' # before[r]

\* A clear is granted once the text the sandbox had on the clipboard is gone.
ClearClears == [][\A r \in Request : Cleared(r)]_vars

\* The same, for sandboxes with one request at a time, while wl-copy works.
ClearClearsUndisturbed ==
  [][\A r \in Request : sandbox[r] \notin disturbed' => Cleared(r)]_vars
=============================================================================
