----------------------------- MODULE ClipProofs -----------------------------
(***************************************************************************)
(* Proofs about BrokerClipboard and ClipGuest, for any number of           *)
(* sandboxes, requests and sources: a wl-copy is in one place; while       *)
(* nothing disturbs a sandbox, the broker and the VM know what of it is on *)
(* the user's clipboard, and a clear clears it; and a client is told of    *)
(* its own source's end.                                                   *)
(***************************************************************************)
EXTENDS ClipGuest, TLAPS

Busy(r) == pc[r] \notin {"new", "done"}

\* What a thread does and its wl-copy is at, by where it is.
ThreadInv ==
  /\ \A r \in Request :
       /\ pc[r] \in {"spawn", "wait", "store"} => op[r] = "copy"
       /\ pc[r] \in {"poll", "clear"} => op[r] = "clear"
       /\ pc[r] \in {"new", "spawn"} => proc[r] = "none"
       /\ sandbox[r] \notin disturbed =>
            proc[r] # "failed" /\ (proc[r] = "starting" => pc[r] = "wait")
  /\ sel \in Request => proc[sel] = "owner"

\* A wl-copy gets into self.clips as its thread ends, and from there into the
\* hands of one thread, for good.
HandleInv ==
  /\ \A r \in Request : old[r] # Nothing =>
       /\ pc[old[r]] = "done"
       /\ \A q \in Request : old[q] = old[r] => q = r
       /\ \A s \in Sandbox : clips[s] # old[r]
  /\ \A s \in Sandbox : clips[s] # Nothing => pc[clips[s]] = "done" /\ sandbox[clips[s]] = s

\* A sandbox that is not disturbed has one request under way at most.
AloneInv ==
  \A q, r \in Request :
    /\ sandbox[q] = sandbox[r] /\ sandbox[r] \notin disturbed
    /\ Busy(q) /\ Busy(r)
    => q = r

\* r is still to take the selection, or to clear it.
Ahead(r) == pc[r] \in {"spawn", "poll", "clear"} \/ (pc[r] = "wait" /\ proc[r] = "starting")

\* Where the wl-copy with the selection is: in self.clips, its own thread's,
\* or with the thread that will take the selection from it.
SelInv ==
  \A p \in Request : sel = p /\ sandbox[p] \notin disturbed =>
    \/ clips[sandbox[p]] = p /\ \A r \in Request : sandbox[r] = sandbox[p] => ~Busy(r)
    \/ pc[p] \in {"wait", "store"}
    \/ \E r \in Request : sandbox[r] = sandbox[p] /\ old[r] = p /\ Ahead(r)

BrokerInv == TypeOK /\ ThreadInv /\ HandleInv /\ AloneInv /\ SelInv

\* The guest's threads and the broker's: where a request is in both, and whose
\* it is.
GuestInv ==
  /\ \A r \in mix.client : sandbox[r] = Vm /\ (pc[r] # "new" => gpc[r] \in {"wait", "cancel", "done"})
  /\ \A r \in Request :
       /\ gpc[r] \in {"source", "take", "copy"} => op[r] = "copy"
       /\ gpc[r] = "clear" => op[r] = "clear"
       /\ gpc[r] # "none" => r \in mix.client
       /\ gpc[r] # "none" /\ op[r] = "copy" => number[r] \in Id
       /\ gpc[r] = "none" => number[r] = NoNumber

\* A number stands for a source made with it; one that the thread of another
\* source is still to cancel was used again.
NumberInv ==
  /\ \A i \in Id : mine[i] # Nothing => number[mine[i]] = i
  /\ \A q, r \in Request :
       /\ q # r /\ number[q] \in Id /\ number[r] = number[q]
       /\ mine[number[q]] = q /\ gpc[r] # "done"
       => q \in reused

\* In a VM that is not disturbed one request at a time changes the text, and
\* until the broker has answered it the text is that request's.
ChangeInv ==
  Vm \notin disturbed =>
    /\ \A q, r \in Changing : q = r
    /\ \A r \in Changing : text = IF op[r] = "copy" THEN r ELSE Nothing

\* A client's text is on the user's clipboard only while it is the VM's, or
\* the request that changed the VM's is still to change the selection.
Pending(r) == gpc[r] = "ask" \/ Ahead(r)

OnClipboardInv ==
  Vm \notin disturbed /\ sel \in mix.client => text = sel \/ \E r \in mix.client : Pending(r)

GuestTypes ==
  /\ mix \in Mix
  /\ dead \in BOOLEAN
  /\ mine \in [Id -> Request \cup {Nothing}]
  /\ number \in [Request -> Id \cup {NoNumber}]
  /\ gpc \in [Request -> GuestPCs]
  /\ text \in Request \cup {Nothing}
  /\ told \subseteq Request /\ reused \subseteq Request

SourceInv == NumberInv /\ CancelledTaken
TextInv == ChangeInv /\ OnClipboardInv
ClipInv == BrokerInv /\ GuestTypes /\ GuestInv /\ SourceInv /\ TextInv

-----------------------------------------------------------------------------
(* op_clipboard and the selection                                          *)

LEMMA ClipStart == Init => BrokerInv
<1> SUFFICES ASSUME Init PROVE BrokerInv
  OBVIOUS
<1> USE ClipboardAssumption DEF Init
<1>1. TypeOK
  BY DEF TypeOK, PCs, ProcStates
<1>2. ThreadInv /\ HandleInv /\ AloneInv /\ SelInv
  BY DEF ThreadInv, HandleInv, AloneInv, SelInv, Busy
<1> QED BY <1>1, <1>2 DEF BrokerInv

LEMMA Moves ==
  ASSUME TypeOK, NEW r \in Request, NEW from, NEW to, Goto(r, from, to)
  PROVE  /\ pc[r] = from /\ pc'[r] = to
         /\ \A q \in Request : q # r => pc'[q] = pc[q]
  BY DEF Goto, TypeOK

\* Once there was a fault, or requests at once, less is asked of a sandbox.
LEMMA DisturbKeeps ==
  ASSUME BrokerInv, disturbed \subseteq disturbed', disturbed' \subseteq Sandbox,
         UNCHANGED <<sandbox, op, pc, old, reply, clips, proc, sel, before>>
  PROVE  BrokerInv'
<1>1. TypeOK'
  BY DEF BrokerInv, TypeOK
<1>2. \A r \in Request : sandbox'[r] \notin disturbed' => sandbox[r] \notin disturbed
  OBVIOUS
<1>3. HandleInv'
  BY DEF BrokerInv, HandleInv
<1>4. ThreadInv' /\ AloneInv'
  BY <1>2 DEF BrokerInv, ThreadInv, AloneInv, Busy
<1>5. SelInv'
  BY <1>2 DEF BrokerInv, SelInv, Busy, Ahead
<1> QED BY <1>1, <1>3, <1>4, <1>5 DEF BrokerInv

LEMMA PopKeeps == ASSUME BrokerInv, NEW r \in Request, Pop(r) PROVE BrokerInv'
<1> USE DEF inputs
<1> DEFINE s == sandbox[r]
<1>1. /\ TypeOK /\ s \in Sandbox
      /\ UNCHANGED <<sandbox, op, reply, proc, sel>>
      /\ old' = [old EXCEPT ![r] = clips[s]] /\ clips' = [clips EXCEPT ![s] = Nothing]
      /\ before' = [before EXCEPT ![r] = sel]
      /\ disturbed' = IF Served(s) = {} THEN disturbed ELSE disturbed \cup {s}
  BY DEF Pop, BrokerInv, TypeOK, Disturbed
<1>2. /\ pc[r] = "new" /\ pc'[r] = (IF op[r] = "copy" THEN "spawn" ELSE "poll")
      /\ \A q \in Request : q # r => pc'[q] = pc[q]
  BY <1>1, Moves DEF Pop
<1>3. /\ clips[s] \in Request \cup {Nothing} /\ old'[r] = clips[s]
      /\ \A q \in Request : q # r => old'[q] = old[q]
      /\ clips'[s] = Nothing /\ \A t \in Sandbox : t # s => clips'[t] = clips[t]
  BY <1>1 DEF TypeOK
<1>4. TypeOK'
  <2>1. pc' \in [Request -> PCs]
    BY DEF Pop, Goto, BrokerInv, TypeOK, PCs
  <2>2. disturbed' \subseteq Sandbox
    BY <1>1 DEF TypeOK
  <2> QED BY <1>1, <1>3, <2>1, <2>2 DEF TypeOK
<1>5. disturbed \subseteq disturbed'
  BY <1>1
<1>6. ThreadInv'
  <2>1. op[r] \in {"copy", "clear"} /\ proc[r] = "none"
    BY <1>1, <1>2 DEF BrokerInv, ThreadInv, TypeOK
  <2>2. ASSUME NEW q \in Request
        PROVE  /\ pc'[q] \in {"spawn", "wait", "store"} => op[q] = "copy"
               /\ pc'[q] \in {"poll", "clear"} => op[q] = "clear"
               /\ pc'[q] \in {"new", "spawn"} => proc[q] = "none"
               /\ sandbox[q] \notin disturbed' =>
                    proc[q] # "failed" /\ (proc[q] = "starting" => pc'[q] = "wait")
    <3>1. CASE q = r
      BY <1>2, <2>1, <3>1
    <3>2. CASE q # r
      BY <1>2, <1>5, <3>2 DEF BrokerInv, ThreadInv
    <3> QED BY <3>1, <3>2
  <2> QED BY <1>1, <2>2 DEF BrokerInv, ThreadInv
<1>7. HandleInv'
  <2>1. \A q \in Request : pc[q] = "done" => pc'[q] = "done"
    BY <1>2
  <2>2. ASSUME NEW q \in Request, old'[q] # Nothing
        PROVE  /\ pc'[old'[q]] = "done"
               /\ \A o \in Request : old'[o] = old'[q] => o = q
               /\ \A t \in Sandbox : clips'[t] # old'[q]
    <3>1. CASE q = r
      <4>1. clips[s] # Nothing /\ clips[s] \in Request /\ pc[clips[s]] = "done"
            /\ sandbox[clips[s]] = s
        BY <1>1, <1>3, <2>2, <3>1 DEF BrokerInv, HandleInv
      <4>2. \A o \in Request : o # r => old'[o] # clips[s]
        BY <1>1, <1>3, <4>1 DEF BrokerInv, HandleInv
      <4>3. \A t \in Sandbox : t # s => clips[t] # clips[s]
        BY <4>1 DEF BrokerInv, HandleInv
      <4> QED BY <1>3, <2>1, <3>1, <4>1, <4>2, <4>3
    <3>2. CASE q # r
      <4>1. old[q] # Nothing /\ old'[q] = old[q] /\ old[q] \in Request
        BY <1>1, <1>3, <2>2, <3>2 DEF TypeOK
      <4>2. /\ pc[old[q]] = "done" /\ \A o \in Request : old[o] = old[q] => o = q
            /\ \A t \in Sandbox : clips[t] # old[q]
        BY <4>1 DEF BrokerInv, HandleInv
      <4> QED BY <1>1, <1>3, <2>1, <3>2, <4>1, <4>2
    <3> QED BY <3>1, <3>2
  <2>3. ASSUME NEW t \in Sandbox, clips'[t] # Nothing
        PROVE  pc'[clips'[t]] = "done" /\ sandbox[clips'[t]] = t
    <3>1. t # s /\ clips'[t] = clips[t] /\ clips[t] \in Request
      BY <1>1, <1>3, <2>3 DEF TypeOK
    <3> QED BY <2>1, <2>3, <3>1 DEF BrokerInv, HandleInv
  <2> QED BY <1>1, <2>2, <2>3 DEF HandleInv
<1>8. \A q \in Request : sandbox[q] = s /\ s \notin disturbed' => ~Busy(q)
  BY <1>1 DEF Served, Busy
<1>9. AloneInv'
  BY <1>1, <1>2, <1>5, <1>8 DEF BrokerInv, AloneInv, Busy
<1>10. SelInv'
  <2> SUFFICES ASSUME NEW p \in Request, sel = p, sandbox[p] \notin disturbed'
               PROVE  \/ clips'[sandbox[p]] = p /\ \A q \in Request : sandbox[q] = sandbox[p] => ~Busy(q)'
                      \/ pc'[p] \in {"wait", "store"}
                      \/ \E q \in Request : sandbox[q] = sandbox[p] /\ old'[q] = p /\ Ahead(q)'
    BY <1>1 DEF SelInv
  <2>1. \/ clips[sandbox[p]] = p /\ \A q \in Request : sandbox[q] = sandbox[p] => ~Busy(q)
        \/ pc[p] \in {"wait", "store"}
        \/ \E q \in Request : sandbox[q] = sandbox[p] /\ old[q] = p /\ Ahead(q)
    BY <1>5 DEF BrokerInv, SelInv
  <2>2. CASE sandbox[p] = s
    <3>1. clips[s] = p
      BY <1>8, <2>1, <2>2 DEF Busy, Ahead
    <3>2. Ahead(r)'
      BY <1>2 DEF Ahead
    <3> QED BY <1>3, <2>2, <3>1, <3>2
  <2>3. CASE sandbox[p] # s
    <3>1. \A q \in Request : sandbox[q] = sandbox[p] =>
            q # r /\ pc'[q] = pc[q] /\ old'[q] = old[q] /\ proc'[q] = proc[q]
      BY <1>1, <1>2, <1>3, <2>3
    <3>2. sandbox[p] \in Sandbox /\ clips'[sandbox[p]] = clips[sandbox[p]]
      BY <1>1, <1>3, <2>3 DEF TypeOK
    <3> QED BY <2>1, <3>1, <3>2 DEF Busy, Ahead
  <2> QED BY <2>2, <2>3
<1> QED BY <1>4, <1>6, <1>7, <1>9, <1>10 DEF BrokerInv

\* The thread that is under way in a sandbox that is not disturbed has the
\* wl-copy with the selection in its hands, or started it.
LEMMA Alone ==
  ASSUME BrokerInv, NEW r \in Request, Busy(r), NEW p \in Request, sel = p,
         sandbox[p] = sandbox[r], sandbox[r] \notin disturbed
  PROVE  \/ p = r /\ pc[r] \in {"wait", "store"}
         \/ old[r] = p /\ Ahead(r)
<1>1. \/ pc[p] \in {"wait", "store"}
      \/ \E q \in Request : sandbox[q] = sandbox[r] /\ old[q] = p /\ Ahead(q)
  BY DEF BrokerInv, SelInv
<1>2. \A q \in Request : sandbox[q] = sandbox[r] /\ Busy(q) => q = r
  BY DEF BrokerInv, AloneInv
<1>3. CASE pc[p] \in {"wait", "store"}
  BY <1>2, <1>3 DEF Busy
<1>4. ASSUME NEW q \in Request, sandbox[q] = sandbox[r], old[q] = p, Ahead(q)
      PROVE  old[r] = p /\ Ahead(r)
  <2>1. q = r
    BY <1>2, <1>4 DEF Busy, Ahead
  <2> QED BY <1>4, <2>1
<1> QED BY <1>1, <1>3, <1>4

\* What a request does to its sandbox leaves the others alone.
LEMMA SelElsewhere ==
  ASSUME BrokerInv, NEW s \in Sandbox, UNCHANGED <<sandbox, sel>>, disturbed \subseteq disturbed',
         \A q \in Request : sandbox[q] # s =>
           pc'[q] = pc[q] /\ old'[q] = old[q] /\ proc'[q] = proc[q],
         \A t \in Sandbox : t # s => clips'[t] = clips[t],
         \A p \in Request : sel = p /\ sandbox[p] = s /\ s \notin disturbed' =>
           \/ clips'[s] = p /\ \A q \in Request : sandbox[q] = s => ~Busy(q)'
           \/ pc'[p] \in {"wait", "store"}
           \/ \E q \in Request : sandbox[q] = s /\ old'[q] = p /\ Ahead(q)'
  PROVE  SelInv'
<1> SUFFICES ASSUME NEW p \in Request, sel = p, sandbox[p] \notin disturbed', sandbox[p] # s
             PROVE  \/ clips'[sandbox[p]] = p /\ \A q \in Request : sandbox[q] = sandbox[p] => ~Busy(q)'
                    \/ pc'[p] \in {"wait", "store"}
                    \/ \E q \in Request : sandbox[q] = sandbox[p] /\ old'[q] = p /\ Ahead(q)'
  BY DEF SelInv
<1>1. \/ clips[sandbox[p]] = p /\ \A q \in Request : sandbox[q] = sandbox[p] => ~Busy(q)
      \/ pc[p] \in {"wait", "store"}
      \/ \E q \in Request : sandbox[q] = sandbox[p] /\ old[q] = p /\ Ahead(q)
  BY DEF BrokerInv, SelInv
<1>2. sandbox[p] \in Sandbox
  BY DEF BrokerInv, TypeOK
<1> QED BY <1>1, <1>2 DEF Busy, Ahead

\* A thread that is under way goes on: everything but where it is, its
\* wl-copy and the selection stays.
LEMMA GoesOn ==
  ASSUME BrokerInv, NEW r \in Request, NEW to, Goto(r, pc[r], to), Busy(r), to \in PCs \ {"new"},
         UNCHANGED <<sandbox, op, old, clips>>, disturbed \subseteq disturbed'
  PROVE  HandleInv' /\ AloneInv'
<1>1. TypeOK /\ pc'[r] = to /\ \A q \in Request : q # r => pc'[q] = pc[q]
  BY Moves DEF BrokerInv
<1>2. HandleInv'
  <2>1. \A q \in Request : pc[q] = "done" => pc'[q] = "done"
    BY <1>1 DEF Busy
  <2>2. /\ \A q \in Request : old[q] # Nothing => old[q] \in Request
        /\ \A s \in Sandbox : clips[s] # Nothing => clips[s] \in Request
    BY <1>1 DEF TypeOK
  <2> QED BY <2>1, <2>2 DEF BrokerInv, HandleInv
<1>3. AloneInv'
  <2>1. \A q \in Request : Busy(q)' => Busy(q)
    BY <1>1 DEF Busy
  <2> QED BY <2>1 DEF BrokerInv, AloneInv
<1> QED BY <1>2, <1>3

LEMMA SpawnKeeps == ASSUME BrokerInv, NEW r \in Request, Spawn(r) PROVE BrokerInv'
<1> USE DEF inputs
<1> DEFINE s == sandbox[r]
<1>1. /\ TypeOK /\ s \in Sandbox /\ pc[r] = "spawn" /\ Busy(r) /\ op[r] = "copy"
      /\ UNCHANGED <<sandbox, op, old, clips, sel, before>>
      /\ Goto(r, pc[r], pc'[r])
      /\ \A q \in Request : q # r => pc'[q] = pc[q]
  BY Moves DEF Spawn, BrokerInv, ThreadInv, TypeOK, Busy, Goto
<1>2. \/ /\ pc'[r] = "wait" /\ proc' = [proc EXCEPT ![r] = "starting"]
         /\ UNCHANGED <<reply, disturbed>>
      \/ /\ pc'[r] = "done" /\ proc' = proc /\ reply' = [reply EXCEPT ![r] = "error"]
         /\ disturbed' = disturbed \cup {s}
  BY <1>1, Moves DEF Spawn, Disturbed, Reply
<1>3. disturbed \subseteq disturbed' /\ disturbed' \subseteq Sandbox
  BY <1>1, <1>2 DEF TypeOK
<1>4. TypeOK'
  <2>1. proc' \in [Request -> ProcStates] /\ reply' \in [Request -> {"none", "granted", "error"}]
    BY <1>1, <1>2 DEF TypeOK, ProcStates
  <2>2. pc' \in [Request -> PCs]
    BY <1>1, <1>2 DEF TypeOK, PCs, Goto
  <2> QED BY <1>1, <1>3, <2>1, <2>2 DEF TypeOK
<1>5. HandleInv' /\ AloneInv'
  BY <1>1, <1>2, <1>3, GoesOn DEF PCs
<1>6. /\ \A q \in Request : q # r => proc'[q] = proc[q]
      /\ proc'[r] \in {"starting", proc[r]} /\ (proc'[r] # proc[r] => pc'[r] = "wait")
      /\ proc[r] = "none"
  BY <1>1, <1>2 DEF BrokerInv, ThreadInv, TypeOK
<1>7. ThreadInv'
  <2>1. sel \in Request => sel # r /\ proc'[sel] = "owner"
    BY <1>6 DEF BrokerInv, ThreadInv
  <2>2. ASSUME NEW q \in Request
        PROVE  /\ pc'[q] \in {"spawn", "wait", "store"} => op[q] = "copy"
               /\ pc'[q] \in {"poll", "clear"} => op[q] = "clear"
               /\ pc'[q] \in {"new", "spawn"} => proc'[q] = "none"
               /\ sandbox[q] \notin disturbed' =>
                    proc'[q] # "failed" /\ (proc'[q] = "starting" => pc'[q] = "wait")
    <3>1. CASE q = r
      BY <1>1, <1>2, <1>6, <3>1
    <3>2. CASE q # r
      BY <1>1, <1>3, <1>6, <3>2 DEF BrokerInv, ThreadInv
    <3> QED BY <3>1, <3>2
  <2> QED BY <1>1, <2>1, <2>2 DEF ThreadInv
<1>8. SelInv'
  <2>1. ASSUME NEW p \in Request, sel = p, sandbox[p] = s, s \notin disturbed'
        PROVE  \E q \in Request : sandbox[q] = s /\ old'[q] = p /\ Ahead(q)'
    <3>1. old[r] = p
      BY <1>1, <1>3, <2>1, Alone
    <3>2. pc'[r] = "wait" /\ proc'[r] = "starting"
      BY <1>1, <1>2, <2>1 DEF TypeOK
    <3> QED BY <1>1, <3>1, <3>2 DEF Ahead
  <2> QED BY <1>1, <1>3, <1>6, <2>1, SelElsewhere
<1> QED BY <1>4, <1>5, <1>7, <1>8 DEF BrokerInv

LEMMA WaitKeeps == ASSUME BrokerInv, NEW r \in Request, Wait(r) PROVE BrokerInv'
<1> USE DEF inputs
<1> DEFINE s == sandbox[r]
<1>1. /\ TypeOK /\ s \in Sandbox /\ pc[r] = "wait" /\ Busy(r) /\ op[r] = "copy"
      /\ UNCHANGED <<sandbox, op, old, clips, proc, sel, before>>
      /\ Goto(r, pc[r], pc'[r])
      /\ \A q \in Request : q # r => pc'[q] = pc[q]
  BY Moves DEF Wait, BrokerInv, ThreadInv, TypeOK, Busy, Goto
<1>2. \/ /\ proc[r] = "failed" /\ pc'[r] = "done" /\ disturbed' = disturbed
         /\ reply' = [reply EXCEPT ![r] = "error"]
      \/ /\ proc[r] \in {"owner", "exited"} /\ pc'[r] = "store"
         /\ UNCHANGED <<reply, disturbed>>
      \/ /\ pc'[r] = "store" /\ reply' = reply /\ disturbed' = disturbed \cup {s}
  BY <1>1, Moves DEF Wait, Disturbed, Reply
<1>3. disturbed \subseteq disturbed' /\ disturbed' \subseteq Sandbox
  BY <1>1, <1>2 DEF TypeOK
<1>4. TypeOK'
  <2>1. reply' \in [Request -> {"none", "granted", "error"}]
    BY <1>1, <1>2 DEF TypeOK
  <2>2. pc' \in [Request -> PCs]
    BY <1>1, <1>2 DEF TypeOK, PCs, Goto
  <2> QED BY <1>1, <1>3, <2>1, <2>2 DEF TypeOK
<1>5. HandleInv' /\ AloneInv'
  BY <1>1, <1>2, <1>3, GoesOn DEF PCs
<1>6. s \notin disturbed' => proc[r] # "starting" /\ pc'[r] = "store"
  BY <1>1, <1>2, <1>3 DEF BrokerInv, ThreadInv
<1>7. ThreadInv'
  <2>1. ASSUME NEW q \in Request
        PROVE  /\ pc'[q] \in {"spawn", "wait", "store"} => op[q] = "copy"
               /\ pc'[q] \in {"poll", "clear"} => op[q] = "clear"
               /\ pc'[q] \in {"new", "spawn"} => proc[q] = "none"
               /\ sandbox[q] \notin disturbed' =>
                    proc[q] # "failed" /\ (proc[q] = "starting" => pc'[q] = "wait")
    <3>1. CASE q = r
      BY <1>1, <1>2, <1>3, <1>6, <3>1 DEF BrokerInv, ThreadInv
    <3>2. CASE q # r
      BY <1>1, <1>3, <3>2 DEF BrokerInv, ThreadInv
    <3> QED BY <3>1, <3>2
  <2> QED BY <1>1, <2>1 DEF BrokerInv, ThreadInv
<1>8. SelInv'
  <2>1. ASSUME NEW p \in Request, sel = p, sandbox[p] = s, s \notin disturbed'
        PROVE  pc'[p] \in {"wait", "store"}
    <3>1. ~Ahead(r)
      BY <1>1, <1>6, <2>1 DEF Ahead
    <3>2. p = r
      BY <1>1, <1>3, <2>1, <3>1, Alone
    <3> QED BY <1>6, <2>1, <3>2
  <2> QED BY <1>1, <1>3, <2>1, SelElsewhere
<1> QED BY <1>4, <1>5, <1>7, <1>8 DEF BrokerInv

LEMMA StoreKeeps == ASSUME BrokerInv, NEW r \in Request, Store(r) PROVE BrokerInv'
<1> USE DEF inputs, history
<1> DEFINE s == sandbox[r]
<1>1. /\ TypeOK /\ s \in Sandbox /\ pc[r] = "store" /\ Busy(r) /\ op[r] = "copy"
      /\ UNCHANGED <<sandbox, op, old, proc, sel, before, disturbed>>
      /\ clips' = [clips EXCEPT ![s] = r] /\ reply' = [reply EXCEPT ![r] = "granted"]
      /\ Goto(r, "store", "done")
  BY DEF Store, BrokerInv, ThreadInv, TypeOK, Busy, Goto, Reply
<1>2. /\ pc'[r] = "done" /\ \A q \in Request : q # r => pc'[q] = pc[q]
      /\ clips'[s] = r /\ \A t \in Sandbox : t # s => clips'[t] = clips[t]
  BY <1>1, Moves DEF TypeOK
<1>3. TypeOK'
  BY <1>1 DEF TypeOK, PCs, Goto
<1>4. ThreadInv'
  BY <1>1, <1>2 DEF BrokerInv, ThreadInv
<1>5. HandleInv'
  <2>1. \A q \in Request : pc[q] = "done" => pc'[q] = "done" /\ q # r
    BY <1>1, <1>2
  <2>2. ASSUME NEW q \in Request, old[q] # Nothing
        PROVE  /\ pc'[old[q]] = "done"
               /\ \A o \in Request : old[o] = old[q] => o = q
               /\ \A t \in Sandbox : clips'[t] # old[q]
    <3>1. /\ old[q] \in Request /\ pc[old[q]] = "done"
          /\ \A o \in Request : old[o] = old[q] => o = q
          /\ \A t \in Sandbox : clips[t] # old[q]
      BY <1>1, <2>2 DEF BrokerInv, HandleInv, TypeOK
    <3> QED BY <1>2, <2>1, <3>1
  <2>3. ASSUME NEW t \in Sandbox, clips'[t] # Nothing
        PROVE  pc'[clips'[t]] = "done" /\ sandbox[clips'[t]] = t
    <3>1. CASE t = s
      BY <1>2, <3>1
    <3>2. CASE t # s
      <4>1. clips'[t] = clips[t] /\ clips[t] \in Request
        BY <1>1, <1>2, <2>3, <3>2 DEF TypeOK
      <4> QED BY <2>1, <2>3, <4>1 DEF BrokerInv, HandleInv
    <3> QED BY <3>1, <3>2
  <2> QED BY <1>1, <2>2, <2>3 DEF HandleInv
<1>6. AloneInv'
  BY <1>1, <1>2 DEF BrokerInv, AloneInv, Busy
<1>7. SelInv'
  <2>1. ASSUME NEW p \in Request, sel = p, sandbox[p] = s, s \notin disturbed
        PROVE  clips'[s] = p /\ \A q \in Request : sandbox[q] = s => ~Busy(q)'
    <3>1. p = r
      BY <1>1, <2>1, Alone DEF Ahead
    <3>2. \A q \in Request : sandbox[q] = s /\ Busy(q) => q = r
      BY <1>1, <2>1 DEF BrokerInv, AloneInv
    <3> QED BY <1>2, <3>1, <3>2 DEF Busy
  <2> QED BY <1>1, <1>2, <2>1, SelElsewhere
<1> QED BY <1>3, <1>4, <1>5, <1>6, <1>7 DEF BrokerInv

LEMMA PollKeeps == ASSUME BrokerInv, NEW r \in Request, Poll(r) PROVE BrokerInv'
<1> USE DEF inputs, history
<1> DEFINE s == sandbox[r]
<1>1. /\ TypeOK /\ s \in Sandbox /\ pc[r] = "poll" /\ Busy(r) /\ op[r] = "clear"
      /\ UNCHANGED <<sandbox, op, old, clips, proc, sel, before, disturbed>>
      /\ Goto(r, pc[r], pc'[r])
      /\ \A q \in Request : q # r => pc'[q] = pc[q]
  BY Moves DEF Poll, BrokerInv, ThreadInv, TypeOK, Busy, Goto
<1>2. \/ pc'[r] = "clear" /\ reply' = reply
      \/ /\ ~(old[r] # Nothing /\ Running(old[r]))
         /\ pc'[r] = "done" /\ reply' = [reply EXCEPT ![r] = "granted"]
  BY <1>1, Moves DEF Poll, Reply
<1>3. TypeOK'
  <2>1. reply' \in [Request -> {"none", "granted", "error"}]
    BY <1>1, <1>2 DEF TypeOK
  <2>2. pc' \in [Request -> PCs]
    BY <1>1, <1>2 DEF TypeOK, PCs, Goto
  <2> QED BY <1>1, <2>1, <2>2 DEF TypeOK
<1>4. ThreadInv'
  BY <1>1, <1>2 DEF BrokerInv, ThreadInv
<1>5. HandleInv' /\ AloneInv'
  BY <1>1, <1>2, GoesOn DEF PCs
<1>6. SelInv'
  <2>1. ASSUME NEW p \in Request, sel = p, sandbox[p] = s, s \notin disturbed
        PROVE  \E q \in Request : sandbox[q] = s /\ old'[q] = p /\ Ahead(q)'
    <3>1. old[r] = p
      BY <1>1, <2>1, Alone
    <3>2. old[r] # Nothing /\ Running(old[r])
      BY <2>1, <3>1, ClipboardAssumption DEF BrokerInv, ThreadInv, Running
    <3>3. Ahead(r)'
      BY <1>2, <3>2 DEF Ahead
    <3> QED BY <1>1, <3>1, <3>3
  <2> QED BY <1>1, <2>1, SelElsewhere
<1> QED BY <1>3, <1>4, <1>5, <1>6 DEF BrokerInv

\* Whoever is given the selection is the only one to have it.
LEMMA OwnedBy ==
  ASSUME TypeOK, NEW w, proc' = Owned(w)
  PROVE  /\ proc' \in [Request -> ProcStates]
         /\ \A q \in Request : /\ q = w => proc'[q] = "owner"
                               /\ q # w => proc'[q] \in {"exited", proc[q]}
                               /\ q # w /\ q # sel => proc'[q] = proc[q]
  BY DEF Owned, TypeOK, ProcStates

LEMMA ClearKeeps == ASSUME BrokerInv, NEW r \in Request, Clear(r) PROVE BrokerInv'
<1> USE DEF inputs, history
<1> DEFINE s == sandbox[r]
<1>1. /\ TypeOK /\ s \in Sandbox /\ pc[r] = "clear" /\ Busy(r)
      /\ UNCHANGED <<sandbox, op, old, clips, before>>
      /\ Goto(r, pc[r], "done") /\ pc'[r] = "done" /\ reply' = [reply EXCEPT ![r] = "granted"]
      /\ \A q \in Request : q # r => pc'[q] = pc[q]
  BY Moves DEF Clear, BrokerInv, TypeOK, Busy, Goto, Reply
<1>2. \/ proc' = Owned(Nothing) /\ sel' = Nothing /\ disturbed' = disturbed
      \/ disturbed' = disturbed \cup {s} /\ UNCHANGED <<proc, sel>>
  BY DEF Clear, Disturbed
<1>3. disturbed \subseteq disturbed' /\ disturbed' \subseteq Sandbox
  BY <1>1, <1>2 DEF TypeOK
<1>4. /\ proc' \in [Request -> ProcStates]
      /\ \A q \in Request : proc'[q] \in {"exited", proc[q]}
      /\ \A q \in Request : q # sel => proc'[q] = proc[q]
  BY <1>1, <1>2, OwnedBy, ClipboardAssumption DEF TypeOK
<1>5. TypeOK'
  BY <1>1, <1>2, <1>3, <1>4 DEF TypeOK, PCs, Goto
<1>6. HandleInv' /\ AloneInv'
  BY <1>1, <1>3, GoesOn DEF PCs
<1>7. ThreadInv'
  <2>1. sel' \in Request => proc'[sel'] = "owner"
    BY <1>2, ClipboardAssumption DEF BrokerInv, ThreadInv
  <2>2. ASSUME NEW q \in Request
        PROVE  /\ pc'[q] \in {"spawn", "wait", "store"} => op[q] = "copy"
               /\ pc'[q] \in {"poll", "clear"} => op[q] = "clear"
               /\ pc'[q] \in {"new", "spawn"} => proc'[q] = "none"
               /\ sandbox[q] \notin disturbed' =>
                    proc'[q] # "failed" /\ (proc'[q] = "starting" => pc'[q] = "wait")
    <3>1. CASE q = r
      <4>1. s \notin disturbed' => proc[r] \notin {"failed", "starting"}
        BY <1>1, <1>3 DEF BrokerInv, ThreadInv
      <4> QED BY <1>1, <1>4, <3>1, <4>1
    <3>2. CASE q # r
      <4>1. pc[q] \in {"new", "spawn"} => q # sel
        BY DEF BrokerInv, ThreadInv
      <4> QED BY <1>1, <1>3, <1>4, <3>2, <4>1 DEF BrokerInv, ThreadInv
    <3> QED BY <3>1, <3>2
  <2> QED BY <1>1, <2>1, <2>2 DEF ThreadInv
<1>8. SelInv'
  <2>1. CASE sel' = Nothing
    BY <2>1, ClipboardAssumption DEF SelInv
  <2>2. CASE disturbed' = disturbed \cup {s} /\ UNCHANGED <<proc, sel>>
    BY <1>1, <1>3, <2>2, SelElsewhere
  <2> QED BY <1>2, <2>1, <2>2
<1> QED BY <1>5, <1>6, <1>7, <1>8 DEF BrokerInv

LEMMA ClaimsKeeps == ASSUME BrokerInv, NEW w \in Request, WlCopyClaims(w) PROVE BrokerInv'
<1> USE DEF inputs, history
<1>1. /\ TypeOK /\ proc[w] = "starting" /\ proc' = Owned(w) /\ sel' = w
      /\ UNCHANGED <<sandbox, op, pc, old, reply, clips, before, disturbed>>
  BY DEF WlCopyClaims, BrokerInv
<1>2. /\ proc' \in [Request -> ProcStates] /\ proc'[w] = "owner"
      /\ \A q \in Request : q # w => proc'[q] \in {"exited", proc[q]}
      /\ \A q \in Request : q # w /\ q # sel => proc'[q] = proc[q]
  BY <1>1, OwnedBy
<1>3. TypeOK'
  BY <1>1, <1>2 DEF TypeOK
<1>4. HandleInv' /\ AloneInv'
  BY <1>1 DEF BrokerInv, HandleInv, AloneInv, Busy
<1>5. ThreadInv'
  <2>1. \A q \in Request : pc[q] \in {"new", "spawn"} => q # sel /\ q # w
    BY <1>1 DEF BrokerInv, ThreadInv
  <2> QED BY <1>1, <1>2, <2>1 DEF BrokerInv, ThreadInv
<1>6. SelInv'
  <2>1. sandbox[w] \notin disturbed => pc[w] = "wait"
    BY <1>1 DEF BrokerInv, ThreadInv
  <2> QED BY <1>1, <2>1 DEF SelInv
<1> QED BY <1>3, <1>4, <1>5, <1>6 DEF BrokerInv

LEMMA FailsKeeps == ASSUME BrokerInv, NEW w \in Request, WlCopyFails(w) PROVE BrokerInv'
<1> USE DEF inputs
<1>1. /\ TypeOK /\ proc[w] = "starting" /\ proc' = [proc EXCEPT ![w] = "failed"]
      /\ disturbed' = disturbed \cup {sandbox[w]} /\ sandbox[w] \in Sandbox
      /\ UNCHANGED <<sandbox, op, pc, old, reply, clips, sel, before>>
  BY DEF WlCopyFails, BrokerInv, TypeOK, Disturbed
<1>2. /\ proc'[w] = "failed" /\ \A q \in Request : q # w => proc'[q] = proc[q]
      /\ disturbed \subseteq disturbed'
  BY <1>1 DEF TypeOK
<1>3. TypeOK'
  BY <1>1 DEF TypeOK, ProcStates
<1>4. HandleInv' /\ AloneInv'
  BY <1>1, <1>2 DEF BrokerInv, HandleInv, AloneInv, Busy
<1>5. ThreadInv'
  BY <1>1, <1>2 DEF BrokerInv, ThreadInv
<1>6. SelInv'
  BY <1>1, <1>2, SelElsewhere
<1> QED BY <1>3, <1>4, <1>5, <1>6 DEF BrokerInv

LEMMA UserKeeps == ASSUME BrokerInv, UserCopies PROVE BrokerInv'
<1> USE ClipboardAssumption DEF inputs, history
<1>1. /\ TypeOK /\ proc' = Owned(User) /\ sel' = User
      /\ UNCHANGED <<sandbox, op, pc, old, reply, clips, before, disturbed>>
  BY DEF UserCopies, BrokerInv
<1>2. /\ proc' \in [Request -> ProcStates]
      /\ \A q \in Request : proc'[q] \in {"exited", proc[q]}
      /\ \A q \in Request : q # sel => proc'[q] = proc[q]
  BY <1>1, OwnedBy
<1>3. TypeOK'
  BY <1>1, <1>2 DEF TypeOK
<1>4. HandleInv' /\ AloneInv'
  BY <1>1 DEF BrokerInv, HandleInv, AloneInv, Busy
<1>5. ThreadInv'
  <2>1. \A q \in Request : pc[q] \in {"new", "spawn"} => q # sel
    BY DEF BrokerInv, ThreadInv
  <2> QED BY <1>1, <1>2, <2>1 DEF BrokerInv, ThreadInv
<1>6. SelInv'
  BY <1>1 DEF SelInv
<1> QED BY <1>3, <1>4, <1>5, <1>6 DEF BrokerInv

LEMMA BrokerStep == BrokerInv /\ [Next]_vars => BrokerInv'
<1> SUFFICES ASSUME BrokerInv, [Next]_vars PROVE BrokerInv'
  OBVIOUS
<1>1. CASE UNCHANGED vars
  BY <1>1, DisturbKeeps DEF vars, BrokerInv, TypeOK
<1> QED BY <1>1, PopKeeps, SpawnKeeps, WaitKeeps, StoreKeeps, PollKeeps, ClearKeeps, ClaimsKeeps,
           FailsKeeps, UserKeeps DEF Next, ThreadStep

\* The types of op_clipboard's state and of its surroundings.
THEOREM ClipboardTypeCorrect == Spec => []TypeOK
<1>1. BrokerInv => TypeOK
  BY DEF BrokerInv
<1> QED BY <1>1, ClipStart, BrokerStep, PTL DEF Spec

\* A wl-copy is in one place at most: op_clipboard takes it out of self.clips
\* for as long as a thread may act on it, whatever fails and however many
\* requests a sandbox makes at once.
LEMMA OneHand == BrokerInv => HandleUnique
<1> SUFFICES ASSUME BrokerInv PROVE HandleUnique
  OBVIOUS
<1>1. \A q, r \in Request : old[r] # Nothing /\ old[q] = old[r] => q = r
  BY DEF BrokerInv, HandleInv
<1>2. \A r \in Request, s \in Sandbox : old[r] # Nothing => clips[s] # old[r]
  BY DEF BrokerInv, HandleInv
<1>3. \A s, t \in Sandbox : clips[s] = clips[t] /\ clips[s] # Nothing => s = t
  BY DEF BrokerInv, HandleInv
<1> QED BY <1>1, <1>2, <1>3 DEF HandleUnique

THEOREM HandleUniqueAlways == Spec => []HandleUnique
BY OneHand, ClipStart, BrokerStep, PTL DEF Spec

\* What a clear's last steps do, in a sandbox that is not disturbed.
LEMMA ClearedStep ==
  ASSUME BrokerInv, BrokerInv', [Next]_vars, NEW r \in Request, sandbox[r] \notin disturbed'
  PROVE  Cleared(r)
<1> SUFFICES ASSUME op[r] = "clear", reply[r] = "none", reply'[r] = "granted",
                    before[r] \in Request, sandbox[before[r]] = sandbox[r], sel' = before[r]
             PROVE  FALSE
  BY DEF Cleared
<1> USE DEF inputs, history
<1>1. TypeOK
  BY DEF BrokerInv
<1>2. PICK q \in Request : \/ Spawn(q) \/ Wait(q) \/ Store(q) \/ Poll(q) \/ Clear(q)
  BY DEF Next, ThreadStep, vars, Pop, WlCopyClaims, WlCopyFails, UserCopies
<1>3. q = r /\ ~Spawn(r) /\ ~Wait(r)
  BY <1>1, <1>2 DEF Spawn, Wait, Store, Poll, Clear, Reply, TypeOK
<1>4. CASE Store(r)
  BY <1>4 DEF Store, Goto, BrokerInv, ThreadInv
<1>5. CASE Clear(r)
  <2>1. CASE sel' = Nothing
    BY <2>1, ClipboardAssumption
  <2>2. CASE disturbed' = Disturbed(r)
    BY <2>2 DEF Disturbed
  <2> QED BY <1>5, <2>1, <2>2 DEF Clear
<1>6. CASE Poll(r)
  <2>1. /\ pc[r] = "poll" /\ sel = before[r] /\ disturbed' = disturbed
        /\ ~(old[r] # Nothing /\ Running(old[r]))
    BY <1>1, <1>6 DEF Poll, TypeOK
  <2>2. old[r] = sel
    BY <2>1, Alone DEF Busy
  <2>3. proc[sel] = "owner"
    BY <2>1 DEF BrokerInv, ThreadInv
  <2> QED BY <2>1, <2>2, <2>3, ClipboardAssumption DEF Running
<1> QED BY <1>2, <1>3, <1>4, <1>5, <1>6

\* For a sandbox with one request at a time, while wl-copy works, a clear is
\* granted only once the text the sandbox had on the clipboard is gone.
THEOREM ClearClearsAlways == Spec => ClearClearsUndisturbed
<1>1. BrokerInv /\ BrokerInv' /\ [Next]_vars
        => [\A r \in Request : sandbox[r] \notin disturbed' => Cleared(r)]_vars
  BY ClearedStep
<1> QED BY <1>1, ClipStart, BrokerStep, PTL DEF Spec, ClearClearsUndisturbed

-----------------------------------------------------------------------------
(* The guest                                                               *)

LEMMA MixParts ==
  ASSUME mix \in Mix
  PROVE  mix.client \subseteq Request /\ mix.other \subseteq Request /\ mix.client \cap mix.other = {}
  BY ClipGuestAssumption

LEMMA GuestStart == CInit => ClipInv
<1> SUFFICES ASSUME CInit PROVE ClipInv
  OBVIOUS
<1> USE ClipboardAssumption, ClipGuestAssumption DEF CInit
<1>1. mix.client \subseteq Request
  BY MixParts
<1>2. BrokerInv
  BY ClipStart
<1>3. GuestTypes
  BY DEF GuestTypes, GuestPCs, NoNumber
<1>4. GuestInv
  BY <1>1 DEF GuestInv, Init
<1>5. SourceInv
  BY DEF SourceInv, NumberInv, CancelledTaken, NoNumber
<1>6. Changing = {}
  BY <1>1 DEF Changing, Init
<1>7. TextInv
  BY <1>1, <1>6 DEF TextInv, ChangeInv, OnClipboardInv, Init
<1> QED BY <1>2, <1>3, <1>4, <1>5, <1>7 DEF ClipInv

LEMMA GuestMoves ==
  ASSUME GuestTypes, NEW r \in Request, NEW from, NEW to, GoGuest(r, from, to), to \in GuestPCs
  PROVE  /\ gpc[r] = from /\ gpc'[r] = to /\ gpc' \in [Request -> GuestPCs]
         /\ \A q \in Request : q # r => gpc'[q] = gpc[q]
  BY DEF GoGuest, GuestTypes

\* No source is made: numbers stand for what they stood for, or nothing.
LEMMA SourcesKeep ==
  ASSUME ClipInv, UNCHANGED number, reused \subseteq reused',
         \A i \in Id : mine'[i] \in {mine[i], Nothing},
         \A q \in Request : gpc[q] = "done" => gpc'[q] = "done",
         told' \subseteq Request, \A q \in told' \ reused' : q \in told \/ gpc'[q] = "done"
  PROVE  SourceInv'
<1>1. GuestTypes /\ NumberInv /\ CancelledTaken
  BY DEF ClipInv, SourceInv
<1>2. NumberInv'
  BY <1>1, ClipboardAssumption DEF NumberInv
<1>3. CancelledTaken'
  BY <1>1 DEF CancelledTaken, GuestTypes
<1> QED BY <1>2, <1>3 DEF SourceInv

\* The text is left alone.
LEMMA TextKeeps ==
  ASSUME ClipInv, UNCHANGED <<text, mix, op>>, disturbed \subseteq disturbed',
         \A q \in mix.client : q \in Changing' => q \in Changing,
         Vm \notin disturbed' /\ sel' \in mix.client =>
           \/ text = sel'
           \/ sel' = sel /\ \A q \in mix.client : Pending(q) => Pending(q)'
  PROVE  TextInv'
<1>1. ChangeInv /\ OnClipboardInv
  BY DEF ClipInv, TextInv
<1>2. Changing' \subseteq Changing
  BY DEF Changing
<1>3. ChangeInv'
  BY <1>1, <1>2 DEF ChangeInv
<1>4. OnClipboardInv'
  BY <1>1 DEF OnClipboardInv
<1> QED BY <1>3, <1>4 DEF TextInv

LEMMA BrokerUntouched == ASSUME ClipInv, UNCHANGED vars PROVE BrokerInv'
  BY DisturbKeeps DEF ClipInv, vars, BrokerInv, TypeOK

\* The thread of a client's request goes on.
LEMMA GuestGoes ==
  ASSUME ClipInv, NEW r \in mix.client, NEW to \in GuestPCs \ {"none"},
         gpc' = [gpc EXCEPT ![r] = to], UNCHANGED <<sandbox, op, mix>>,
         to \in {"source", "take", "copy"} => op[r] = "copy",
         to = "clear" => op[r] = "clear",
         pc'[r] # "new" => to \in {"wait", "cancel", "done"},
         op[r] = "copy" => number'[r] \in Id,
         \A q \in Request : q # r => number'[q] = number[q] /\ pc'[q] = pc[q]
  PROVE  /\ GuestInv' /\ gpc' \in [Request -> GuestPCs]
         /\ gpc'[r] = to /\ \A q \in Request : q # r => gpc'[q] = gpc[q]
<1>1. GuestTypes /\ GuestInv /\ mix.client \subseteq Request /\ r \in Request
  BY MixParts DEF ClipInv, GuestTypes
<1>2. gpc'[r] = to /\ (\A q \in Request : q # r => gpc'[q] = gpc[q]) /\ gpc' \in [Request -> GuestPCs]
  BY <1>1 DEF GuestTypes
<1>3. \A q \in mix.client : sandbox[q] = Vm /\ (pc'[q] # "new" => gpc'[q] \in {"wait", "cancel", "done"})
  BY <1>1, <1>2 DEF GuestInv
<1>4. ASSUME NEW q \in Request
      PROVE  /\ gpc'[q] \in {"source", "take", "copy"} => op[q] = "copy"
             /\ gpc'[q] = "clear" => op[q] = "clear"
             /\ gpc'[q] # "none" => q \in mix.client
             /\ gpc'[q] # "none" /\ op[q] = "copy" => number'[q] \in Id
             /\ gpc'[q] = "none" => number'[q] = NoNumber
  <2>1. CASE q = r
    BY <1>2, <2>1
  <2>2. CASE q # r
    BY <1>1, <1>2, <2>2 DEF GuestInv
  <2> QED BY <2>1, <2>2
<1> QED BY <1>2, <1>3, <1>4 DEF GuestInv

\* The client's messages and its threads' steps around the change of the text.
LEMMA QuietKeeps ==
  ASSUME ClipInv, UNCHANGED <<vars, text, mix>>, NEW r \in mix.client, NEW to \in GuestPCs \ {"none"},
         gpc' = [gpc EXCEPT ![r] = to],
         to = gpc[r] \/ (to \notin {"ask", "wait"} /\ gpc[r] # "ask"),
         to \in {"source", "take", "copy"} => op[r] = "copy",
         to = "clear" => op[r] = "clear",
         pc[r] # "new" => to \in {"wait", "cancel", "done"},
         op[r] = "copy" => number'[r] \in Id,
         \A q \in Request : q # r => number'[q] = number[q],
         dead' \in BOOLEAN, mine' \in [Id -> Request \cup {Nothing}],
         number' \in [Request -> Id \cup {NoNumber}],
         told' \subseteq Request, reused' \subseteq Request, SourceInv'
  PROVE  ClipInv'
<1>1. /\ GuestTypes /\ mix.client \subseteq Request
      /\ UNCHANGED <<sandbox, op, pc, proc, sel, disturbed>>
  BY MixParts DEF ClipInv, GuestTypes, vars
<1>2. GuestInv' /\ gpc'[r] = to /\ gpc' \in [Request -> GuestPCs]
  BY <1>1, GuestGoes
<1>3. \A q \in Request : q # r => gpc'[q] = gpc[q]
  BY <1>1 DEF GuestTypes
<1>4. GuestTypes'
  BY <1>1, <1>2 DEF GuestTypes
<1>5. TextInv'
  <2>1. \A q \in mix.client : Pending(q) => Pending(q)'
    BY <1>1, <1>2, <1>3 DEF Pending, Ahead
  <2>2. \A q \in mix.client : q \in Changing' => q \in Changing
    BY <1>1, <1>2, <1>3 DEF Changing
  <2> QED BY <1>1, <2>1, <2>2, TextKeeps
<1>6. BrokerInv'
  BY BrokerUntouched
<1> QED BY <1>2, <1>4, <1>5, <1>6 DEF ClipInv

LEMMA CreateKeeps == ASSUME ClipInv, NEW r \in mix.client, CreateSource(r) PROVE ClipInv'
<1>1. /\ GuestTypes /\ GuestInv /\ NumberInv /\ CancelledTaken /\ r \in Request
      /\ op[r] = "copy" /\ gpc[r] = "none" /\ gpc' = [gpc EXCEPT ![r] = "source"]
      /\ UNCHANGED <<vars, mix, dead, text, told>>
  BY MixParts DEF ClipInv, SourceInv, CreateSource, GoGuest, GuestTypes
<1>2. PICK i \in Id :
        /\ mine[i] = Nothing /\ mine' = [mine EXCEPT ![i] = r] /\ number' = [number EXCEPT ![r] = i]
        /\ reused' = IF \E q \in Request : number[q] = i /\ gpc[q] # "done"
                     THEN reused \cup {r} ELSE reused
  BY DEF CreateSource
<1>3. /\ mine' \in [Id -> Request \cup {Nothing}] /\ mine'[i] = r
      /\ \A j \in Id : j # i => mine'[j] = mine[j]
  BY <1>1, <1>2 DEF GuestTypes
<1>4. /\ number' \in [Request -> Id \cup {NoNumber}] /\ number'[r] = i
      /\ \A q \in Request : q # r => number'[q] = number[q]
  BY <1>1, <1>2 DEF GuestTypes
<1>5. /\ reused' \subseteq Request /\ reused \subseteq reused'
      /\ (\E q \in Request : number[q] = i /\ gpc[q] # "done") => r \in reused'
  BY <1>1, <1>2 DEF GuestTypes
<1>6. gpc'[r] = "source" /\ \A q \in Request : q # r => gpc'[q] = gpc[q]
  BY <1>1 DEF GuestTypes
<1>7. \A j \in Id : mine[j] # r
  BY <1>1, ClipboardAssumption, ClipGuestAssumption DEF GuestInv, NumberInv, NoNumber
<1>8. NumberInv'
  <2>1. \A j \in Id : mine'[j] # Nothing => number'[mine'[j]] = j
    <3> SUFFICES ASSUME NEW j \in Id, mine'[j] # Nothing PROVE number'[mine'[j]] = j
      OBVIOUS
    <3>1. CASE j = i
      BY <1>3, <1>4, <3>1
    <3>2. CASE j # i
      <4>1. mine'[j] = mine[j] /\ mine[j] \in Request /\ mine[j] # r
        BY <1>1, <1>3, <1>7, <3>2 DEF GuestTypes
      <4> QED BY <1>1, <1>4, <4>1 DEF NumberInv
    <3> QED BY <3>1, <3>2
  <2>2. ASSUME NEW p \in Request, NEW q \in Request, p # q, number'[p] \in Id,
               number'[q] = number'[p], mine'[number'[p]] = p, gpc'[q] # "done"
        PROVE  p \in reused'
    <3>1. CASE p = r
      BY <1>4, <1>5, <1>6, <2>2, <3>1
    <3>2. CASE p # r
      <4>1. number[p] \in Id /\ number[p] # i /\ mine[number[p]] = p
        BY <1>3, <1>4, <2>2, <3>2
      <4>2. q # r
        BY <1>4, <2>2, <3>2, <4>1
      <4> QED BY <1>1, <1>4, <1>5, <1>6, <2>2, <3>2, <4>1, <4>2 DEF NumberInv
    <3> QED BY <3>1, <3>2
  <2> QED BY <2>1, <2>2 DEF NumberInv
<1>9. CancelledTaken'
  BY <1>1, <1>5, <1>6 DEF CancelledTaken, GuestTypes
<1>10. pc[r] = "new"
  BY <1>1 DEF GuestInv
<1> QED BY <1>1, <1>3, <1>4, <1>5, <1>8, <1>9, <1>10, QuietKeeps
        DEF SourceInv, GuestTypes, GuestPCs

LEMMA SetSelectionKeeps == ASSUME ClipInv, NEW r \in mix.client, SetSelection(r) PROVE ClipInv'
<1>1. /\ GuestTypes /\ GuestInv /\ r \in Request
      /\ gpc[r] = "source" /\ pc[r] = "new" /\ op[r] = "copy" /\ number[r] \in Id
  BY MixParts DEF ClipInv, GuestTypes, GuestInv, SetSelection, GoGuest
<1>2. UNCHANGED <<vars, mix, dead, mine, number, reused, text>>
  BY DEF SetSelection
<1>3. PICK to \in {"take", "done"} :
        /\ gpc' = [gpc EXCEPT ![r] = to]
        /\ told' \in {told, told \cup {r}} /\ (told' # told => to = "done")
  BY DEF SetSelection, GoGuest
<1>4. gpc'[r] = to /\ \A q \in Request : q # r => gpc'[q] = gpc[q]
  BY <1>1, <1>3 DEF GuestTypes
<1>5. told' \subseteq Request
  BY <1>1, <1>3 DEF GuestTypes
<1>6. \A i \in Id : mine'[i] \in {mine[i], Nothing}
  BY <1>2
<1>7. \A q \in Request : gpc[q] = "done" => gpc'[q] = "done"
  BY <1>1, <1>4
<1>8. \A q \in told' \ reused' : q \in told \/ gpc'[q] = "done"
  BY <1>3, <1>4
<1>9. SourceInv'
  BY <1>2, <1>5, <1>6, <1>7, <1>8, SourcesKeep
<1> QED BY <1>1, <1>2, <1>3, <1>5, <1>9, QuietKeeps DEF GuestTypes, GuestPCs

LEMMA DestroyKeeps == ASSUME ClipInv, NEW r \in mix.client, DestroySource(r) PROVE ClipInv'
<1>1. /\ GuestTypes /\ GuestInv /\ r \in Request /\ number[r] \in Id
  BY MixParts DEF ClipInv, GuestTypes, DestroySource
<1>2. /\ UNCHANGED <<vars, mix, dead, number, told, reused, text>>
      /\ mine' = [mine EXCEPT ![number[r]] = Nothing]
  BY DEF DestroySource
<1>3. PICK to : /\ to = IF gpc[r] = "source" THEN "done" ELSE gpc[r]
                /\ gpc' = [gpc EXCEPT ![r] = to]
  BY DEF DestroySource
<1>4. gpc[r] # "none"
  BY <1>1, ClipGuestAssumption DEF GuestInv, NoNumber
<1>5. to \in GuestPCs \ {"none"}
  BY <1>1, <1>3, <1>4 DEF GuestTypes, GuestPCs
<1>6. gpc'[r] = to /\ \A q \in Request : q # r => gpc'[q] = gpc[q]
  BY <1>1, <1>3 DEF GuestTypes
<1>7. mine' \in [Id -> Request \cup {Nothing}] /\ \A i \in Id : mine'[i] \in {mine[i], Nothing}
  BY <1>1, <1>2 DEF GuestTypes
<1>8. \A q \in Request : gpc[q] = "done" => gpc'[q] = "done"
  BY <1>3, <1>6
<1>9. SourceInv'
  BY <1>1, <1>2, <1>7, <1>8, SourcesKeep DEF GuestTypes
<1>10. /\ to \in {"source", "take", "copy"} => op[r] = "copy"
       /\ to = "clear" => op[r] = "clear"
       /\ pc[r] # "new" => to \in {"wait", "cancel", "done"}
       /\ to = gpc[r] \/ (to \notin {"ask", "wait"} /\ gpc[r] # "ask")
  BY <1>1, <1>3 DEF GuestInv
<1> QED BY <1>1, <1>2, <1>3, <1>5, <1>7, <1>9, <1>10, QuietKeeps DEF GuestTypes

LEMMA CancelKeeps == ASSUME ClipInv, NEW r \in mix.client, Cancel(r) PROVE ClipInv'
<1>1. /\ GuestTypes /\ GuestInv /\ NumberInv /\ r \in Request /\ gpc[r] = "cancel"
      /\ op[r] = "copy" => number[r] \in Id
  BY MixParts DEF ClipInv, SourceInv, GuestTypes, GuestInv, Cancel, GoGuest
<1>2. /\ UNCHANGED <<vars, mix, dead, mine, number, reused, text>>
      /\ gpc' = [gpc EXCEPT ![r] = "done"]
      /\ told' = told \/ /\ op[r] = "copy" /\ mine[number[r]] # Nothing
                         /\ told' = told \cup {mine[number[r]]}
  BY DEF Cancel, GoGuest
<1>3. gpc'[r] = "done" /\ \A q \in Request : q # r => gpc'[q] = gpc[q]
  BY <1>1, <1>2 DEF GuestTypes
<1>4. told' \subseteq Request /\ \A q \in told' \ reused' : q \in told \/ gpc'[q] = "done"
  <2>1. CASE told' = told
    BY <1>1, <2>1 DEF GuestTypes
  <2>2. CASE told' # told
    <3>1. PICK q \in Request : /\ q = mine[number[r]] /\ number[q] = number[r] /\ number[r] \in Id
                               /\ told' = told \cup {q}
      BY <1>1, <1>2, <2>2 DEF GuestTypes, NumberInv
    <3>2. q = r \/ q \in reused
      BY <1>1, <3>1 DEF NumberInv
    <3> QED BY <1>1, <1>2, <1>3, <3>1, <3>2 DEF GuestTypes
  <2> QED BY <2>1, <2>2
<1>5. \A q \in Request : gpc[q] = "done" => gpc'[q] = "done"
  BY <1>3
<1>6. SourceInv'
  BY <1>2, <1>4, <1>5, SourcesKeep
<1> QED BY <1>1, <1>2, <1>4, <1>6, QuietKeeps DEF GuestTypes, GuestPCs

\* Steps that tell the client nothing, and leave its sources and the text.
LEMMA ThreadKeeps ==
  ASSUME ClipInv, NEW r \in mix.client, ClearSelection(r) \/ Take(r) \/ Answered(r)
  PROVE  ClipInv'
<1>1. /\ GuestTypes /\ GuestInv /\ r \in Request /\ op[r] \in {"copy", "clear"}
  BY MixParts DEF ClipInv, GuestTypes, BrokerInv, TypeOK
<1>2. UNCHANGED <<vars, mix, dead, mine, number, told, reused, text>>
  BY DEF ClearSelection, Take, Answered, client
<1>3. PICK to \in GuestPCs :
        /\ gpc' = [gpc EXCEPT ![r] = to]
        /\ \/ gpc[r] = "none" /\ to = "clear" /\ op[r] = "clear"
           \/ gpc[r] = "take" /\ to \in {"copy", "cancel"}
           \/ gpc[r] = "wait" /\ to \in {"cancel", "done"}
  BY DEF ClearSelection, Take, Answered, GoGuest, GuestPCs
<1>4. \A q \in Request : gpc[q] = "done" => gpc'[q] = "done"
  BY <1>1, <1>3 DEF GuestTypes
<1>5. SourceInv'
  BY <1>1, <1>2, <1>4, SourcesKeep DEF GuestTypes
<1>6. /\ to \in {"source", "take", "copy"} => op[r] = "copy"
      /\ pc[r] # "new" => to \in {"wait", "cancel", "done"}
      /\ op[r] = "copy" => number[r] \in Id
  BY <1>1, <1>3 DEF GuestInv
<1>7. to \notin {"ask", "wait", "none"} /\ gpc[r] # "ask" /\ (to = "clear" => op[r] = "clear")
  BY <1>3
<1> QED BY <1>1, <1>2, <1>3, <1>5, <1>6, <1>7, QuietKeeps DEF GuestTypes

\* The broker's and the user's steps, and the client's end.
LEMMA GuestLeft ==
  ASSUME ClipInv, UNCHANGED <<sandbox, op, mix, mine, number, told, reused, gpc, text>>,
         dead' \in BOOLEAN, \A q \in mix.client : pc[q] = "new" => pc'[q] = "new"
  PROVE  GuestTypes' /\ GuestInv' /\ SourceInv'
<1>1. GuestTypes /\ GuestInv /\ mix.client \subseteq Request
  BY MixParts DEF ClipInv, GuestTypes
<1>2. GuestTypes'
  BY <1>1 DEF GuestTypes
<1>3. GuestInv'
  BY <1>1 DEF GuestInv
<1>4. SourceInv'
  BY <1>1, SourcesKeep DEF ClipInv, SourceInv, GuestTypes, CancelledTaken
<1> QED BY <1>2, <1>3, <1>4

LEMMA GoneKeeps == ASSUME ClipInv, ClientGone PROVE ClipInv'
<1>1. UNCHANGED <<vars, mix, mine, number, told, reused, gpc, text>> /\ dead' = TRUE
  BY DEF ClientGone
<1>2. UNCHANGED <<sandbox, op, pc, proc, sel, disturbed>>
  BY <1>1 DEF vars
<1>3. GuestTypes' /\ GuestInv' /\ SourceInv'
  BY <1>1, <1>2, GuestLeft
<1>4. TextInv'
  BY <1>1, <1>2, TextKeeps DEF Changing, Pending, Ahead
<1> QED BY <1>1, <1>3, <1>4, BrokerUntouched DEF ClipInv

\* copy and clear: the VM's text is the request's.
LEMMA ChangeKeeps ==
  ASSUME ClipInv, NEW r \in mix.client, Copy(r) \/ ClearText(r)
  PROVE  ClipInv'
<1> USE DEF inputs, client
<1>1. /\ GuestTypes /\ GuestInv /\ TypeOK /\ mix.client \subseteq Request /\ r \in Request
      /\ sandbox[r] = Vm /\ Vm \in Sandbox /\ (op[r] = "copy" => number[r] \in Id)
  BY MixParts, ClipGuestAssumption
     DEF ClipInv, BrokerInv, GuestTypes, GuestInv, Copy, ClearText, GoGuest
<1>2. /\ UNCHANGED <<sandbox, op, pc, old, reply, clips, proc, sel, before, mix, dead, mine, number,
                     told, reused>>
      /\ gpc' = [gpc EXCEPT ![r] = "ask"]
      /\ disturbed' = IF Changing = {} THEN disturbed ELSE disturbed \cup {Vm}
  BY <1>1 DEF Copy, ClearText, GoGuest, Disturbed
<1>3. pc[r] = "new" /\ gpc[r] # "done" /\ text' = IF op[r] = "copy" THEN r ELSE Nothing
  BY <1>1 DEF Copy, ClearText, GoGuest, GuestInv
<1>4. GuestInv' /\ gpc'[r] = "ask" /\ gpc' \in [Request -> GuestPCs]
  BY <1>1, <1>2, <1>3, GuestGoes DEF GuestPCs
<1>5. \A q \in Request : q # r => gpc'[q] = gpc[q]
  BY <1>1, <1>2 DEF GuestTypes
<1>6. GuestTypes'
  BY <1>1, <1>2, <1>3, <1>4 DEF GuestTypes
<1>7. SourceInv'
  BY <1>1, <1>2, <1>3, <1>5, SourcesKeep DEF GuestTypes, ClipInv, SourceInv, CancelledTaken
<1>8. BrokerInv'
  BY <1>1, <1>2, DisturbKeeps DEF ClipInv, TypeOK
<1>9. ChangeInv'
  <2> SUFFICES ASSUME Vm \notin disturbed' PROVE ChangeInv'
    BY DEF ChangeInv
  <2>1. Changing = {}
    BY <1>2
  <2>2. Changing' \subseteq {r}
    BY <1>2, <1>1, <1>5, <2>1 DEF Changing
  <2> QED BY <1>2, <1>3, <2>2 DEF ChangeInv
<1>10. OnClipboardInv'
  BY <1>2, <1>4 DEF OnClipboardInv, Pending
<1> QED BY <1>4, <1>6, <1>7, <1>8, <1>9, <1>10 DEF ClipInv, TextInv

\* ask: the request gets to the broker, or it doesn't.
LEMMA AskKeeps == ASSUME ClipInv, NEW r \in mix.client, Ask(r) PROVE ClipInv'
<1> USE DEF client
<1>1. /\ GuestTypes /\ GuestInv /\ TypeOK /\ mix.client \subseteq Request /\ r \in Request
      /\ gpc[r] = "ask" /\ gpc' = [gpc EXCEPT ![r] = "wait"] /\ Pop(r)
      /\ UNCHANGED <<mix, dead, mine, number, told, reused, text>>
      /\ op[r] = "copy" => number[r] \in Id
  BY MixParts DEF ClipInv, BrokerInv, GuestTypes, GuestInv, Ask, GoGuest
<1>2. /\ UNCHANGED <<sandbox, op, proc, sel>> /\ pc'[r] \in {"spawn", "poll"}
      /\ \A q \in Request : q # r => pc'[q] = pc[q]
      /\ disturbed \subseteq disturbed'
  BY <1>1, Moves DEF Pop, inputs, Disturbed
<1>3. GuestInv' /\ gpc'[r] = "wait" /\ gpc' \in [Request -> GuestPCs]
  BY <1>1, <1>2, GuestGoes DEF GuestPCs
<1>4. \A q \in Request : q # r => gpc'[q] = gpc[q]
  BY <1>1 DEF GuestTypes
<1>5. GuestTypes'
  BY <1>1, <1>3 DEF GuestTypes
<1>6. SourceInv'
  BY <1>1, <1>4, SourcesKeep DEF GuestTypes, ClipInv, SourceInv, CancelledTaken
<1>7. TextInv'
  <2>1. \A q \in mix.client : q \in Changing' => q \in Changing
    BY <1>1, <1>2, <1>4 DEF Changing
  <2>2. \A q \in mix.client : Pending(q) => Pending(q)'
    BY <1>1, <1>2, <1>4 DEF Pending, Ahead
  <2> QED BY <1>1, <1>2, <2>1, <2>2, TextKeeps
<1> QED BY <1>1, <1>3, <1>5, <1>6, <1>7, PopKeeps DEF ClipInv

LEMMA AskFailsKeeps == ASSUME ClipInv, NEW r \in mix.client, AskFails(r) PROVE ClipInv'
<1> USE DEF client, inputs
<1>1. /\ GuestTypes /\ GuestInv /\ TypeOK /\ mix.client \subseteq Request /\ r \in Request
      /\ gpc[r] = "ask" /\ gpc' = [gpc EXCEPT ![r] = "cancel"]
      /\ UNCHANGED <<sandbox, op, pc, old, reply, clips, proc, sel, before, mix, dead, mine, number,
                     told, reused, text>>
      /\ disturbed' = disturbed \cup {Vm} /\ Vm \in Sandbox
      /\ op[r] = "copy" => number[r] \in Id
  BY MixParts, ClipGuestAssumption
     DEF ClipInv, BrokerInv, GuestTypes, GuestInv, AskFails, GoGuest, Disturbed
<1>2. GuestInv' /\ gpc' \in [Request -> GuestPCs]
  BY <1>1, GuestGoes DEF GuestPCs
<1>3. GuestTypes'
  BY <1>1, <1>2 DEF GuestTypes
<1>4. SourceInv'
  BY <1>1, SourcesKeep DEF GuestTypes, ClipInv, SourceInv, CancelledTaken
<1>5. TextInv'
  BY <1>1 DEF TextInv, ChangeInv, OnClipboardInv
<1>6. BrokerInv'
  BY <1>1, DisturbKeeps DEF ClipInv, TypeOK
<1> QED BY <1>2, <1>3, <1>4, <1>5, <1>6 DEF ClipInv

\* Requests of other programs, and the broker's threads.
LEMMA OtherKeeps == ASSUME ClipInv, NEW r \in Request, PopOther(r) PROVE ClipInv'
<1>1. /\ r \notin mix.client /\ TypeOK /\ mix.client \subseteq Request /\ Pop(r) /\ UNCHANGED guest
  BY MixParts DEF ClipInv, BrokerInv, GuestTypes, PopOther
<1>2. /\ UNCHANGED <<sandbox, op, proc, sel>> /\ disturbed \subseteq disturbed'
      /\ \A q \in mix.client : pc'[q] = pc[q]
      /\ UNCHANGED <<mix, dead, mine, number, told, reused, gpc, text>>
  BY <1>1, Moves DEF Pop, inputs, Disturbed, guest, client
<1>3. GuestTypes' /\ GuestInv' /\ SourceInv'
  BY <1>2, GuestLeft DEF ClipInv, GuestTypes
<1>4. TextInv'
  BY <1>1, <1>2, TextKeeps DEF Changing, Pending, Ahead
<1> QED BY <1>1, <1>3, <1>4, PopKeeps DEF ClipInv

\* A thread of the broker changes the selection last of all, unless it is
\* another's clear, or a fault, and that disturbs the sandbox.
LEMMA BrokerThreadKeeps == ASSUME ClipInv, NEW r \in Request, BrokerThread(r) PROVE ClipInv'
<1> USE DEF inputs, history
<1>1. /\ TypeOK /\ BrokerInv /\ GuestTypes /\ mix.client \subseteq Request
      /\ UNCHANGED <<mix, dead, mine, number, told, reused, gpc, text>>
      /\ \A q \in mix.client : sandbox[q] = Vm
  BY MixParts DEF ClipInv, BrokerInv, GuestTypes, GuestInv, BrokerThread, guest, client
<1>2. /\ UNCHANGED <<sandbox, op>> /\ disturbed \subseteq disturbed' /\ Busy(r)
      /\ \A q \in Request : q # r => pc'[q] = pc[q]
      /\ r \in mix.client => sandbox[r] = Vm
  BY <1>1, Moves DEF BrokerThread, Spawn, Wait, Store, Poll, Clear, Disturbed, Busy
<1>3. BrokerInv'
  BY <1>1, SpawnKeeps, WaitKeeps, StoreKeeps, PollKeeps, ClearKeeps DEF BrokerThread
<1>4. GuestTypes' /\ GuestInv' /\ SourceInv'
  BY <1>1, <1>2, GuestLeft DEF GuestTypes, Busy
<1>5. \A q \in mix.client : q \in Changing' => q \in Changing
  BY <1>1, <1>2 DEF Changing, Busy
<1>6. TextInv'
  <2> SUFFICES ASSUME Vm \notin disturbed', sel' \in mix.client
               PROVE  sel' = sel /\ \A q \in mix.client : Pending(q) => Pending(q)'
    BY <1>1, <1>2, <1>5, TextKeeps
  <2>1. CASE Spawn(r)
    <3>1. UNCHANGED sel /\ \A q \in Request : q # r => proc'[q] = proc[q]
      BY <1>1, <2>1 DEF Spawn, TypeOK
    <3>2. r \in mix.client => pc'[r] = "wait" /\ proc'[r] = "starting"
      BY <1>1, <1>2, <2>1, Moves DEF Spawn, Disturbed, TypeOK
    <3> QED BY <1>1, <1>2, <3>1, <3>2 DEF Pending, Ahead
  <2>2. CASE Wait(r)
    <3>1. UNCHANGED <<sel, proc>> /\ (r \in mix.client => ~Ahead(r))
      BY <1>1, <1>2, <2>2, Moves DEF Wait, Disturbed, Ahead, Goto
    <3> QED BY <1>1, <1>2, <3>1 DEF Pending, Ahead
  <2>3. CASE Store(r)
    <3>1. UNCHANGED <<sel, proc>> /\ ~Ahead(r)
      BY <2>3 DEF Store, Ahead, Goto
    <3> QED BY <1>1, <1>2, <3>1 DEF Pending, Ahead
  <2>4. CASE Poll(r)
    <3>1. UNCHANGED <<sel, proc, disturbed>> /\ pc[r] = "poll"
      BY <2>4 DEF Poll
    <3>2. r \in mix.client => old[r] = sel /\ proc[sel] = "owner" /\ sel # Nothing
      BY <1>1, <1>2, <3>1, Alone, ClipboardAssumption DEF BrokerInv, ThreadInv
    <3>3. r \in mix.client => pc'[r] = "clear"
      BY <1>1, <2>4, <3>2, Moves DEF Poll, Running
    <3> QED BY <1>1, <1>2, <3>1, <3>3 DEF Pending, Ahead
  <2>5. CASE Clear(r)
    <3>1. /\ UNCHANGED <<sel, proc>> /\ disturbed' = Disturbed(r)
      BY <1>1, <2>5, ClipboardAssumption DEF Clear
    <3>2. r \notin mix.client
      BY <1>1, <3>1 DEF Disturbed
    <3> QED BY <1>1, <1>2, <3>1, <3>2 DEF Pending, Ahead
  <2> QED BY <2>1, <2>2, <2>3, <2>4, <2>5 DEF BrokerThread
<1> QED BY <1>3, <1>4, <1>6 DEF ClipInv

\* wl-copy takes the selection, fails, or loses it to the user.
LEMMA OutsideKeeps ==
  ASSUME ClipInv, \/ UserStep
                  \/ \E w \in Request : Outside(w)
  PROVE  ClipInv'
<1> USE DEF inputs, history
<1>1. /\ TypeOK /\ BrokerInv /\ GuestTypes /\ ChangeInv /\ mix.client \subseteq Request
      /\ UNCHANGED <<mix, dead, mine, number, told, reused, gpc, text>>
      /\ \A q \in mix.client : sandbox[q] = Vm
  BY MixParts DEF ClipInv, TextInv, BrokerInv, GuestTypes, GuestInv, UserStep, Outside, guest, client
<1>2. UNCHANGED <<sandbox, op, pc>> /\ disturbed \subseteq disturbed'
  BY DEF UserStep, Outside, UserCopies, WlCopyClaims, WlCopyFails, Disturbed
<1>3. BrokerInv'
  BY <1>1, ClaimsKeeps, FailsKeeps, UserKeeps DEF UserStep, Outside
<1>4. GuestTypes' /\ GuestInv' /\ SourceInv'
  BY <1>1, <1>2, GuestLeft DEF GuestTypes
<1>5. TextInv'
  <2> SUFFICES ASSUME Vm \notin disturbed', sel' \in mix.client
               PROVE  \/ text = sel'
                      \/ sel' = sel /\ \A q \in mix.client : Pending(q) => Pending(q)'
    BY <1>1, <1>2, TextKeeps DEF Changing
  <2>1. CASE UserStep
    BY <1>1, <2>1, ClipboardAssumption DEF UserStep, UserCopies
  <2>2. ASSUME NEW w \in Request, WlCopyClaims(w) PROVE text = sel'
    <3>1. sel' = w /\ pc[w] = "wait" /\ op[w] = "copy"
      BY <1>1, <2>2 DEF WlCopyClaims, BrokerInv, ThreadInv
    <3> QED BY <1>1, <1>2, <3>1 DEF ChangeInv, Changing
  <2>3. ASSUME NEW w \in Request, WlCopyFails(w)
        PROVE  sel' = sel /\ \A q \in mix.client : Pending(q) => Pending(q)'
    <3>1. sel' = sel /\ w \notin mix.client /\ \A q \in Request : q # w => proc'[q] = proc[q]
      BY <1>1, <2>3 DEF WlCopyFails, Disturbed, TypeOK
    <3> QED BY <1>1, <1>2, <3>1 DEF Pending, Ahead
  <2> QED BY <2>1, <2>2, <2>3 DEF Outside
<1> QED BY <1>3, <1>4, <1>5 DEF ClipInv

LEMMA ClipStep == ClipInv /\ [CNext]_cvars => ClipInv'
<1> SUFFICES ASSUME ClipInv, [CNext]_cvars PROVE ClipInv'
  OBVIOUS
<1>1. CASE UNCHANGED cvars
  <2>1. UNCHANGED <<vars, mix, dead, mine, number, told, reused, gpc, text>>
    BY <1>1 DEF cvars, guest, client
  <2>2. UNCHANGED <<sandbox, op, pc, proc, sel, disturbed>>
    BY <2>1 DEF vars
  <2>3. GuestTypes' /\ GuestInv' /\ SourceInv'
    BY <2>1, <2>2, GuestLeft DEF ClipInv, GuestTypes
  <2>4. TextInv'
    BY <2>1, <2>2, TextKeeps DEF Changing, Pending, Ahead
  <2> QED BY <2>1, <2>3, <2>4, BrokerUntouched DEF ClipInv
<1>2. ASSUME NEW r \in mix.client, ClientStep(r) \/ GuestThread(r) PROVE ClipInv'
  BY <1>2, CreateKeeps, SetSelectionKeeps, DestroyKeeps, ThreadKeeps, ChangeKeeps, AskKeeps,
     AskFailsKeeps, CancelKeeps DEF ClientStep, GuestThread
<1> QED BY <1>1, <1>2, GoneKeeps, OtherKeeps, BrokerThreadKeeps, OutsideKeeps DEF CNext

-----------------------------------------------------------------------------
(* What follows                                                            *)

\* The types of the guest's and the broker's state; a wl-copy is in one place
\* at most; and the broker has a client's request only while the guest's
\* thread waits for its answer, or gave up.
THEOREM ClipTypeCorrect == CSpec => []ClipTypeOK
<1>1. ClipInv => ClipTypeOK
  BY OneHand DEF ClipInv, BrokerInv, GuestTypes, GuestInv, ClipTypeOK
<1> QED BY <1>1, GuestStart, ClipStep, PTL DEF CSpec

\* Once none of a sandbox's requests is under way, the broker has the wl-copy
\* whose text of it is on the user's clipboard, to clear it when asked, and
\* what a VM's program copied there is what the VM's programs see: unless there
\* was a fault, or requests at once.
THEOREM TextKnownAlways == CSpec => []TextKnown
<1>1. ASSUME ClipInv PROVE TextKnown
  <2> SUFFICES ASSUME NEW p \in Request, sel = p, Served(sandbox[p]) = {},
                      sandbox[p] \notin disturbed, sandbox[p] = Vm => Changing = {}
               PROVE  /\ clips[sandbox[p]] = p
                      /\ p \in mix.client => text = p
    BY DEF TextKnown
  <2>1. \A r \in Request : sandbox[r] = sandbox[p] => ~Busy(r)
    BY DEF Served, Busy
  <2>2. clips[sandbox[p]] = p
    BY <1>1, <2>1 DEF ClipInv, BrokerInv, SelInv, Busy, Ahead
  <2>3. ASSUME p \in mix.client PROVE text = p
    <3>1. sandbox[p] = Vm /\ Changing = {} /\ mix.client \subseteq Request
      BY <1>1, <2>3, MixParts DEF ClipInv, GuestInv, GuestTypes
    <3>2. \A r \in mix.client : ~Pending(r)
      BY <3>1 DEF Pending, Ahead, Changing
    <3> QED BY <1>1, <2>3, <3>1, <3>2 DEF ClipInv, TextInv, OnClipboardInv
  <2> QED BY <2>2, <2>3
<1> QED BY <1>1, GuestStart, ClipStep, PTL DEF CSpec

\* A client is told that a source is cancelled only when that source's own copy
\* is over, unless it gave the source a number that the thread of an earlier one
\* was still going to cancel.
THEOREM CancelledTakenAlways == CSpec => []CancelledTaken
<1>1. ClipInv => CancelledTaken
  BY DEF ClipInv, SourceInv
<1> QED BY <1>1, GuestStart, ClipStep, PTL DEF CSpec

\* With a VM's guest in front of it too, a clear is granted only once the text
\* the sandbox had on the clipboard is gone: the guest's steps are op_clipboard's,
\* or none of them.
THEOREM ClearClearsInVm == CSpec => ClearClearsUndisturbed
<1>1. ASSUME ClipInv, ClipInv', [CNext]_cvars
      PROVE  [\A r \in Request : sandbox[r] \notin disturbed' => Cleared(r)]_vars
  <2>1. CASE reply' = reply
    BY <2>1 DEF Cleared
  <2>2. CASE reply' # reply
    <3>1. ASSUME NEW r \in mix.client, ClientStep(r) \/ GuestThread(r) PROVE Ask(r)
      BY <2>2, <3>1
         DEF ClientStep, GuestThread, CreateSource, SetSelection, ClearSelection, DestroySource, Take,
             Copy, ClearText, AskFails, Answered, Cancel, vars
    <3>2. mix.client \subseteq Request /\ mix.other \subseteq Request
      BY <1>1, MixParts DEF ClipInv, GuestTypes
    <3>3. \E r \in Request : ThreadStep(r)
      <4>1. CASE \E r \in mix.client : Ask(r)
        BY <3>2, <4>1 DEF Ask, ThreadStep
      <4>2. CASE \E r \in Request : PopOther(r) \/ BrokerThread(r)
        BY <4>2 DEF PopOther, BrokerThread, ThreadStep
      <4>3. ~ClientGone /\ ~UserStep /\ ~UNCHANGED cvars /\ \A r \in Request : ~Outside(r)
        BY <2>2 DEF ClientGone, UserStep, UserCopies, Outside, WlCopyClaims, WlCopyFails, cvars, vars
      <4> QED BY <1>1, <3>1, <4>1, <4>2, <4>3 DEF CNext
    <3>4. Next
      BY <3>3 DEF Next
    <3> QED BY <1>1, <3>4, ClearedStep DEF ClipInv
  <2> QED BY <2>1, <2>2
<1> QED BY <1>1, GuestStart, ClipStep, PTL DEF CSpec, ClearClearsUndisturbed
=============================================================================
