----------------------------- MODULE ClipGuest -----------------------------
(***************************************************************************)
(* sbx-clip-guest (lib/vm/clip-guest.py) in one VM, with one client of it, *)
(* and the broker it asks (BrokerClipboard).                               *)
(*                                                                         *)
(* The thread that serves the client keeps its data-control sources; each  *)
(* selection it sets has a thread that reads the source's text and one     *)
(* that clears it has a thread too.  These set what the VM copied last     *)
(* (Shared.text), under a lock, and ask the broker, without it; the        *)
(* reading one then cancels the source, by the number it had.              *)
(*                                                                         *)
(* A selection set or cleared, its text, its thread and its connection to  *)
(* the broker are one Request.  The messages' framing and everything that  *)
(* passes through to the display proxy are left out.                       *)
(***************************************************************************)
EXTENDS BrokerClipboard

CONSTANTS
  Vm,           \* the VM's sandbox
  Id,           \* the object numbers a client uses for its sources
  Mix           \* bound: which requests the client and other programs make

ASSUME ClipGuestAssumption ==
  /\ Vm \in Sandbox /\ Nothing \notin Id
  /\ Mix \subseteq [client : SUBSET Request, other : SUBSET Request]
  /\ \A m \in Mix : m.client \cap m.other = {}

VARIABLES
  mix,          \* who makes which request: never changes
  dead,         \* the client is gone                          (Client.dead)
  mine,         \* the source each number stands for           (Client.mine)
  number,       \* the number each source was made with
  gpc,          \* where each request's thread is
  text,         \* the VM's last text, or Nothing              (Shared.text)
  told,         \* sources the client was told are cancelled
  reused        \* history: sources whose number a thread still used for another

client == <<dead, mine, number, told, reused>>
guest == <<mix, client, gpc, text>>
cvars == <<vars, guest>>

GuestPCs == {"none", "source", "take", "copy", "clear", "ask", "wait", "cancel", "done"}
NoNumber == Nothing

CInit ==
  /\ Init
  /\ mix \in Mix
  /\ \A r \in mix.client : sandbox[r] = Vm
  /\ dead = FALSE
  /\ mine = [i \in Id |-> Nothing]
  /\ number = [r \in Request |-> NoNumber]
  /\ gpc = [r \in Request |-> "none"]
  /\ text = Nothing
  /\ told = {}
  /\ reused = {}

GoGuest(r, from, to) ==
  /\ gpc[r] = from
  /\ gpc' = [gpc EXCEPT ![r] = to]

\* Threads between the change of the VM's text and the broker's answer to it.
Changing == {r \in mix.client : gpc[r] \in {"ask", "wait"} \/ pc[r] \notin {"new", "done"}}

-----------------------------------------------------------------------------
(* The client's messages                                                   *)

\* create_data_source, with a number that is free.
CreateSource(r) ==
  /\ ~dead /\ op[r] = "copy"
  /\ GoGuest(r, "none", "source")
  /\ \E i \in Id :
       /\ mine[i] = Nothing
       /\ mine' = [mine EXCEPT ![i] = r]
       /\ number' = [number EXCEPT ![r] = i]
       /\ reused' = IF \E q \in Request : number[q] = i /\ gpc[q] # "done"
                    THEN reused \cup {r} ELSE reused
  /\ UNCHANGED <<vars, mix, dead, text, told>>

\* set_selection: a thread for the source's text; a source without text is
\* cancelled at once.
SetSelection(r) ==
  /\ ~dead /\ number[r] \in Id /\ mine[number[r]] = r
  /\ \/ GoGuest(r, "source", "take") /\ UNCHANGED told
     \/ GoGuest(r, "source", "done") /\ told' = told \cup {r}
  /\ UNCHANGED <<vars, mix, dead, mine, number, reused, text>>

\* set_selection(null).
ClearSelection(r) ==
  /\ ~dead /\ op[r] = "clear"
  /\ GoGuest(r, "none", "clear")
  /\ UNCHANGED <<vars, mix, client, text>>

\* The source's number is free again.
DestroySource(r) ==
  /\ ~dead /\ number[r] \in Id /\ mine[number[r]] = r
  /\ mine' = [mine EXCEPT ![number[r]] = Nothing]
  /\ gpc' = [gpc EXCEPT ![r] = IF @ = "source" THEN "done" ELSE @]
  /\ UNCHANGED <<vars, mix, dead, number, told, reused, text>>

\* The client or the display proxy hangs up, or breaks the protocol.
ClientGone ==
  /\ ~dead
  /\ \E r \in mix.client : gpc[r] # "none"
  /\ dead' = TRUE
  /\ UNCHANGED <<vars, mix, mine, number, told, reused, gpc, text>>

ClientStep(r) ==
  CreateSource(r) \/ SetSelection(r) \/ ClearSelection(r) \/ DestroySource(r)

-----------------------------------------------------------------------------
(* take, copy and clear: the threads of the requests                       *)

\* The text was read to its end, or is too long, or isn't finished in time.
Take(r) ==
  /\ GoGuest(r, "take", "copy") \/ GoGuest(r, "take", "cancel")
  /\ UNCHANGED <<vars, mix, client, text>>

\* Mutant: the text of a thread that is overtaken is kept.
Copy_KeepsFirst(r) ==
  /\ GoGuest(r, "copy", "ask")
  /\ text' = IF text = Nothing THEN r ELSE text
  /\ disturbed' = IF Changing = {} THEN disturbed ELSE Disturbed(r)
  /\ UNCHANGED <<inputs, pc, old, reply, clips, proc, sel, before, mix, client>>

Copy(r) ==
  /\ GoGuest(r, "copy", "ask")
  /\ text' = r
  /\ disturbed' = IF Changing = {} THEN disturbed ELSE Disturbed(r)
  /\ UNCHANGED <<inputs, pc, old, reply, clips, proc, sel, before, mix, client>>

ClearText(r) ==
  /\ GoGuest(r, "clear", "ask")
  /\ text' = Nothing
  /\ disturbed' = IF Changing = {} THEN disturbed ELSE Disturbed(r)
  /\ UNCHANGED <<inputs, pc, old, reply, clips, proc, sel, before, mix, client>>

\* ask: the request comes to op_clipboard ...
Ask(r) ==
  /\ GoGuest(r, "ask", "wait")
  /\ Pop(r)
  /\ UNCHANGED <<mix, client, text>>

\* ... or the broker isn't there, or has no slot for it.
AskFails(r) ==
  /\ GoGuest(r, "ask", "cancel")
  /\ disturbed' = Disturbed(r)
  /\ UNCHANGED <<inputs, pc, old, reply, clips, proc, sel, before, mix, client, text>>

\* The broker's answer, whatever it is, or 10 seconds without one.
Answered(r) ==
  /\ GoGuest(r, "wait", IF op[r] = "copy" THEN "cancel" ELSE "done")
  /\ UNCHANGED <<vars, mix, client, text>>

\* Mutant: the source is cancelled as soon as its text is read.
Cancel_Early(r) ==
  /\ gpc[r] \in {"copy", "cancel"}
  /\ gpc' = [gpc EXCEPT ![r] = IF @ = "cancel" THEN "done" ELSE @]
  /\ told' = IF ~dead /\ op[r] = "copy" /\ mine[number[r]] # Nothing
             THEN told \cup {mine[number[r]]} ELSE told
  /\ UNCHANGED <<vars, mix, dead, mine, number, reused, text>>

\* The source is cancelled, if its number still stands for one.
Cancel(r) ==
  /\ GoGuest(r, "cancel", "done")
  /\ told' = IF ~dead /\ op[r] = "copy" /\ mine[number[r]] # Nothing
             THEN told \cup {mine[number[r]]} ELSE told
  /\ UNCHANGED <<vars, mix, dead, mine, number, reused, text>>

GuestThread(r) ==
  Take(r) \/ Copy(r) \/ ClearText(r) \/ Ask(r) \/ AskFails(r) \/ Answered(r) \/ Cancel(r)

-----------------------------------------------------------------------------
PopOther(r) == r \in mix.other /\ Pop(r) /\ UNCHANGED guest

BrokerThread(r) ==
  /\ Spawn(r) \/ Wait(r) \/ Store(r) \/ Poll(r) \/ Clear(r)
  /\ UNCHANGED guest

Outside(r) == (WlCopyClaims(r) \/ WlCopyFails(r)) /\ UNCHANGED guest

UserStep == UserCopies /\ UNCHANGED guest

CNext ==
  \/ \E r \in mix.client : ClientStep(r) \/ GuestThread(r)
  \/ ClientGone
  \/ \E r \in Request : PopOther(r) \/ BrokerThread(r) \/ Outside(r)
  \/ UserStep

CSpec == CInit /\ [][CNext]_cvars

-----------------------------------------------------------------------------
\* Types; and a wl-copy is in one place at a time.
ClipTypeOK ==
  /\ TypeOK
  /\ mix \in Mix
  /\ dead \in BOOLEAN
  /\ mine \in [Id -> Request \cup {Nothing}]
  /\ number \in [Request -> Id \cup {NoNumber}]
  /\ gpc \in [Request -> GuestPCs]
  /\ text \in Request \cup {Nothing}
  /\ told \subseteq Request
  /\ reused \subseteq Request
  /\ HandleUnique
  /\ \A r \in mix.client : pc[r] # "new" => gpc[r] \in {"wait", "cancel", "done"}

\* Once none of a sandbox's requests is under way, whatever of it is on the
\* user's clipboard is known at both ends, unless a fault or requests at once
\* came in between: to the broker as the wl-copy to clear, and to the VM's
\* programs, which ask whether their secret is still there, as the VM's text.
TextKnown ==
  \A p \in Request :
    /\ sel = p /\ Served(sandbox[p]) = {} /\ sandbox[p] \notin disturbed
    /\ sandbox[p] = Vm => Changing = {}
    => /\ clips[sandbox[p]] = p
       /\ p \in mix.client => text = p

\* A client is told that a source is cancelled, which to it means that the
\* copy is over, only when that source's own copy is, unless it gave the source
\* a number that the thread of an earlier one was still going to cancel.
CancelledTaken == \A r \in told \ reused : gpc[r] = "done"
=============================================================================
