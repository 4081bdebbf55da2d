# A TLA+ model of the sandbox services

This directory holds a verification project for the programs of this
repository that stand between sandboxes (containers and virtual machines) and
the user's session. It models them in TLA+, checks the models with TLC on small
instances, and proves the most important results with TLAPS for every size.

## The system and its parts

The repository is a NixOS configuration. Most of it is declarative; the parts
with behaviour of their own are the Python programs below.

| part | source | state it keeps | modelled in |
|---|---|---|---|
| sbx-broker: connections and decisions | `lib/broker/broker.py` 184–318, 690–744 | slots, session approvals, deny-alls, turns, queue lengths | `BrokerDecide` |
| sbx-broker: requests and operations | 321–474, 533–558, 646–689 | one request each; the running units | `BrokerOps` |
| sbx-broker: system authentication | 560–630 | who is busy, failures in a row, pauses | `BrokerAuth` |
| sbx-broker: clipboard | 476–531 | the wl-copy of each sandbox | `BrokerClipboard` |
| sbx-broker: security key relay | 1291–1358 | channels and nonces, two threads | `CtapRelay` |
| sbx-broker: audio filter | 747–1239 | streams, pending tags, recordings being decided | `PulseFilter` |
| polkit-agent | `lib/vm/polkit-agent.py` | an agent per process, the events of its requests | `PolkitAgent` |
| clip-guest | `lib/vm/clip-guest.py` | sources, the VM's text | `ClipGuest` |
| fido-guest | `lib/vm/fido-guest.py` | the uhid device, its connection | `FidoGuest` |
| grants, with attach's vm-path | `lib/vm/grants.py`, `lib/broker/attach.py` | what was granted, the agent's connection, mounts | `Grants` |
| dnsallow (sbx-netlocal, sbx-dnsallow) | `lib/dnsallow.py` | the set applied, the state file, what was opened | `DnsAllow` |
| sbx-exec | `lib/sbx-exec.py` | sessions, their streams, the count the agent exits by | `SbxExec` |
| op-broker (1Password fill broker) | `pkgs/op-broker/op_broker.py` | limits, sessions, probes, fills under way, uplinks | `OpFill`, `OpUplink`; its promise: `OpService` |
| the rest of attach, root, graft, mount-helper | `lib/` | the kernel's: mounts, namespaces | no |
| vsock-relay, ssh-agent-git, wayland-security-context, request.py, op-broker's native host and extension | `lib/`, `pkgs/op-broker/` | none, or the browser's | no |

### How the parts interact

A sandbox reaches sbx-broker through a Unix socket of its own. Every
connection is one request and gets a thread (`serve`, `handle`), within a limit
per sandbox. An operation validates its arguments, asks `decide` whether to
grant them (a rule, an earlier answer for the session, or a dialog), acts, and
answers. Two operations keep the connection for longer: the security key relay,
and the audio filter, which has sockets of its own and calls `decide` from a
thread per record request. Threads share the tables of `Broker` under one lock,
`self.lock`, which is held for single accesses and never across a dialog, a
program or a message.

In a VM the guest's agents make those requests on behalf of programs:
polkit-agent answers polkitd's BeginAuthentication with the broker's answer,
clip-guest stands in for the clipboard, fido-guest is a virtual security key.
Folders granted to a running VM go the other way: the broker's grant-path runs
the attach helper, which asks the VM's hub (grants.py), which has the helper
mount the folder in the VM's share and the agent in the VM bind it.
sbx-netlocal and sbx-dnsallow share a file and the cgroup filters of the
sandboxes. op-broker is a system of its own: browsers' connections, reached
through a bridge and uplinks if it runs in the 1Password VM.

What is hard here is what happens between two sections under a lock, or between
two processes: an answer that covers a request already in line, an
authentication that passes the gate before the last one is counted, a cancel
that overtakes the call it cancels, a helper that finishes after it was given
up, client and server messages that cross, a thread that outlives the file it
reads, a file that was written for a step that failed; and what must happen
whatever fails: the turn, the slot and the count are given back, and whoever
asked gets an answer. PROJECT.json lists these hazards at their lines.

## Modules

Every module names its state after the code's, has one action per section of
code that runs without interruption (a section under a lock, a system call, a
message), and a step's guard is the condition at that point of the code. `pc`
variables say where a thread is. Variables marked *history* record what
happened for a property to refer to; no guard reads them. Definitions marked
*Mutant* are the ways the code could plausibly be wrong that the properties are
tried against; nothing uses them. `MC*` modules give values to the constants;
`*Proofs` modules hold the theorems.

**BrokerDecide** — `take_slot`/`free_slot` in `serve`, `rule_for`, `decide` and
`ask`. A request has a sandbox and a *key*, everything `decide` can tell
requests apart by; a rule covers a set of keys, and a key belongs to at most
one deny-all group. Actions follow `decide` line by line: `Rule`,
`CheckDenied`, `CheckApproved`, `Enqueue`, `AcquireTurn`, the two checks again,
`CheckPeer`, `ShowDialog`, `Answer` or `AskFails`, `ReleaseTurn`, `Leave`,
`Close`. The user answers anything the dialog offers; the clock ticks at any
time.

**BrokerAuth** — `op_authenticate` and `run_pkcheck`: `Begin` (the clock is read
ahead of the lock), `Gate`, pkcheck's end or the deadline, `Free` (auth_busy),
`Count` (auth_fails), which are two sections under the lock.

**PolkitAgent** extends it with the agent in the VM: the watcher that starts an
agent per process and closes it, polkitd's queue of calls to each, the serving
thread that takes them off and the thread each BeginAuthentication gets. The
two meet in `cancel`, the events stored by cookie. `early` is history: told to
stop before the event was stored.

**BrokerClipboard** — `op_clipboard` with wl-copy and the Wayland selection as
its environment. A wl-copy runs for as long as it holds the selection. `Faults`
says what may go wrong with it. **ClipGuest** extends it with a client's sources
in the VM, its serving thread, the threads that take and clear selections, and
the VM's text.

**BrokerOps** — `handle`, `op_exec`, `op_grant_net`, `op_grant_path`,
`op_camera` and `op_fido`: validation, `decide` as an answer, the programs and
helpers that run, what is sent and when. **SbxExec** — a command inside a
sandbox: the client's folder check, request and pump, the agent's handling of
one request, and the command with its pipes or pty; what is queued between the
two is one sequence per direction. The folder check of the client
and the grant it may ask for first are there as ways a run ends; no property is
about them. **Programs** puts the two beside each other: they share nothing, and
one is explored with the other at rest.

**CtapRelay** — `run` and `from_key` as two threads, with the key, the host's
other users of it and the sandbox as environment. **FidoGuest** — the thread
that reads the kernel's events and the thread of each connection. **Grants** —
the hub's threads with their lock, the attach helper, which may finish after it
was given up, and the agent, which answers on the connection it has. **DnsAllow**
— the tracker's scan, file and slice as three steps, and the allower's lookup as
one step for the check and one per unit; `barred` is history: what the slice
denied when the lookup under way was checked. **VmServices** puts these four beside
each other as Programs does.

**PulseFilter** — `from_client`, `from_server` and one thread per record
request, with the sound server and the client as environment. A packet is its
command, tag, stream kind and number; `RecordKind` is `pa_record_kind` on the
fields it looks at. The client may give any command any tag: the filter refuses
only one that is in `pending`, where nothing but the creations of streams is
entered. `shared` is history: a creation took the tag of another command still
unanswered, or a command the tag of an AUTH that counts (`Shares`). The properties
about streams are of clients that never did, and `audio_tags` shows one that
did. **AudioDecide** puts PulseFilter beside BrokerDecide as Programs does: to the
filter a decision is any answer at any later time.

**OpService** states what op-broker promises: one open question per requester,
one answer, a login in it only where the user allowed this login for this page
and these fields. **OpFill** is the code's way: limits, the probe watch,
sessions, the cached list, the dialog lock. `FillService` is the refinement:

| OpService | OpFill |
|---|---|
| `asked` | `req` |
| `right[c]` | `chosen[c]` while the thread fetches the secret (`pc = "get"`) |
| `standing` | the fields of the grants in force of requesters that are alive |
| `told` | `reply` |
| `Fits` | `Entitled`: the documentation's rule, stated apart from `UrlMatches` |

**OpUplink** is op-broker across the VM boundary: the guest's workers and
counters, the host's idle uplinks, and either end stopping at any time.
**OpBroker** puts the two beside each other.

## Runs

| run | instance | what it shows |
|---|---|---|
| `decide_session` | 3 requests of 2 sandboxes, 3 keys, overlapping rules, 2 slots, a queue of 2, sessions of one tick | one dialog per sandbox; never one that an answer in force covers; a silent grant has a live answer for the same sandbox and key behind it; a deny-all holds ahead of approvals; slots are counted exactly |
| `audio_live` | 3 requests of 1 sandbox, a queue of 2; or a client's packets to the audio filter: AUTH, a recording of several kinds, a playback and other commands with 4 tags used in many ways (`MCPlan`), a limit of 1 undecided recording | every request is answered and the queue's count is exact and bounded; a recording hears what the user was asked about, and commands by index reach only own streams, for a client whose tags stay apart; the count of undecided recordings is exact; every record request is answered |
| `audio_tags` | the same filter, a client that gives all its commands one tag | **violation**: the reply to another command is taken for that to a creation, and another client's stream becomes its own |
| `polkit` | 2 requests of an agent, 1 beside another program's with deadlines, or 3 of other programs with the clock | one password dialog per sandbox; polkitd authorizes only what the user answered; a cancelled request goes; every request ends; for sandboxes that ask one at a time the pause holds and is earned |
| `auth_pause_race` | 3 authentications of 1 sandbox, 2 at once | **violation**: with two at once the pause is evaded |
| `clip` | 3 requests of 2 sandboxes, or 2 of a client in a VM, all faults | a wl-copy is never in two hands; undisturbed, broker and VM agree on the sandbox's text and a granted clear has cleared it; a source is cancelled after its own copy |
| `clip_forgets` | 3 requests, wl-copy may fail | **violation**: after a failed copy a clear is granted that clears nothing |
| `programs` | 2 requests of any kind, 2 units, 2 chunks per stream; or a command with 2 chunks of input and 1 of each output | the final message is last; a reported network grant covers every unit; streams are complete at the command's end (standard error may miss some if what the command left behind goes on writing); the agent exits only when idle; whoever asked for a program hears its end |
| `services` | the key with 2 channels, 2 nonces, a limit of 1; a virtual key with 3 packets; 3 requests for 2 folders; 2 networks, 2 rules, 2 units | only own channels; no read after close; a grant that is reported is real; what the allower opens the slice did not deny when the lookup was checked; threads end, requests are answered, what stays local is denied |
| `names_stale` | the same networks, rules and units | **violation**: after a refresh that failed halfway the allower checks against a stale set with the tracker at rest |
| `op` | 2 browsers, or 2 connections of one with the clock, 2 logins, 3 requests; a connection of each of 3 clients, with room for 2 of them, over 4 uplinks | OpFill implements OpService; every fill is answered; a connection is served as its own client; the workers' counts are exact and an uplink is on offer again and again |
| `op_block` | the same | **violation**: a denial overwrites the block of a notice |

### Bounds

Three requests are enough for the interesting orders: one on screen, one in
line and one that finds the queue or the slots full; two failures and the
authentication that comes too early; a copy, a second copy and a clear; a grant
that times out, the next, and one for the first folder again.
`SESSION_TTL`, `AUTH_PAUSE`, op-broker's intervals and the clock's `MaxTime` are
chosen so that entries expire while requests are under way. `AUTH_FAILS` and
`DenyLimit` are 2, the least that tells "in a row" from "at all". The
audio filter's `Plan` has the client authenticate, create, delete and create
again, with tags used once, after their answers and before them, and `MaxIndex`
leaves an index the server gave to another client.
`MaxReports`, `MaxRequests`, `MaxChunks`, `MaxIn`, `MaxOut`, `MaxEvents` and
`MaxOwed` bound queues that the code leaves to the kernel; `HIGH_WATER` and
`PIPE` are the code's limits, made small enough to be hit. `MaxPackets` is one connection of the virtual key, the next and one
more, `MaxConns` one agent's connection and the next. `Mix`, `Plan`, `Asks` and `Whose` pick the
combinations of requests that are explored, where all of them are too many.
`DoneMax` (100000 in the code) is 1, so that what is remembered is forgotten.
Four links are two more than `Pool` and the connections at once need, for dead
ones nobody has looked at.

### Fairness

Weak fairness is on the steps the threads take by themselves: Python's threads
are scheduled, and each of their blocking calls ends. A dialog ends because
`ask` gives sbx-prompt `--timeout 90` and kills it after 120 s; pkcheck because of
`AUTH_TIMEOUT`; the attach helper and the VM's agent because the hub gives up on
them; op and op-broker's dialogs because they are killed. The user's answers,
clients hanging up, the key being unplugged, the VM running are never assumed.
In `programs` the programs a request to the broker runs are assumed to end:
nothing in the code limits them; a command in a sandbox is not. In `services` a
sandbox that is there is assumed to read what it is sent. Locks are only weakly
fair: a request that waits for a turn gets it once nobody else takes it, and
requests are finite. `EveryRequestEnds` is about the behaviours that are long
enough for a deadline to pass (`mix.deadlines`).

Strong fairness stands in two places. In DnsAllow the tracker's three steps are
taken if they can be again and again, which says that they don't fail for ever
and that the tracker, started again whenever it ends (`Restart=`), isn't always
ended before it gets there. In OpUplink an uplink is dialed if it can be again
and again: workers may fail in between (`WorkerFails`), but not every time.

`CHECK_DEADLOCK FALSE` stands where the system may come to rest with
nothing to do: every request answered, the connection ended.

## Proofs

Proved with TLAPS, for any number of sandboxes, requests, keys, channels and
limits, from the named assumptions in the modules (which TLC evaluates on each
run's instance):

* **BrokerDecideProofs**: type correctness, `OneDialog`, `DialogNeeded`,
  `QueueBound`, `SlotBound`, `SessionGrantBacked` and `DenyAllHolds`. The
  inductive invariants say who holds a turn (`turn[s] = r` exactly while `r` is
  between acquiring and releasing), that a session table's entry for a sandbox
  changes only under its turn, that every entry has an answer with its time
  behind it, and, for the two counters, that they equal the cardinality of the
  set of threads in a region of the code, which changes by one element per step.
* **BrokerAuthProofs**: type correctness, `OneAuthOnScreen` (a thread on screen
  is the only one of a busy sandbox), `PauseHoldsSerially` and `PauseEarned`.
  For the last two `PauseInv` ties `auth_fails` to the failures as they ended:
  for a sandbox that asks one at a time they agree, unless a thread is between
  pkcheck's end and its counting; then `Due` says what counting it will
  restore. Without that invariant neither is inductive, since the pause is only
  written after the authentication has left the screen, which is exactly what
  two requests at once exploit in `auth_pause_race`.
  Of PolkitAgent, which extends BrokerAuth, `AuthorizedByUser`: `AgreedInv` says
  that only a thread whose authentication is over and succeeded has a reply that
  grants, and only its request is authorized; and what holds of the broker's
  authentications holds with the agent making them (`AgentAuthSafe`). Its types
  (`PolkitTypeOK`) need `AgentInv`: the queue of an agent holds calls for the
  requests of its own application and its end, and `cancel` is exactly the
  requests between the storing of the event and the reply.
* **ClipProofs**: the clipboard with the VM's guest in front of it: types
  (`ClipTypeOK`, with a wl-copy in one hand at most), `TextKnown`,
  `CancelledTaken` and `ClearClearsUndisturbed`, and the same of the broker
  alone. Of the broker, `HandleInv` says who holds a wl-copy (`clips` of its own
  sandbox, or one thread that took it from there), and `SelInv` where the one
  with the user's selection is: in `clips` with no request under way, with the
  thread that started it and is about to store it, or with one that has yet to
  poll and end it. That is what is lost once the sandbox is `disturbed` by
  requests at once or a failing wl-copy, so the invariant speaks of the others.
  Of the guest, `NumberInv` says that a number in `mine` stands for the source
  it was given to, and that two sources have the same number only if it was
  `reused`; `ChangeInv` that one request at most is changing the VM's text, which
  is already as that request will leave it; `OnClipboardInv` that what a VM's
  program has on the user's clipboard is the VM's text until a request that
  replaces it has been answered. It assumes that no request is `Nothing`, nor is
  a source's number.
* **VmServicesProofs**: the security key's relay alone: type correctness (with
  the nonces finite and within the limit), `OnlyOwnChannels` (`ChannelInv`:
  channels in `self.cids` are the sandbox's, and so are those in replies with
  its nonces that are still to be read) and `NoReadAfterClose` (`CloseInv`: the
  key is closed only after `done` is set, which a thread coming back from
  `sendall` tests first), assuming that the host's programs pick other nonces
  than the sandbox. Then all of that beside the other services; the virtual key's
  types (`FidoInv`); `LocalStaysShut`, with what is open to a unit being allowed
  by a rule of it; and `GrantReal`. `LocalStaysShut` is about every step that
  opens an address: it was not denied when its lookup was checked (`OpeningInv`
  keeps what is to be opened and `barred` apart from the check to the last
  unit). It does not say that what the tracker denies after the check stays
  shut. `SetInv` says that the file has the set the
  tracker is about to apply, and otherwise the slice's, unless a step between
  the two was lost (`behind`), which is what `names_stale` needs. The invariant
  behind `GrantReal` has four parts: the lock's holder (`HubInv`), the share and
  the VM only having folders as somebody asked for them (`FolderInv`), the
  numbering of the agent's connections (`ConnInv`), and `AnswerInv`: on a
  connection that is open there is the mount of the request that waits or its
  answer, never another's. That is where a late answer would be taken for the
  next request's if the connection were kept.
* **ProgramsProofs**: type correctness; `IdleIsIdle` (the count of requests is
  that of the thread, which outlives its client); `FinalReplyLast` (`ReplyInv`:
  at most one final message, sent by the last step before the close, once both
  output threads are done); `NetGrantCovers` (`NetInv`: the units listed are
  those updated and those to come, and none had the address taken back).
  `StreamsComplete` is by accounting: while the client is there, what the
  command wrote is with the caller, queued for it or in the pipes
  (`OutputInv`, but for standard error beside an output that is held open), the exit is queued last and only with all of it ahead; what
  the caller gave has been read, is in the pipe or is queued at either end
  (`InputInv`), as long as the command has its input open, and the end of file
  follows the last of it. The chunks of a kind in a queue are counted as the
  cardinality of their places, so what `Append`, `Tail` and a drained pipe do to
  the count are lemmas (`ChunksAppend`, `ChunksTail`, `ChunksUnread`) proved
  from the library's theorems on finite sets, with no induction.
* **PulseFilterProofs**: type correctness with the count of `self.recording`, and
  what a record request's packet and thread look like (`PulseTypes`, `FormInv`,
  `CountInv`), whatever tags the client uses; and, until it has `shared` one,
  `OnlyOwnStreams` and `RecordingAsAsked` from `Apart`, which has four parts.
  `PendInv` says that a tag that is pending has one packet, which is with its
  thread, in `held`, on its way to the server or back, and no other command
  with that tag is on its way; so a reply names a new stream of the client's
  only if it answers its creation, although any command's reply looks the same.
  That is what a creation with the tag of an unanswered command breaks
  (`audio_tags`), and why the theorems have the condition. `FollowInv`
  says that a stream of the server's is coming (its reply is on its way), known
  (in `streams`, with no word of its end on the way) or going (its deletion is
  on the way), which `Recording` relies on to see all of them; `KindInv` ties what a
  recording was classified as to its thread and to what its request would hear. `RouteInv` then orders the line to
  the server: properties that route stand behind the deletion of every recording
  that was classified without them.
* **OpFillProofs**: OpFill implements OpService (`FillImplements`). `FillInv`
  ties what a serving thread has in hand to where it is (`ThreadInv`), has what
  the user is asked about and what is fetched match the page (`MatchInv`), and
  makes `inflight` the requesters of the serving threads, one thread each
  (`FlightInv`). Each step of the code is then a step of OpService or a stutter,
  since the code's match (`UrlMatches`) is within the documentation's rule for a
  page (`Entitled`), and a session that still covers a fill is one of a grant
  in force. `FillTypeOK` adds `KeepInv`: no user's limits are dated ahead of the
  clock, since refilled tokens are what has passed since; the dialog is
  exactly that of the thread choosing or prompting; a grant replaces the one of
  its key.
* **OpBrokerProofs**: the same of the whole broker (`OpImplements`, the uplinks
  being stutters); `ServedAsItself` and `PoolKept`; and `OpTypeOK`, for which
  `ServesInv` says that only a link that is served has a client. `UpInv` says that
  `run_uplink`'s two counters are the cardinalities of the sets of workers that
  are idle and in use. A count of connections in use is bounded by mapping each
  to its client and its number among that client's, an injection into a product
  of two finite sets (`BusyBound`). The limits are assumed to be naturals and
  the pool at least one, and `NoLink`, which stands for Python's `None`, to be
  neither a link nor a client (`FillAssumption`, `LineAssumption`,
  `UplinkAssumption`).

Every safety invariant that a passing run checks is also proved. Only
model-checked: liveness throughout (`DecisionsMade`, `EveryRequestEnds`,
`CancelledGoes`, `EveryProgramEnds`, `ServicesEnd`, `RecordAnswered`, `OpEnds`).
Liveness under fairness, ENABLED and induction over data are beyond this prover.

## Where the code and its documentation differ

* `auth_pause_race`: "after AUTH_FAILS failed or dismissed authentications in a
  row, refuse for AUTH_PAUSE seconds" (`broker.py:83`). `op_authenticate` gives
  up `auth_busy` before it counts the failure, so a second request can pass the
  gate in between, and its result, counted from the number read there,
  overwrites the pause.
* `clip_forgets`: granted "once it is cleared" (`broker.py:34`). A copy that
  fails has already forgotten the wl-copy whose text is still there.
* `op_block`: "Refuse every request from `who` (as a cooldown) for `seconds`"
  (`op_broker.py:530`). A denial of the prompt that was on screen when the block
  came sets the shorter cooldown in its place.
* `names_stale`: "sbx-dnsallow must never check against a stale set"
  (`dnsallow.py:376`). The file is written ahead of the slice, and `applied`
  only behind it: when set-property fails and the host goes back to the set that
  is applied, refresh returns early and the file keeps the other set.

* `audio_tags`: "A reply is matched to a stream by its tag: another command can't
  share one still waiting (its reply could pass for the stream's, with another
  client's index)" (`broker.py:1120`). Only a stream's creation enters its tag in
  `pending`, so the check at 1123 refuses a command with the tag of a creation
  that waits, and lets a creation through with the tag of any other command that
  waits. The first reply is then taken for the creation's.

Smaller ones, which a property's statement excludes, with a word of why there:
an address that the tracker denies after `handle` has read the file for a lookup
is opened all the same ("An allowed name never opens a local address",
`dnsallow.py:19`);
a cancel that reaches polkit-agent before begin() has stored its event is lost
(`early`); a client of clip-guest that uses the number of a source again may see
the new one cancelled by the old one's thread (`reused`); a folder granted rw,
then ro, then rw again is answered from `self.granted` while the VM sees the
read-only mount (`OneMode`); `wl-copy --clear` clears what the user copied since
the poll ("only while what is on it is still what this sandbox put there",
`broker.py:36`); fido-guest writes reports of a connection it let go of to the
device, where the next program's would go.

## Not modelled

* Text and encoding: the dialogs' wording and its escaping, JSON and base64, the
  PulseAudio tag structures, D-Bus, Wayland and CTAP messages beyond the fields
  the code looks at.
* The file system: root, graft, mount-helper and the rest of attach walk and
  mount paths, once, in a row; what can go wrong is in state the kernel keeps,
  which the source does not define.
* vsock-relay, ssh-agent-git, request.py, wayland-security-context: no state
  shared between connections or kept between messages. op-broker's native host
  copies lines; its extension's state is the browser's.
* An AUTH with another protocol version after the first; and that a thread or a
  socket cannot be had where nothing in the code handles it, but for op-broker's
  workers.
* Startup (`bind`, `main`), and crashes of sbx-broker: it keeps nothing on disk,
  and a restart begins at `Init`. Restarts are modelled where something outlives
  them: op-broker, its uplinks, the two network daemons, the agents in a VM.

## Plan

What is left, in order: the agents' processes started again in the VM, composed
with the broker over a connection that is lost; what the limits of the 1Password
broker promise over an hour (`Limiter.take`), as a property of their own; and
the safety halves of the liveness properties, what a thread can be waiting for.
