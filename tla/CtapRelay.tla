------------------------------ MODULE CtapRelay ------------------------------
(***************************************************************************)
(* The security key relay of sbx-broker (lib/broker/broker.py, class       *)
(* CtapRelay, and the end of Broker.op_fido that closes the key).          *)
(*                                                                         *)
(* Two threads: run() takes reports from the sandbox and writes them to    *)
(* the key, from_key() reads the key's and sends them to the sandbox.  The *)
(* key gives every report to everybody who has it open, the replies to     *)
(* programs of the host included.  The threads share cids and nonces under *)
(* a lock, and the event done.                                             *)
(***************************************************************************)
EXTENDS Naturals, Sequences, FiniteSets

CONSTANTS
  Cid,          \* the channels the key may allocate
  Nonce,        \* the nonces the sandbox sends
  HostNonce,    \* the nonces of the host's own programs
  MaxNonces,    \* nonces remembered (64)
  MaxRequests,  \* bounds on the allocations the key has to answer, and on the
  MaxReports    \* reports this fd has to read, for model checking

ASSUME CtapAssumption ==
  /\ Nonce \cap HostNonce = {}
  /\ MaxNonces \in Nat \ {0}
  /\ MaxRequests \in Nat /\ MaxReports \in Nat

VARIABLES
  rpc,       \* where run() is
  rpkt,      \* the report run() has in hand
  kpc,       \* where from_key() is
  kpkt,      \* the report from_key() has in hand
  cids,      \* the channels the sandbox allocated  (self.cids)
  nonces,    \* its nonces without a reply yet      (self.nonces)
  done,      \* self.done
  fd,        \* the key: "open" or "closed"
  link,      \* the sandbox's connection
  plugged,   \* the key is there
  toKey,     \* allocations the key has not answered
  fromKey,   \* reports this fd has not read
  owner      \* history: who each channel was allocated for

relay == <<rpc, rpkt, kpc, kpkt, cids, nonces, done, fd>>
world == <<link, plugged, toKey, fromKey, owner>>
vars == <<rpc, rpkt, kpc, kpkt, cids, nonces, done, fd, link, plugged,
          toKey, fromKey, owner>>

NoReport == [kind |-> "none"]
\* Broadcast reports that allocate a channel or do something else, and
\* reports on a channel.
Request == [kind : {"init"}, nonce : Nonce] \cup [kind : {"other"}]
             \cup [kind : {"data"}, cid : Cid]
Report == [kind : {"init"}, nonce : Nonce \cup HostNonce, cid : Cid]
            \cup [kind : {"data"}, cid : Cid]

Init ==
  /\ rpc = "loop" /\ rpkt = NoReport
  /\ kpc = "loop" /\ kpkt = NoReport
  /\ cids = {} /\ nonces = {}
  /\ done = FALSE
  /\ fd = "open"
  /\ link = "open"
  /\ plugged = TRUE
  /\ toKey = <<>> /\ fromKey = <<>>
  /\ owner = [c \in Cid |-> "nobody"]

(***************************************************************************)
(* CtapRelay.run                                                           *)
(***************************************************************************)
\* Mutant: no limit.
Remembered_NoLimit(n) == {nonces \cup {n}}

\* What self.nonces may be once n is in: beyond the limit an arbitrary one,
\* the newest included, is dropped.
Remembered(n) ==
  LET all == nonces \cup {n}
  IN  IF Cardinality(all) > MaxNonces THEN {all \ {m} : m \in all} ELSE {all}

\* Mutant: the sandbox's channel isn't looked at.
Recv_AnyChannel(p) ==
  /\ rpc = "recv" /\ link = "open"
  /\ rpkt' = p /\ rpc' = "write"
  /\ \/ p.kind = "init" /\ nonces' \in Remembered(p.nonce)
     \/ p.kind # "init" /\ UNCHANGED nonces
  /\ UNCHANGED <<kpc, kpkt, cids, done, fd, world>>

\* A report of the sandbox: allocations and its own channels go on to the
\* key, anything else is dropped.
Recv(p) ==
  /\ rpc = "recv" /\ link = "open"
  /\ \/ /\ p.kind = "init"
        /\ nonces' \in Remembered(p.nonce)
        /\ rpkt' = p /\ rpc' = "write"
     \/ /\ p.kind = "data" /\ p.cid \in cids
        /\ rpkt' = p /\ rpc' = "write"
        /\ UNCHANGED nonces
     \/ /\ p.kind = "other" \/ (p.kind = "data" /\ p.cid \notin cids)
        /\ rpc' = "loop"
        /\ UNCHANGED <<rpkt, nonces>>
  /\ UNCHANGED <<kpc, kpkt, cids, done, fd, world>>

Write ==
  /\ rpc = "write"
  /\ rpkt' = NoReport
  /\ \/ /\ plugged
        /\ rpc' = "loop"
        /\ \/ rpkt.kind = "init" /\ toKey' = Append(toKey, rpkt.nonce)
           \/ rpkt.kind # "init" /\ UNCHANGED toKey
        /\ UNCHANGED done
     \/ /\ ~plugged
        /\ rpc' = "join" /\ done' = TRUE
        /\ UNCHANGED toKey
  /\ UNCHANGED <<kpc, kpkt, cids, nonces, fd, link, plugged, fromKey, owner>>

\* The loop ends, at its top once done is set, or in recv once there is
\* nothing more to receive; and says so.
RunTop ==
  /\ rpc = "loop"
  /\ \/ ~done /\ rpc' = "recv" /\ UNCHANGED done
     \/ done /\ rpc' = "join" /\ done' = TRUE
  /\ UNCHANGED <<rpkt, kpc, kpkt, cids, nonces, fd, world>>

RecvEnds ==
  /\ rpc = "recv" /\ link # "open"
  /\ rpc' = "join" /\ done' = TRUE
  /\ UNCHANGED <<rpkt, kpc, kpkt, cids, nonces, fd, world>>

\* Mutant: the key is closed without waiting for the other thread.
JoinClose_NoJoin ==
  /\ rpc = "join"
  /\ rpc' = "returned" /\ fd' = "closed"
  /\ UNCHANGED <<rpkt, kpc, kpkt, cids, nonces, done, world>>

\* t.join(2), which a from_key() stuck in sendall outlasts (its poll takes
\* half a second at most); then op_fido closes the key.
JoinClose ==
  /\ rpc = "join"
  /\ kpc \in {"ended", "send"}
  /\ rpc' = "returned" /\ fd' = "closed"
  /\ UNCHANGED <<rpkt, kpc, kpkt, cids, nonces, done, world>>

(***************************************************************************)
(* CtapRelay.from_key                                                      *)
(***************************************************************************)
\* Mutant: the connection is left as it is.
FromKeyEnds_NoShutdown ==
  /\ kpc' = "ended" /\ kpkt' = NoReport /\ done' = TRUE
  /\ UNCHANGED link

\* finally: the other thread is told, and woken from its recv.
FromKeyEnds ==
  /\ kpc' = "ended" /\ kpkt' = NoReport /\ done' = TRUE
  /\ link' = "shut"

LoopTop ==
  /\ kpc = "loop"
  /\ \/ /\ done
        /\ FromKeyEnds
     \/ /\ ~done
        /\ kpc' = "poll"
        /\ UNCHANGED <<kpkt, done, link>>
  /\ UNCHANGED <<rpc, rpkt, cids, nonces, fd, plugged, toKey, fromKey, owner>>

\* Half a second without a report, or an error once the key is gone.
PollEmpty ==
  /\ kpc = "poll"
  /\ \/ /\ plugged /\ fromKey = <<>>
        /\ kpc' = "loop"
        /\ UNCHANGED <<kpkt, done, link>>
     \/ /\ ~plugged
        /\ FromKeyEnds
  /\ UNCHANGED <<rpc, rpkt, cids, nonces, fd, plugged, toKey, fromKey, owner>>

\* Mutant: every reply to an allocation is taken for the sandbox's.
ReadReport_AnyNonce ==
  /\ kpc = "poll" /\ plugged /\ fromKey # <<>>
  /\ LET p == Head(fromKey)
     IN  \/ /\ p.kind = "init"
            /\ cids' = cids \cup {p.cid}
            /\ nonces' = nonces \ {p.nonce}
            /\ kpkt' = p /\ kpc' = "send"
         \/ /\ p.kind = "data"
            /\ IF p.cid \in cids THEN kpkt' = p /\ kpc' = "send"
                                 ELSE kpkt' = kpkt /\ kpc' = "loop"
            /\ UNCHANGED <<cids, nonces>>
  /\ fromKey' = Tail(fromKey)
  /\ UNCHANGED <<rpc, rpkt, done, fd, link, plugged, toKey, owner>>

\* A report of the key: the reply to an allocation of the sandbox's opens its
\* channel; reports on other channels are dropped.
ReadReport ==
  /\ kpc = "poll" /\ plugged /\ fromKey # <<>>
  /\ LET p == Head(fromKey)
         mine == p.kind = "init" /\ p.nonce \in nonces
     IN  \/ /\ mine
            /\ nonces' = nonces \ {p.nonce}
            /\ cids' = cids \cup {p.cid}
            /\ kpkt' = p /\ kpc' = "send"
         \/ /\ ~mine /\ p.kind = "data" /\ p.cid \in cids
            /\ kpkt' = p /\ kpc' = "send"
            /\ UNCHANGED <<cids, nonces>>
         \/ /\ ~mine /\ ~(p.kind = "data" /\ p.cid \in cids)
            /\ kpc' = "loop"
            /\ UNCHANGED <<kpkt, cids, nonces>>
  /\ fromKey' = Tail(fromKey)
  /\ UNCHANGED <<rpc, rpkt, done, fd, link, plugged, toKey, owner>>

\* sendall: taken by the sandbox, or it has gone.
Send ==
  /\ kpc = "send"
  /\ \/ /\ link \in {"open", "half"}
        /\ kpc' = "loop" /\ kpkt' = NoReport
        /\ UNCHANGED <<done, link>>
     \/ /\ link # "open"
        /\ FromKeyEnds
  /\ UNCHANGED <<rpc, rpkt, cids, nonces, fd, plugged, toKey, fromKey, owner>>

(***************************************************************************)
(* External: the key, the host's programs that use it, and the sandbox.    *)
(***************************************************************************)
Allocate(n, who) ==
  \E c \in Cid :
    /\ owner[c] = "nobody"
    /\ owner' = [owner EXCEPT ![c] = who]
    /\ fromKey' = Append(fromKey, [kind |-> "init", nonce |-> n, cid |-> c])

KeyAnswers ==
  /\ plugged /\ toKey # <<>>
  /\ toKey' = Tail(toKey)
  /\ Allocate(Head(toKey), "sandbox") \/ UNCHANGED <<fromKey, owner>>
  /\ UNCHANGED <<relay, link, plugged>>

HostAllocates(n) ==
  /\ plugged
  /\ Len(fromKey) < MaxReports
  /\ Allocate(n, "host")
  /\ UNCHANGED <<relay, link, plugged, toKey>>

KeyReports(c) ==
  /\ plugged /\ owner[c] # "nobody"
  /\ Len(fromKey) < MaxReports
  /\ fromKey' = Append(fromKey, [kind |-> "data", cid |-> c])
  /\ UNCHANGED <<relay, link, plugged, toKey, owner>>

Unplug ==
  /\ plugged
  /\ plugged' = FALSE
  /\ UNCHANGED <<relay, link, toKey, fromKey, owner>>

\* The sandbox closes its end, or only stops sending and goes on reading.
HangUp ==
  /\ link = "open"
  /\ link' \in {"half", "gone"}
  /\ UNCHANGED <<relay, plugged, toKey, fromKey, owner>>

SandboxSends(p) ==
  /\ p.kind = "init" => Len(toKey) < MaxRequests
  /\ Recv(p)

RunStep == RunTop \/ RecvEnds \/ Write \/ JoinClose
FromKeyStep == LoopTop \/ PollEmpty \/ ReadReport \/ Send

Next ==
  \/ \E p \in Request : SandboxSends(p)
  \/ RunStep \/ FromKeyStep
  \/ KeyAnswers \/ Unplug \/ HangUp
  \/ \E n \in HostNonce : HostAllocates(n)
  \/ \E c \in Cid : KeyReports(c)

Spec == Init /\ [][Next]_vars

\* Both threads run, and a sandbox that is there reads what it is sent.
FairSpec == Spec /\ WF_vars(RunStep) /\ WF_vars(FromKeyStep)

-----------------------------------------------------------------------------
TypeOK ==
  /\ rpc \in {"loop", "recv", "write", "join", "returned"}
  /\ kpc \in {"loop", "poll", "send", "ended"}
  /\ rpkt \in Request \cup {NoReport}
  /\ kpkt \in Report \cup {NoReport}
  /\ cids \subseteq Cid
  /\ nonces \subseteq Nonce
  /\ Cardinality(nonces) <= MaxNonces
  /\ done \in BOOLEAN
  /\ fd \in {"open", "closed"}
  /\ link \in {"open", "half", "gone", "shut"}
  /\ plugged \in BOOLEAN
  /\ toKey \in Seq(Nonce)
  /\ fromKey \in Seq(Report)
  /\ owner \in [Cid -> {"nobody", "sandbox", "host"}]

\* Whatever the host's programs do with the key meanwhile, the sandbox is sent
\* only what is on channels the key allocated for it, and reaches no others.
OnlyOwnChannels ==
  /\ kpc = "send" => owner[kpkt.cid] = "sandbox"
  /\ rpc = "write" /\ rpkt.kind = "data" => owner[rpkt.cid] = "sandbox"

\* The key is not read once it is closed (its number may be another file's by
\* then), although a from_key() stuck in sendall outlives run().
NoReadAfterClose == fd = "closed" => kpc # "poll"

\* The relay of a key or a sandbox that has gone ends, and the key is closed.
RelayEnds == (link # "open" \/ ~plugged) ~> (rpc = "returned" /\ kpc = "ended")
=============================================================================
