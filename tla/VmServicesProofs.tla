-------------------------- MODULE VmServicesProofs --------------------------
(***************************************************************************)
(* Proofs about VmServices: the relay of the security key, for any number  *)
(* of channels, nonces and reports, alone and beside the other services;   *)
(* what the slice denies stays shut; the virtual key and the grants keep   *)
(* their types; and a grant that is reported is real.                      *)
(***************************************************************************)
EXTENDS VmServices, FiniteSetTheorems, TLAPS

-----------------------------------------------------------------------------
(* The relay of the security key                                           *)

\* The limit on the nonces needs them to be finitely many.
TypeInv == TypeOK /\ IsFiniteSet(nonces)

\* What the key's reports look like, seen from the definitions that read them.
LEMMA ReportFields ==
  ASSUME NEW p \in Report
  PROVE  /\ p.cid \in Cid
         /\ p.kind = "init" => p.nonce \in Nonce \cup HostNonce
  BY DEF Report

LEMMA RequestFields ==
  ASSUME NEW p \in Request
  PROVE  /\ p.kind = "init" => p.nonce \in Nonce
         /\ p.kind = "data" => p.cid \in Cid
  BY DEF Request

\* The nonces remembered stay within the limit, whichever one is dropped.
LEMMA RememberedBound ==
  ASSUME TypeInv, NEW n \in Nonce, NEW S \in Remembered(n)
  PROVE  S \subseteq Nonce /\ IsFiniteSet(S) /\ Cardinality(S) <= MaxNonces
<1> DEFINE all == nonces \cup {n}
<1>1. nonces \subseteq Nonce /\ IsFiniteSet(nonces) /\ Cardinality(nonces) <= MaxNonces
      /\ MaxNonces \in Nat
  BY CtapAssumption DEF TypeInv, TypeOK
<1>2. /\ IsFiniteSet(all) /\ Cardinality(all) \in Nat /\ Cardinality(nonces) \in Nat
      /\ Cardinality(all) <= Cardinality(nonces) + 1
  <2>1. /\ IsFiniteSet(all)
        /\ \/ n \in nonces /\ Cardinality(all) = Cardinality(nonces)
           \/ n \notin nonces /\ Cardinality(all) = Cardinality(nonces) + 1
    BY <1>1, FS_AddElement
  <2>2. Cardinality(all) \in Nat /\ Cardinality(nonces) \in Nat
    BY <1>1, <2>1, FS_CardinalityType
  <2> HIDE DEF all
  <2> QED BY <2>1, <2>2
<1>3. CASE Cardinality(all) > MaxNonces
  <2>1. PICK m \in all : S = all \ {m}
    BY <1>3 DEF Remembered
  <2>2. IsFiniteSet(S) /\ Cardinality(S) = Cardinality(all) - 1
    BY <1>2, <2>1, FS_RemoveElement
  <2> QED BY <1>1, <1>2, <2>1, <2>2
<1>4. CASE ~(Cardinality(all) > MaxNonces)
  <2>1. S = all
    BY <1>4 DEF Remembered
  <2> QED BY <1>1, <1>2, <1>4, <2>1
<1> QED BY <1>3, <1>4

LEMMA CtapTypeInit == Init => TypeInv
<1> SUFFICES ASSUME Init PROVE TypeInv
  OBVIOUS
<1>1. IsFiniteSet(nonces) /\ Cardinality(nonces) = 0
  BY FS_EmptySet DEF Init
<1>2. toKey \in Seq(Nonce) /\ fromKey \in Seq(Report)
  BY DEF Init
<1>3. owner \in [Cid -> {"nobody", "sandbox", "host"}]
  BY DEF Init
<1>4. /\ cids \subseteq Cid /\ nonces \subseteq Nonce
      /\ rpkt \in Request \cup {NoReport} /\ kpkt \in Report \cup {NoReport}
  BY DEF Init
<1>5. Cardinality(nonces) <= MaxNonces
  BY <1>1, CtapAssumption
<1> QED BY <1>1, <1>2, <1>3, <1>4, <1>5 DEF Init, TypeInv, TypeOK

LEMMA AllocateType ==
  ASSUME TypeOK, NEW n \in Nonce \cup HostNonce, NEW who \in {"sandbox", "host"},
         Allocate(n, who)
  PROVE  /\ fromKey' \in Seq(Report)
         /\ owner' \in [Cid -> {"nobody", "sandbox", "host"}]
<1>1. PICK c \in Cid : /\ owner[c] = "nobody"
                       /\ owner' = [owner EXCEPT ![c] = who]
                       /\ fromKey' = Append(fromKey, [kind |-> "init", nonce |-> n, cid |-> c])
  BY DEF Allocate
<1>2. [kind |-> "init", nonce |-> n, cid |-> c] \in Report
  BY DEF Report
<1> QED BY <1>1, <1>2 DEF TypeOK

LEMMA CtapTypeStep == TypeInv /\ [Next]_vars => TypeInv'
<1> SUFFICES ASSUME TypeInv, [Next]_vars PROVE TypeInv'
  OBVIOUS
<1> USE CtapAssumption DEF TypeInv, relay, world
<1>1. ASSUME NEW p \in Request, SandboxSends(p) PROVE TypeInv'
  <2>1. nonces' \subseteq Nonce /\ IsFiniteSet(nonces') /\ Cardinality(nonces') <= MaxNonces
    <3>1. CASE p.kind = "init"
      BY <1>1, <3>1, RequestFields, RememberedBound DEF SandboxSends, Recv
    <3>2. CASE p.kind # "init"
      BY <1>1, <3>2 DEF SandboxSends, Recv, TypeOK
    <3> QED BY <3>1, <3>2
  <2>2. rpc' \in {"loop", "write"} /\ rpkt' \in Request \cup {NoReport}
    BY <1>1 DEF SandboxSends, Recv, TypeOK
  <2> QED BY <1>1, <2>1, <2>2 DEF SandboxSends, Recv, TypeOK
<1>2. CASE RunTop \/ RecvEnds \/ JoinClose
  BY <1>2 DEF RunTop, RecvEnds, JoinClose, TypeOK
<1>3. CASE Write
  <2>1. toKey' \in Seq(Nonce)
    <3>1. CASE plugged /\ rpkt.kind = "init"
      <4>1. rpkt \in Request
        BY <3>1 DEF TypeOK, NoReport
      <4>2. rpkt.nonce \in Nonce
        BY <3>1, <4>1, RequestFields
      <4>3. toKey \in Seq(Nonce) /\ toKey' = Append(toKey, rpkt.nonce)
        BY <1>3, <3>1 DEF Write, TypeOK
      <4> QED BY <4>2, <4>3
    <3>2. CASE ~(plugged /\ rpkt.kind = "init")
      BY <1>3, <3>2 DEF Write, TypeOK
    <3> QED BY <3>1, <3>2
  <2> QED BY <1>3, <2>1 DEF Write, TypeOK
<1>4. CASE LoopTop \/ PollEmpty \/ Send
  BY <1>4 DEF LoopTop, PollEmpty, Send, FromKeyEnds, TypeOK
<1>5. CASE ReadReport
  <2> DEFINE p == Head(fromKey)
  <2>1. p \in Report /\ fromKey' \in Seq(Report)
    BY <1>5 DEF ReadReport, TypeOK
  <2>2. p.cid \in Cid
    BY <2>1, ReportFields
  <2>3. nonces' = nonces \/ \E n \in nonces : nonces' = nonces \ {n}
    BY <1>5 DEF ReadReport
  <2>4. IsFiniteSet(nonces') /\ Cardinality(nonces') <= MaxNonces /\ nonces' \subseteq Nonce
    <3>1. CASE nonces' = nonces
      BY <3>1 DEF TypeOK
    <3>2. CASE \E n \in nonces : nonces' = nonces \ {n}
      <4>1. /\ IsFiniteSet(nonces') /\ Cardinality(nonces') = Cardinality(nonces) - 1
            /\ Cardinality(nonces) \in Nat
        BY <3>2, FS_RemoveElement, FS_CardinalityType
      <4> QED BY <3>2, <4>1 DEF TypeOK
    <3> QED BY <2>3, <3>1, <3>2
  <2>5. cids' \subseteq Cid /\ kpc' \in {"send", "loop"} /\ kpkt' \in Report \cup {NoReport}
    BY <1>5, <2>1, <2>2 DEF ReadReport, TypeOK
  <2> QED BY <1>5, <2>1, <2>4, <2>5 DEF ReadReport, TypeOK
<1>6. CASE KeyAnswers
  <2>1. Head(toKey) \in Nonce /\ toKey' \in Seq(Nonce)
    BY <1>6 DEF KeyAnswers, TypeOK
  <2>2. /\ fromKey' \in Seq(Report)
        /\ owner' \in [Cid -> {"nobody", "sandbox", "host"}]
    BY <1>6, <2>1, AllocateType DEF KeyAnswers, TypeOK
  <2> QED BY <1>6, <2>1, <2>2 DEF KeyAnswers, TypeOK
<1>7. ASSUME NEW n \in HostNonce, HostAllocates(n) PROVE TypeInv'
  <2>1. /\ fromKey' \in Seq(Report)
        /\ owner' \in [Cid -> {"nobody", "sandbox", "host"}]
    BY <1>7, AllocateType DEF HostAllocates
  <2> QED BY <1>7, <2>1 DEF HostAllocates, TypeOK
<1>8. ASSUME NEW c \in Cid, KeyReports(c) PROVE TypeInv'
  <2>1. [kind |-> "data", cid |-> c] \in Report
    BY DEF Report
  <2> QED BY <1>8, <2>1 DEF KeyReports, TypeOK
<1>9. CASE Unplug \/ HangUp
  <2>1. CASE Unplug
    BY <2>1 DEF Unplug, TypeOK
  <2>2. CASE HangUp
    BY <2>2 DEF HangUp, TypeOK
  <2> QED BY <1>9, <2>1, <2>2
<1>10. CASE UNCHANGED vars
  BY <1>10 DEF vars, TypeOK
<1> QED BY <1>1, <1>2, <1>3, <1>4, <1>5, <1>6, <1>7, <1>8, <1>9, <1>10
        DEF Next, RunStep, FromKeyStep

\* Type correctness of the relay; in particular self.nonces never holds more
\* than the limit, however many allocations the sandbox sends unanswered.
THEOREM CtapTypeCorrect == Spec => []TypeOK
<1>1. TypeInv => TypeOK
  BY DEF TypeInv
<1> QED BY <1>1, CtapTypeInit, CtapTypeStep, PTL DEF Spec

-----------------------------------------------------------------------------
(***************************************************************************)
(* Why the sandbox only gets at its own channels: self.cids takes a        *)
(* channel from a reply with one of the sandbox's nonces, and the key sent *)
(* such replies for the sandbox's allocations only.                        *)
(***************************************************************************)
Owned(c) == owner[c] = "sandbox"

ChannelInv ==
  /\ \A c \in cids : Owned(c)
  /\ \A i \in 1 .. Len(fromKey) :
       fromKey[i].kind = "init" /\ fromKey[i].nonce \in Nonce => Owned(fromKey[i].cid)
  /\ OnlyOwnChannels

\* A channel that is somebody's stays theirs.
LEMMA AllocateKeeps ==
  ASSUME TypeInv, ChannelInv, NEW n \in Nonce \cup HostNonce,
         NEW who \in {"sandbox", "host"}, n \in Nonce => who = "sandbox",
         Allocate(n, who), UNCHANGED <<rpc, rpkt, kpc, kpkt, cids>>
  PROVE  ChannelInv'
<1>1. PICK c \in Cid : /\ owner[c] = "nobody"
                       /\ owner' = [owner EXCEPT ![c] = who]
                       /\ fromKey' = Append(fromKey, [kind |-> "init", nonce |-> n, cid |-> c])
  BY DEF Allocate
<1>2. \A d \in Cid : Owned(d) => Owned(d)'
  BY <1>1 DEF Owned, TypeInv, TypeOK
<1>3. \A d \in cids' : Owned(d)'
  BY <1>2 DEF ChannelInv, TypeInv, TypeOK
<1>4. ASSUME NEW i \in 1 .. Len(fromKey'),
             fromKey'[i].kind = "init", fromKey'[i].nonce \in Nonce
      PROVE  Owned(fromKey[i].cid)'
  <2>1. CASE i \in 1 .. Len(fromKey)
    <3>1. fromKey'[i] = fromKey[i] /\ fromKey[i] \in Report
      BY <1>1, <2>1 DEF TypeInv, TypeOK
    <3>2. fromKey[i].cid \in Cid /\ Owned(fromKey[i].cid)
      BY <1>4, <2>1, <3>1, ReportFields DEF ChannelInv
    <3> QED BY <1>2, <3>1, <3>2 DEF Owned
  <2>2. CASE i \notin 1 .. Len(fromKey)
    <3>1. fromKey'[i] = [kind |-> "init", nonce |-> n, cid |-> c]
      BY <1>1, <2>2 DEF TypeInv, TypeOK
    <3>2. who = "sandbox" /\ fromKey'[i].cid = c
      BY <1>4, <3>1
    <3> QED BY <1>1, <3>2 DEF Owned, TypeInv, TypeOK
  <2> QED BY <2>1, <2>2
<1>5. OnlyOwnChannels'
  BY <1>1 DEF ChannelInv, OnlyOwnChannels, TypeInv, TypeOK
<1> QED BY <1>3, <1>4, <1>5 DEF ChannelInv

LEMMA ChannelStep == TypeInv /\ ChannelInv /\ [Next]_vars => ChannelInv'
<1> SUFFICES ASSUME TypeInv, ChannelInv, [Next]_vars PROVE ChannelInv'
  OBVIOUS
<1> USE DEF relay, world
<1>1. ASSUME NEW p \in Request, SandboxSends(p) PROVE ChannelInv'
  BY <1>1 DEF SandboxSends, Recv, ChannelInv, OnlyOwnChannels, Owned
<1>2. CASE RunStep
  BY <1>2 DEF RunStep, RunTop, RecvEnds, JoinClose, Write, ChannelInv, OnlyOwnChannels, Owned
<1>3. CASE LoopTop \/ PollEmpty \/ Send
  BY <1>3 DEF LoopTop, PollEmpty, Send, FromKeyEnds, ChannelInv, OnlyOwnChannels, Owned
<1>4. CASE ReadReport
  <2> DEFINE p == Head(fromKey)
  <2>1. /\ p \in Report /\ p = fromKey[1] /\ Len(fromKey) \in Nat /\ Len(fromKey) > 0
        /\ Len(fromKey') = Len(fromKey) - 1
        /\ \A i \in 1 .. Len(fromKey') : fromKey'[i] = fromKey[i + 1]
    BY <1>4 DEF ReadReport, TypeInv, TypeOK
  <2>2. UNCHANGED <<owner, rpc, rpkt>>
    BY <1>4 DEF ReadReport
  <2>3. \A i \in 1 .. Len(fromKey') :
          fromKey'[i].kind = "init" /\ fromKey'[i].nonce \in Nonce => Owned(fromKey'[i].cid)
    BY <2>1 DEF ChannelInv
  <2>4. CASE p.kind = "init" /\ p.nonce \in nonces
    <3>1. Owned(p.cid)
      BY <2>1, <2>4 DEF ChannelInv, TypeInv, TypeOK
    <3>2. cids' = cids \cup {p.cid} /\ kpkt' = p
      BY <1>4, <2>4 DEF ReadReport
    <3> QED BY <2>2, <2>3, <3>1, <3>2 DEF ChannelInv, OnlyOwnChannels, Owned
  <2>5. CASE ~(p.kind = "init" /\ p.nonce \in nonces)
    <3>1. cids' = cids /\ (kpc' = "loop" \/ (kpkt' = p /\ p.cid \in cids))
      BY <1>4, <2>5 DEF ReadReport
    <3> QED BY <2>2, <2>3, <3>1 DEF ChannelInv, OnlyOwnChannels, Owned
  <2> QED BY <2>4, <2>5
<1>5. CASE KeyAnswers
  <2>1. Head(toKey) \in Nonce
    BY <1>5 DEF KeyAnswers, TypeInv, TypeOK
  <2>2. CASE Allocate(Head(toKey), "sandbox")
    BY <1>5, <2>1, <2>2, AllocateKeeps DEF KeyAnswers
  <2>3. CASE UNCHANGED <<fromKey, owner>>
    BY <1>5, <2>3 DEF KeyAnswers, ChannelInv, OnlyOwnChannels, Owned
  <2> QED BY <1>5, <2>2, <2>3 DEF KeyAnswers
<1>6. ASSUME NEW n \in HostNonce, HostAllocates(n) PROVE ChannelInv'
  <2>1. n \notin Nonce
    BY CtapAssumption
  <2> QED BY <1>6, <2>1, AllocateKeeps DEF HostAllocates
<1>7. ASSUME NEW c \in Cid, KeyReports(c) PROVE ChannelInv'
  <2>1. /\ fromKey' = Append(fromKey, [kind |-> "data", cid |-> c])
        /\ UNCHANGED <<owner, rpc, rpkt, kpc, kpkt, cids>>
    BY <1>7 DEF KeyReports
  <2>2. \A i \in 1 .. Len(fromKey') :
          fromKey'[i].kind = "init" => i \in 1 .. Len(fromKey) /\ fromKey'[i] = fromKey[i]
    BY <2>1 DEF TypeInv, TypeOK
  <2> QED BY <2>1, <2>2 DEF ChannelInv, OnlyOwnChannels, Owned
<1>8. CASE Unplug \/ HangUp \/ UNCHANGED vars
  BY <1>8 DEF Unplug, HangUp, vars, ChannelInv, OnlyOwnChannels, Owned
<1> QED BY <1>1, <1>2, <1>3, <1>4, <1>5, <1>6, <1>7, <1>8 DEF Next, FromKeyStep

\* Whatever the host's own programs and the key do meanwhile, the relay sends
\* the sandbox only what is on channels allocated for it, and lets it write to
\* no others.
THEOREM OnlyOwnChannelsAlways == Spec => []OnlyOwnChannels
<1>1. Init => ChannelInv
  BY DEF Init, ChannelInv, OnlyOwnChannels
<1>2. ChannelInv => OnlyOwnChannels
  BY DEF ChannelInv
<1> QED BY <1>1, <1>2, CtapTypeInit, CtapTypeStep, ChannelStep, PTL DEF Spec

-----------------------------------------------------------------------------
\* The key is closed only after done is set, by when from_key() is past its
\* reads or stuck in sendall, from which it comes back to the test of done.
CloseInv ==
  /\ rpc \in {"join", "returned"} => done
  /\ fd = "closed" => rpc = "returned" /\ kpc # "poll"

LEMMA CloseStep == CloseInv /\ [Next]_vars => CloseInv'
<1> SUFFICES ASSUME CloseInv, [Next]_vars PROVE CloseInv'
  OBVIOUS
<1> USE DEF relay, world, CloseInv
<1>1. ASSUME NEW p \in Request, SandboxSends(p) PROVE CloseInv'
  BY <1>1 DEF SandboxSends, Recv
<1>2. CASE RunStep
  BY <1>2 DEF RunStep, RunTop, RecvEnds, JoinClose, Write
<1>3. CASE FromKeyStep
  BY <1>3 DEF FromKeyStep, LoopTop, PollEmpty, ReadReport, Send, FromKeyEnds
<1>4. CASE KeyAnswers \/ Unplug \/ HangUp
  BY <1>4 DEF KeyAnswers, Unplug, HangUp
<1>5. CASE \/ \E n \in HostNonce : HostAllocates(n)
           \/ \E c \in Cid : KeyReports(c)
  BY <1>5 DEF HostAllocates, KeyReports
<1>6. CASE UNCHANGED vars
  BY <1>6 DEF vars
<1> QED BY <1>1, <1>2, <1>3, <1>4, <1>5, <1>6 DEF Next

\* op_fido closes the key without from_key() ever reading the number after
\* that, although t.join(2) may give up on a from_key() stuck in sendall.
THEOREM NoReadAfterCloseAlways == Spec => []NoReadAfterClose
<1>1. Init => CloseInv
  BY DEF Init, CloseInv
<1>2. CloseInv => NoReadAfterClose
  BY DEF CloseInv, NoReadAfterClose
<1> QED BY <1>1, <1>2, CloseStep, PTL DEF Spec

-----------------------------------------------------------------------------
(* The firewall sets: the two daemons keep their types, and what the slice *)
(* denies isn't opened, for any networks, rules, units and lookups.        *)

\* What is to be opened is never static, and each unit under a rule is one of
\* the rule's; and nothing is to be opened that was denied at the check.
OpeningInv ==
  /\ opening \cap Static = {} /\ opening \cap barred = {}
  /\ \A r \in Rule : \A u \in Unit : <<r, u>> \in todo => u \in UnitsOf[r]

\* The tracker sets what it has published; and the file has what the slice
\* denies, until a step between the two is lost.
SetInv ==
  /\ tpc = "set" => file = nets
  /\ ~behind /\ tpc # "set" /\ file # NoSet /\ slice # NoSet => file = slice

DnsInv == DnsTypeOK /\ OpeningInv /\ SetInv

LEMMA DnsStart == DnsInit => DnsInv
<1> SUFFICES ASSUME DnsInit PROVE DnsInv
  OBVIOUS
<1> USE DnsAssumption DEF DnsInit
<1>1. DnsTypeOK
  BY DEF DnsTypeOK
<1>2. OpeningInv /\ SetInv
  BY DEF OpeningInv, SetInv
<1> QED BY <1>1, <1>2 DEF DnsInv

-----------------------------------------------------------------------------
(* What the allower has                                                    *)

\* Types of the tracker and of the world.
TrackerTyped ==
  /\ lan \in Lans
  /\ tpc \in {"off", "idle", "publish", "set"}
  /\ nets \subseteq Addr
  /\ \A s \in {applied, file, slice} : s = NoSet \/ s \subseteq Addr
  /\ behind \in BOOLEAN
  /\ active \subseteq Glob

\* Types of the allower; and what it opened is allowed.
AllowerTyped ==
  /\ matched \subseteq Rule /\ todo \subseteq Rule \X Unit
  /\ opening \subseteq Addr /\ barred \subseteq Addr
  /\ known \subseteq Unit \X Addr /\ \A d \in known : d[2] \in opened[d[1]]
  /\ opened \in [Unit -> SUBSET Addr]
  /\ \A u \in Unit : \A a \in opened[u] :
       a \notin Static /\ \E r \in Rule : u \in UnitsOf[r] /\ a \notin Denies[r]

LEMMA TypedBoth == DnsTypeOK <=> TrackerTyped /\ AllowerTyped
  BY DEF DnsTypeOK, TrackerTyped, AllowerTyped

LEMMA TrackerStep == DnsInv /\ [DnsNext]_dvars => TrackerTyped' /\ SetInv'
<1> SUFFICES ASSUME DnsInv, [DnsNext]_dvars PROVE TrackerTyped' /\ SetInv'
  OBVIOUS
<1>1. TrackerTyped /\ SetInv
  BY TypedBoth DEF DnsInv
<1> USE <1>1, DnsAssumption DEF TrackerTyped, SetInv, tracker
<1>2. CASE TrackerStarts
  BY <1>2 DEF TrackerStarts
<1>3. CASE TrackerEnds
  <2>1. /\ tpc' = "off" /\ UNCHANGED <<lan, nets, applied, active>>
        /\ file' \in {file, NoSet} /\ slice' \in {slice, nets} /\ behind' \in BOOLEAN
    BY <1>3 DEF TrackerEnds
  <2>2. TrackerTyped'
    BY <2>1
  <2>3. ~behind' /\ file' # NoSet /\ slice' # NoSet => file' = slice'
    BY <1>3 DEF TrackerEnds
  <2> QED BY <2>1, <2>2, <2>3
<1>4. CASE Scan
  BY <1>4 DEF Scan
<1>5. CASE Publish
  BY <1>5 DEF Publish
<1>6. CASE SetDeny
  BY <1>6 DEF SetDeny
<1>7. CASE RefreshFails
  BY <1>7 DEF RefreshFails
<1>8. CASE LanChanges
  BY <1>8 DEF LanChanges
<1>9. ASSUME NEW l \in Lookup, Check(l) PROVE TrackerTyped' /\ SetInv'
  BY <1>9 DEF Check
<1>10. ASSUME NEW r \in Rule, NextRule(r) PROVE TrackerTyped' /\ SetInv'
  BY <1>10 DEF NextRule
<1>11. ASSUME NEW r \in Rule, NEW u \in Unit, OpenUnit(r, u) PROVE TrackerTyped' /\ SetInv'
  BY <1>11 DEF OpenUnit
<1>12. CASE Abandon
  BY <1>12 DEF Abandon
<1>13. ASSUME NEW u \in Glob, UnitTurns(u) PROVE TrackerTyped' /\ SetInv'
  BY <1>13 DEF UnitTurns
<1>14. CASE UNCHANGED dvars
  BY <1>14 DEF dvars
<1> QED BY <1>2, <1>3, <1>4, <1>5, <1>6, <1>7, <1>8, <1>9, <1>10, <1>11, <1>12,
           <1>13, <1>14 DEF DnsNext

\* What a unit gets in addition is allowed to it by the rule at hand.
LEMMA UnitOpened ==
  ASSUME AllowerTyped, OpeningInv, NEW r \in Rule, NEW u \in Unit, OpenUnit(r, u)
  PROVE  AllowerTyped' /\ OpeningInv'
<1> DEFINE new == {a \in opening \ Denies[r] : <<u, a>> \notin known}
<1> USE DnsAssumption DEF AllowerTyped, OpeningInv
<1>1. /\ <<r, u>> \in todo /\ todo' = todo \ {<<r, u>>}
      /\ UNCHANGED <<matched, opening, barred>>
  BY DEF OpenUnit
<1>2. u \in UnitsOf[r]
  BY <1>1
<1>3. OpeningInv'
  BY <1>1
<1>4. CASE UNCHANGED <<opened, known>>
  BY <1>1, <1>3, <1>4
<1>5. CASE /\ opened' = [opened EXCEPT ![u] = @ \cup new]
           /\ known' = (IF Cardinality(known) > DoneMax THEN {} ELSE known) \cup ({u} \X new)
  <2>1. new \subseteq Addr /\ \A a \in new : a \notin Static /\ a \notin Denies[r]
    OBVIOUS
  <2> HIDE DEF new
  <2>2. opened' \in [Unit -> SUBSET Addr]
    BY <1>5, <2>1
  <2>3. /\ opened'[u] = opened[u] \cup new
        /\ \A v \in Unit : v # u => opened'[v] = opened[v]
    BY <1>5
  <2>4. known' \subseteq known \cup ({u} \X new)
    BY <1>5
  <2>5. known' \subseteq Unit \X Addr
    BY <2>1, <2>4
  <2>6. ASSUME NEW d \in known' PROVE d[2] \in opened'[d[1]]
    <3>1. CASE d \in known
      <4>1. d[1] \in Unit /\ d[2] \in opened[d[1]]
        BY <3>1
      <4> QED BY <2>3, <4>1
    <3>2. CASE d \in {u} \X new
      BY <2>3, <3>2
    <3> QED BY <2>4, <3>1, <3>2
  <2>7. ASSUME NEW v \in Unit, NEW a \in opened'[v]
        PROVE  a \notin Static /\ \E q \in Rule : v \in UnitsOf[q] /\ a \notin Denies[q]
    <3>1. CASE v = u /\ a \in new
      BY <1>2, <2>1, <3>1
    <3>2. CASE a \in opened[v]
      BY <3>2
    <3> QED BY <2>3, <3>1, <3>2
  <2> QED BY <1>1, <1>3, <2>2, <2>5, <2>6, <2>7
<1> QED BY <1>4, <1>5 DEF OpenUnit

\* The check lets nothing through that the slice denies and the tracker found
\* to be local.
LEMMA CheckShuts ==
  ASSUME DnsInv, NEW l \in Lookup, Check(l)
  PROVE  opening' \cap barred' = {} /\ barred' \subseteq Addr
<1>1. SetInv /\ TrackerTyped
  BY TypedBoth DEF DnsInv
<1>2. opening' \cap file = {} /\ file # NoSet /\ barred' = KnownLocal
  BY DEF Check
<1>3. CASE slice = NoSet \/ behind
  BY <1>2, <1>3 DEF KnownLocal
<1>4. CASE slice # NoSet /\ ~behind /\ tpc = "set"
  <2>1. barred' = slice \cap file
    BY <1>1, <1>2, <1>4 DEF KnownLocal, SetInv
  <2> QED BY <1>1, <1>2, <1>4, <2>1 DEF TrackerTyped
<1>5. CASE slice # NoSet /\ ~behind /\ tpc # "set"
  <2>1. barred' = file
    BY <1>1, <1>2, <1>5 DEF KnownLocal, SetInv
  <2> QED BY <1>1, <1>2, <1>5, <2>1 DEF TrackerTyped
<1> QED BY <1>1, <1>3, <1>4, <1>5 DEF TrackerTyped

LEMMA AllowerStep == DnsInv /\ [DnsNext]_dvars => AllowerTyped' /\ OpeningInv'
<1> SUFFICES ASSUME DnsInv, [DnsNext]_dvars PROVE AllowerTyped' /\ OpeningInv'
  OBVIOUS
<1>1. AllowerTyped /\ OpeningInv
  BY TypedBoth DEF DnsInv
<1>2. UNCHANGED allower => AllowerTyped' /\ OpeningInv'
  BY <1>1 DEF AllowerTyped, OpeningInv, allower
<1>3. CASE \/ TrackerStarts \/ TrackerEnds \/ Scan \/ Publish \/ SetDeny \/ RefreshFails
           \/ LanChanges \/ (\E u \in Glob : UnitTurns(u)) \/ UNCHANGED dvars
  BY <1>2, <1>3 DEF TrackerStarts, TrackerEnds, Scan, Publish, SetDeny, RefreshFails,
                    LanChanges, UnitTurns, dvars
<1>4. ASSUME NEW l \in Lookup, Check(l) PROVE AllowerTyped' /\ OpeningInv'
  <2>1. l.rules \subseteq Rule /\ l.addrs \subseteq Addr
    BY DnsAssumption
  <2>2. opening' \cap barred' = {} /\ barred' \subseteq Addr
    BY <1>4, CheckShuts
  <2> QED BY <1>1, <1>4, <2>1, <2>2 DEF Check, AllowerTyped, OpeningInv
<1>5. ASSUME NEW r \in Rule, NextRule(r) PROVE AllowerTyped' /\ OpeningInv'
  <2>1. todo' = {<<r, u>> : u \in UnitsOf[r] \ (Glob \ active)}
    BY <1>5 DEF NextRule
  <2>2. UnitsOf[r] \subseteq Unit
    BY DnsAssumption
  <2>3. todo' \subseteq Rule \X Unit
    BY <2>1, <2>2
  <2>4. OpeningInv'
    BY <1>1, <1>5, <2>1 DEF NextRule, OpeningInv
  <2> QED BY <1>1, <1>5, <2>3, <2>4 DEF NextRule, AllowerTyped
<1>6. ASSUME NEW r \in Rule, NEW u \in Unit, OpenUnit(r, u) PROVE AllowerTyped' /\ OpeningInv'
  BY <1>1, <1>6, UnitOpened
<1>7. CASE Abandon
  BY <1>1, <1>7 DEF Abandon, AllowerTyped, OpeningInv
<1> QED BY <1>3, <1>4, <1>5, <1>6, <1>7 DEF DnsNext

LEMMA DnsStep == DnsInv /\ [DnsNext]_dvars => DnsInv'
<1> SUFFICES ASSUME DnsInv, [DnsNext]_dvars PROVE DnsInv'
  OBVIOUS
<1>1. (TrackerTyped /\ AllowerTyped => DnsTypeOK)'
  BY TypedBoth, PTL
<1> QED BY <1>1, TrackerStep, AllowerStep DEF DnsInv

\* Only a unit's opening adds to what is open, and only of the checked addresses.
LEMMA OpensChecked ==
  ASSUME DnsInv, [DnsNext]_dvars, NEW u \in Unit
  PROVE  (opened'[u] \ opened[u]) \cap barred = {}
<1>1. opening \cap barred = {} /\ opened \in [Unit -> SUBSET Addr]
  BY TypedBoth DEF DnsInv, OpeningInv, AllowerTyped
<1>2. CASE opened' = opened
  BY <1>2
<1>3. ASSUME NEW r \in Rule, NEW v \in Unit, OpenUnit(r, v), opened' # opened
      PROVE  opened'[u] \subseteq opened[u] \cup opening
  <2>1. PICK new \in SUBSET opening : opened' = [opened EXCEPT ![v] = @ \cup new]
    BY <1>3 DEF OpenUnit
  <2> QED BY <1>1, <2>1
<1>4. opened' = opened \/ \E r \in Rule, v \in Unit : OpenUnit(r, v)
  BY DEF DnsNext, TrackerStarts, TrackerEnds, Scan, Publish, SetDeny, RefreshFails,
         LanChanges, Check, NextRule, Abandon, UnitTurns, allower, dvars
<1> QED BY <1>1, <1>2, <1>3, <1>4

\* Both daemons keep their types, and nothing is open to a unit that none of
\* its rules allows, or that is a static range.
THEOREM DnsTypeCorrect == DnsSpec => []DnsTypeOK
<1>1. DnsInv => DnsTypeOK
  BY DEF DnsInv
<1> QED BY <1>1, DnsStart, DnsStep, PTL DEF DnsSpec

\* Whatever a unit is opened, at any step of serving a lookup, the slice did not
\* deny when the lookup was checked, however the daemons overlap, stop and fail.
THEOREM LocalStaysShutAlways == DnsSpec => LocalStaysShut
<1> DEFINE A == \A u \in Unit : (opened'[u] \ opened[u]) \cap barred = {}
<1>1. DnsInv /\ [DnsNext]_dvars => [A]_dvars
  BY OpensChecked
<1> QED BY <1>1, DnsStart, DnsStep, PTL DEF DnsSpec, LocalStaysShut

-----------------------------------------------------------------------------
(* The virtual key                                                         *)

\* While a connection is asked for there is no other, and nothing has been
\* done to it.
FidoInv ==
  /\ FidoTypeOK
  /\ shutdown \subseteq 1 .. links
  /\ \A s \in Link : reader[s] # "none" => s <= links
  /\ dpc = "connect" => /\ current = NoLink /\ links > 0
                        /\ reader[links] = "none" /\ links \notin shutdown

LEMMA FidoStart == FidoInit => FidoInv
<1> SUFFICES ASSUME FidoInit PROVE FidoInv
  OBVIOUS
<1> USE FidoAssumption DEF FidoInit, NoLink, Link
<1>1. FidoTypeOK
  <2>1. inuse \in BOOLEAN /\ denied \in BOOLEAN
    OBVIOUS
  <2>2. events \in Seq({"output", "close"})
    OBVIOUS
  <2>3. reader \in [Link -> {"none", "reads", "ended"}]
    OBVIOUS
  <2>4. shutdown \subseteq Link /\ hostEnded \subseteq Link
    OBVIOUS
  <2> QED BY <2>1, <2>2, <2>3, <2>4 DEF FidoTypeOK
<1> QED BY <1>1 DEF FidoInv

LEMMA FidoStep == FidoInv /\ [FidoNext]_fvars => FidoInv'
<1> SUFFICES ASSUME FidoInv, [FidoNext]_fvars PROVE FidoInv'
  OBVIOUS
<1> USE FidoAssumption DEF FidoInv, FidoTypeOK, NoLink, Link, apps, device
<1>1. CASE ReadOutput
  <2>1. events' \in Seq({"output", "close"})
    BY <1>1 DEF ReadOutput
  <2> QED BY <1>1, <2>1 DEF ReadOutput
<1>2. CASE Connected
  <2>1. denied' \in BOOLEAN
    BY <1>2 DEF Connected
  <2>2. CASE dpc' = "send"
    BY <1>2, <2>1, <2>2 DEF Connected
  <2>3. CASE dpc' = "read"
    BY <1>2, <2>1, <2>3 DEF Connected
  <2> QED BY <1>2, <2>2, <2>3 DEF Connected
<1>3. CASE SendPacket
  BY <1>3 DEF SendPacket
<1>4. CASE LetGo
  <2>1. events' \in Seq({"output", "close"})
    BY <1>4 DEF LetGo
  <2> QED BY <1>4, <2>1 DEF LetGo
<1>5. CASE DeniedPasses
  BY <1>5 DEF DeniedPasses
<1>6. CASE ProgramSends
  <2>1. events' \in Seq({"output", "close"})
    BY <1>6 DEF ProgramSends
  <2> QED BY <1>6, <2>1 DEF ProgramSends
<1>7. CASE LastCloses
  <2>1. events' \in Seq({"output", "close"})
    BY <1>7 DEF LastCloses
  <2> QED BY <1>7, <2>1 DEF LastCloses
<1>8. ASSUME NEW s \in Link, ReaderEnds(s) PROVE FidoInv'
  BY <1>8 DEF ReaderEnds
<1>9. ASSUME NEW s \in Link, HostEnds(s) PROVE FidoInv'
  BY <1>9 DEF HostEnds
<1>10. CASE UNCHANGED fvars
  BY <1>10 DEF fvars
<1> QED BY <1>1, <1>2, <1>3, <1>4, <1>5, <1>6, <1>7, <1>8, <1>9, <1>10
        DEF FidoNext, RunThread

-----------------------------------------------------------------------------
(* Grants                                                                  *)

Busy == {"share", "guest", "send", "wait"}
Asked(f, m) == \E g \in Grant : gfolder[g] = f /\ gmode[g] = m
Waits(g) == gpc[g] = "wait" /\ gconn[g] = agent

\* Types, without those of the agent's connections.
HubInv ==
  /\ gfolder \in [Grant -> Folder] /\ gmode \in [Grant -> Mode]
  /\ gpc \in [Grant -> {"new", "ok", "failed"} \cup Busy]
  /\ helper \in [Grant -> {"none", "runs", "done", "failed"}]
  /\ granted \subseteq Folder \X Mode
  /\ glock = {g \in Grant : gpc[g] \in Busy}
  /\ \A g, h \in glock : g = h

\* The share and the VM have folders as somebody asked for them, and the VM has
\* what was granted.
FolderInv ==
  /\ view \in [Folder -> {"none"} \cup Mode]
  /\ bound \in [Folder -> {"none"} \cup Mode]
  /\ \A f \in Folder : view[f] # "none" => Asked(f, view[f])
  /\ \A f \in Folder : bound[f] # "none" => Asked(f, bound[f]) /\ view[f] # "none"
  /\ \A p \in granted : bound[p[1]] # "none"

\* Connections are numbered; the hub has the newest, if any, and never one that
\* it closed.
ConnInv ==
  /\ conns \in 0 .. MaxConns
  /\ shut \subseteq 1 .. conns
  /\ agent \in 1 .. conns \cup {NoConn}
  /\ hguest \in 1 .. conns \cup {NoConn}
  /\ gconn \in [Grant -> 1 .. conns \cup {NoConn}]
  /\ hguest # NoConn => hguest \notin shut
  /\ \A g \in Grant : gpc[g] \in {"send", "wait"} =>
       /\ gconn[g] # NoConn
       /\ gconn[g] = agent => agent \notin shut

\* What is on a connection that is open is the mount of the request that waits,
\* or the answer to it; a folder is bound before that.
AnswerInv ==
  /\ ask \in Seq(Grant) /\ answer \in Seq(BOOLEAN)
  /\ \A g \in Grant : Waits(g) =>
       \/ ask = <<g>> /\ answer = <<>>
       \/ /\ ask = <<>> /\ Len(answer) = 1
          /\ Head(answer) = TRUE => bound[gfolder[g]] # "none"
  /\ agent # NoConn /\ agent \notin shut /\ (\A g \in Grant : ~Waits(g)) =>
       ask = <<>> /\ answer = <<>>

GrantsInv == HubInv /\ FolderInv /\ ConnInv /\ AnswerInv

LEMMA GrantsStart == GrantsInit => GrantsInv
<1> SUFFICES ASSUME GrantsInit PROVE GrantsInv
  OBVIOUS
<1> USE GrantsAssumption DEF GrantsInit
<1>1. HubInv
  BY DEF HubInv, Busy
<1>2. FolderInv
  BY DEF FolderInv
<1>3. ConnInv
  BY DEF ConnInv
<1>4. AnswerInv
  <2>1. ask \in Seq(Grant) /\ answer \in Seq(BOOLEAN)
    OBVIOUS
  <2>2. \A g \in Grant : ~Waits(g)
    BY DEF Waits
  <2> QED BY <2>1, <2>2 DEF AnswerInv
<1> QED BY <1>1, <1>2, <1>3, <1>4 DEF GrantsInv

\* Which way an answer goes.
LEMMA ReadsAnswer ==
  ASSUME NEW g \in Grant, ReadAnswer(g), answer \in Seq(BOOLEAN)
  PROVE  /\ Waits(g) /\ answer # <<>> /\ Head(answer) \in BOOLEAN
         /\ \/ Head(answer) = TRUE /\ granted' = granted \cup {<<gfolder[g], gmode[g]>>}
            \/ granted' = granted
<1>1. Waits(g) /\ answer # <<>>
  BY DEF ReadAnswer, GoGrant, Waits
<1>2. Head(answer) \in BOOLEAN
  BY <1>1
<1>3. CASE Head(answer) = TRUE
  <2>1. granted' = granted \cup {<<gfolder[g], gmode[g]>>}
    BY <1>3 DEF ReadAnswer
  <2> QED BY <1>1, <1>2, <1>3, <2>1
<1>4. CASE Head(answer) = FALSE
  <2>1. granted' = granted
    BY <1>4 DEF ReadAnswer
  <2> QED BY <1>1, <1>2, <2>1
<1> QED BY <1>2, <1>3, <1>4

LEMMA HubStep == GrantsInv /\ [GrantsNext]_gvars => HubInv'
<1> SUFFICES ASSUME GrantsInv, [GrantsNext]_gvars PROVE HubInv'
  OBVIOUS
<1> USE GrantsAssumption DEF GrantsInv, HubInv, Busy, gin, hub, vm, Mode
<1>1. ASSUME NEW g \in Grant, Lock(g) PROVE HubInv'
  BY <1>1 DEF Lock, GoGrant
<1>2. ASSUME NEW g \in Grant, StartHelper(g) PROVE HubInv'
  BY <1>2 DEF StartHelper, GoGrant
<1>3. ASSUME NEW g \in Grant, Shared(g) PROVE HubInv'
  BY <1>3 DEF Shared, GoGrant
<1>4. ASSUME NEW g \in Grant, TakeGuest(g) PROVE HubInv'
  BY <1>4 DEF TakeGuest, GoGrant
<1>5. ASSUME NEW g \in Grant, SendMount(g) PROVE HubInv'
  BY <1>5 DEF SendMount, GoGrant
<1>6. ASSUME NEW g \in Grant, ReadAnswer(g) PROVE HubInv'
  <2>5. <<gfolder[g], gmode[g]>> \in Folder \X Mode
    OBVIOUS
  <2>6. granted' \in {granted, granted \cup {<<gfolder[g], gmode[g]>>}}
    BY <1>6, ReadsAnswer DEF AnswerInv
  <2>1. granted' \subseteq Folder \X Mode
    BY <2>5, <2>6
  <2>2. gpc' = [gpc EXCEPT ![g] = "ok"] \/ gpc' = [gpc EXCEPT ![g] = "failed"]
    BY <1>6 DEF ReadAnswer, GoGrant
  <2>3. glock' = {} /\ gpc[g] = "wait"
    BY <1>6 DEF ReadAnswer, GoGrant
  <2>4. UNCHANGED <<gfolder, gmode, helper>>
    BY <1>6 DEF ReadAnswer
  <2> QED BY <2>1, <2>2, <2>3, <2>4
<1>7. ASSUME NEW g \in Grant, NoAnswer(g) PROVE HubInv'
  BY <1>7 DEF NoAnswer, GoGrant, DropGuest
<1>8. ASSUME NEW g \in Grant, Attach(g) PROVE HubInv'
  BY <1>8 DEF Attach
<1>9. ASSUME NEW g \in Grant, AttachFails(g) PROVE HubInv'
  BY <1>9 DEF AttachFails
<1>10. CASE AgentConnects
  BY <1>10 DEF AgentConnects
<1>11. CASE AgentMounts
  BY <1>11 DEF AgentMounts
<1>12. CASE AgentStops
  BY <1>12 DEF AgentStops
<1>13. CASE UNCHANGED gvars
  BY <1>13 DEF gvars
<1> QED BY <1>1, <1>2, <1>3, <1>4, <1>5, <1>6, <1>7,
        <1>8, <1>9, <1>10, <1>11, <1>12, <1>13 DEF GrantsNext, GrantStep

\* A mount over a folder of the share, and a bind in the VM.
LEMMA FolderMounted ==
  ASSUME FolderInv, UNCHANGED <<gfolder, gmode, granted, bound>>,
         NEW f \in Folder, NEW m \in Mode, Asked(f, m),
         view' = [view EXCEPT ![f] = m]
  PROVE  FolderInv'
<1>1. m # "none"
  BY DEF Mode
<1>2. \A e \in Folder : view'[e] = IF e = f THEN m ELSE view[e]
  BY DEF FolderInv
<1>3. view' \in [Folder -> {"none"} \cup Mode]
  BY DEF FolderInv
<1>4. \A e \in Folder : view'[e] # "none" => Asked(e, view'[e])
  BY <1>2 DEF FolderInv
<1>5. \A e \in Folder : bound[e] # "none" => Asked(e, bound[e]) /\ view'[e] # "none"
  BY <1>1, <1>2 DEF FolderInv
<1> QED BY <1>3, <1>4, <1>5 DEF FolderInv, Asked

LEMMA FolderBound ==
  ASSUME FolderInv, granted \subseteq Folder \X Mode,
         UNCHANGED <<gfolder, gmode, granted, view>>,
         NEW f \in Folder, NEW m \in Mode, Asked(f, m), view[f] # "none",
         bound' = [bound EXCEPT ![f] = m]
  PROVE  FolderInv'
<1>1. m # "none"
  BY DEF Mode
<1>2. \A e \in Folder : bound'[e] = IF e = f THEN m ELSE bound[e]
  BY DEF FolderInv
<1>3. bound' \in [Folder -> {"none"} \cup Mode]
  BY DEF FolderInv
<1>4. \A e \in Folder : bound'[e] # "none" => Asked(e, bound'[e]) /\ view[e] # "none"
  BY <1>2 DEF FolderInv
<1>5. ASSUME NEW p \in granted PROVE bound'[p[1]] # "none"
  <2>1. p[1] \in Folder
    OBVIOUS
  <2>2. bound[p[1]] # "none"
    BY DEF FolderInv
  <2> QED BY <1>1, <1>2, <2>1, <2>2
<1> QED BY <1>3, <1>4, <1>5 DEF FolderInv, Asked

LEMMA FolderSame ==
  FolderInv /\ UNCHANGED <<gfolder, gmode, granted, view, bound>> => FolderInv'
  BY DEF FolderInv, Asked

LEMMA FolderStep == GrantsInv /\ [GrantsNext]_gvars => FolderInv'
<1> SUFFICES ASSUME GrantsInv, [GrantsNext]_gvars PROVE FolderInv'
  OBVIOUS
<1>1. FolderInv /\ granted \subseteq Folder \X Mode
  BY DEF GrantsInv, HubInv
<1>2. \A g \in Grant : gfolder[g] \in Folder /\ gmode[g] \in Mode /\ Asked(gfolder[g], gmode[g])
  BY DEF GrantsInv, HubInv, Asked
<1>3. ASSUME NEW g \in Grant, Lock(g) \/ StartHelper(g) \/ Shared(g) \/ TakeGuest(g)
                                \/ SendMount(g) \/ NoAnswer(g)
      PROVE  FolderInv'
  <2>1. UNCHANGED <<gfolder, gmode, granted, view, bound>>
    BY <1>3 DEF Lock, StartHelper, Shared, TakeGuest, SendMount, NoAnswer, gin, hub, vm
  <2> QED BY <1>1, <2>1, FolderSame
<1>4. ASSUME NEW g \in Grant, ReadAnswer(g) PROVE FolderInv'
  <2>1. UNCHANGED <<gfolder, gmode, view, bound>>
    BY <1>4 DEF ReadAnswer, gin
  <2>2. answer \in Seq(BOOLEAN)
    BY DEF GrantsInv, AnswerInv
  <2>3. CASE granted' = granted
    BY <1>1, <2>1, <2>3, FolderSame
  <2>4. CASE Head(answer) = TRUE /\ granted' = granted \cup {<<gfolder[g], gmode[g]>>}
    <3>1. bound[gfolder[g]] # "none"
      <4>1. Waits(g) /\ answer # <<>>
        BY <1>4, <2>2, ReadsAnswer
      <4> QED BY <2>4, <4>1 DEF GrantsInv, AnswerInv
    <3>2. ASSUME NEW p \in granted' PROVE bound[p[1]] # "none"
      <4>1. CASE p \in granted
        BY <1>1, <4>1 DEF FolderInv
      <4>2. CASE p = <<gfolder[g], gmode[g]>>
        BY <3>1, <4>2
      <4> QED BY <2>4, <4>1, <4>2
    <3> QED BY <1>1, <2>1, <3>2 DEF FolderInv, Asked
  <2> QED BY <1>4, <2>2, <2>3, <2>4, ReadsAnswer
<1>5. ASSUME NEW g \in Grant, Attach(g) PROVE FolderInv'
  BY <1>1, <1>2, <1>5, FolderMounted DEF Attach, gin, hub, vm
<1>6. ASSUME NEW g \in Grant, AttachFails(g) PROVE FolderInv'
  <2>1. UNCHANGED <<gfolder, gmode, granted, bound>>
    BY <1>6 DEF AttachFails, gin, hub, vm
  <2>2. CASE UNCHANGED view
    BY <1>1, <2>1, <2>2, FolderSame
  <2>3. CASE view' = [view EXCEPT ![gfolder[g]] = gmode[g]]
    BY <1>1, <1>2, <2>1, <2>3, FolderMounted
  <2> QED BY <1>6, <2>2, <2>3 DEF AttachFails
<1>7. CASE AgentConnects \/ AgentStops \/ UNCHANGED gvars
  <2>1. UNCHANGED <<gfolder, gmode, granted, view, bound>>
    BY <1>7 DEF AgentConnects, AgentStops, gvars, gin, hub, vm
  <2> QED BY <1>1, <2>1, FolderSame
<1>8. CASE AgentMounts
  <2> DEFINE g == Head(ask)
             f == gfolder[g]
             m == IF gmode[g] = "ro" THEN "ro" ELSE view[f]
  <2>1. ask \in Seq(Grant) /\ ask # <<>>
    BY <1>8 DEF AgentMounts, GrantsInv, AnswerInv
  <2>2. g \in Grant
    BY <2>1
  <2>3. UNCHANGED <<gfolder, gmode, granted, view>>
    BY <1>8 DEF AgentMounts, gin, hub
  <2>4. bound' = bound \/ (view[f] # "none" /\ bound' = [bound EXCEPT ![f] = m])
    BY <1>8 DEF AgentMounts
  <2>5. CASE bound' = bound
    BY <1>1, <2>3, <2>5, FolderSame
  <2>6. CASE view[f] # "none" /\ bound' = [bound EXCEPT ![f] = m]
    <3>1. f \in Folder /\ gmode[g] \in Mode /\ Asked(f, gmode[g])
      BY <1>2, <2>2
    <3>2. view[f] \in Mode /\ Asked(f, view[f])
      BY <1>1, <2>6, <3>1 DEF FolderInv
    <3>3. m \in Mode /\ Asked(f, m)
      BY <3>1, <3>2
    <3> HIDE DEF m, f, g
    <3> QED BY <1>1, <2>3, <2>6, <3>1, <3>3, FolderBound
  <2> QED BY <2>4, <2>5, <2>6
<1> QED BY <1>3, <1>4, <1>5, <1>6, <1>7, <1>8 DEF GrantsNext, GrantStep

LEMMA ConnStep == GrantsInv /\ [GrantsNext]_gvars => ConnInv'
<1> SUFFICES ASSUME GrantsInv, [GrantsNext]_gvars PROVE ConnInv'
  OBVIOUS
<1> USE GrantsAssumption DEF GrantsInv, HubInv, ConnInv, Busy, gin, hub, vm
<1>1. ASSUME NEW g \in Grant, Lock(g) PROVE ConnInv'
  BY <1>1 DEF Lock, GoGrant
<1>2. ASSUME NEW g \in Grant, StartHelper(g) PROVE ConnInv'
  BY <1>2 DEF StartHelper, GoGrant
<1>3. ASSUME NEW g \in Grant, Shared(g) PROVE ConnInv'
  BY <1>3 DEF Shared, GoGrant
<1>4. ASSUME NEW g \in Grant, TakeGuest(g) PROVE ConnInv'
  BY <1>4 DEF TakeGuest, GoGrant
<1>5. ASSUME NEW g \in Grant, SendMount(g) PROVE ConnInv'
  BY <1>5 DEF SendMount, GoGrant
<1>6. ASSUME NEW g \in Grant, ReadAnswer(g) PROVE ConnInv'
  BY <1>6 DEF ReadAnswer, GoGrant
<1>7. ASSUME NEW g \in Grant, NoAnswer(g) PROVE ConnInv'
  <2>1. gconn[g] \in 1 .. conns /\ g \in glock
    BY <1>7 DEF NoAnswer, GoGrant
  <2>2. hguest' \in {hguest, NoConn} /\ (hguest' = gconn[g] => hguest' = NoConn)
    BY <1>7 DEF NoAnswer, DropGuest
  <2>3. shut' = shut \cup {gconn[g]} /\ gpc' = [gpc EXCEPT ![g] = "failed"]
    BY <1>7 DEF NoAnswer, DropGuest, GoGrant
  <2>4. UNCHANGED <<gconn, agent, conns>>
    BY <1>7 DEF NoAnswer
  <2>5. \A h \in Grant : gpc'[h] \notin {"send", "wait"}
    BY <2>1, <2>3
  <2> QED BY <2>1, <2>2, <2>3, <2>4, <2>5
<1>8. ASSUME NEW g \in Grant, Attach(g) PROVE ConnInv'
  BY <1>8 DEF Attach
<1>9. ASSUME NEW g \in Grant, AttachFails(g) PROVE ConnInv'
  BY <1>9 DEF AttachFails
<1>10. CASE AgentConnects
  BY <1>10 DEF AgentConnects
<1>11. CASE AgentMounts
  BY <1>11 DEF AgentMounts
<1>12. CASE AgentStops
  BY <1>12 DEF AgentStops
<1>13. CASE UNCHANGED gvars
  BY <1>13 DEF gvars
<1> QED BY <1>1, <1>2, <1>3, <1>4, <1>5, <1>6, <1>7,
        <1>8, <1>9, <1>10, <1>11, <1>12, <1>13 DEF GrantsNext, GrantStep

\* Nobody waits, or those who did still do.
LEMMA AnswerQuiet ==
  ASSUME ask' = <<>>, answer' = <<>>, \A h \in Grant : ~Waits(h)'
  PROVE  AnswerInv'
<1>1. ask' \in Seq(Grant) /\ answer' \in Seq(BOOLEAN)
  OBVIOUS
<1> QED BY <1>1 DEF AnswerInv

LEMMA AnswerSame ==
  ASSUME AnswerInv, UNCHANGED <<gfolder, agent, ask, answer, bound>>, shut \subseteq shut',
         \A h \in Grant : Waits(h)' <=> Waits(h)
  PROVE  AnswerInv'
<1>1. \A h \in Grant : Waits(h)' =>
        \/ ask' = <<h>> /\ answer' = <<>>
        \/ /\ ask' = <<>> /\ Len(answer') = 1
           /\ Head(answer') = TRUE => bound'[gfolder'[h]] # "none"
  BY DEF AnswerInv
<1>2. agent' # NoConn /\ agent' \notin shut' /\ (\A h \in Grant : ~Waits(h)') =>
        ask' = <<>> /\ answer' = <<>>
  BY DEF AnswerInv
<1> QED BY <1>1, <1>2 DEF AnswerInv

LEMMA AnswerStep == GrantsInv /\ [GrantsNext]_gvars => AnswerInv'
<1> SUFFICES ASSUME GrantsInv, [GrantsNext]_gvars PROVE AnswerInv'
  OBVIOUS
<1>1. AnswerInv /\ ConnInv
  BY DEF GrantsInv
<1>2. /\ gpc \in [Grant -> {"new", "ok", "failed"} \cup Busy]
      /\ gconn \in [Grant -> 1 .. conns \cup {NoConn}]
      /\ gfolder \in [Grant -> Folder]
  BY DEF GrantsInv, HubInv, ConnInv
<1>3. \A g, h \in Grant : gpc[g] \in Busy /\ gpc[h] \in Busy => g = h
  BY DEF GrantsInv, HubInv
<1>4. ASSUME NEW g \in Grant, Lock(g) \/ StartHelper(g) \/ Shared(g) \/ TakeGuest(g)
      PROVE  AnswerInv'
  <2>1. UNCHANGED <<gfolder, agent, ask, answer, bound, shut>>
    BY <1>4 DEF Lock, StartHelper, Shared, TakeGuest, gin, vm, hub
  <2>2. ASSUME NEW h \in Grant PROVE Waits(h)' <=> Waits(h)
    <3>1. CASE Lock(g) \/ StartHelper(g) \/ Shared(g)
      BY <1>2, <3>1 DEF Lock, StartHelper, Shared, GoGrant, Waits, vm, hub
    <3>2. CASE TakeGuest(g)
      BY <1>2, <3>2 DEF TakeGuest, GoGrant, Waits, vm
    <3> QED BY <1>4, <3>1, <3>2
  <2> QED BY <1>1, <2>1, <2>2, AnswerSame
<1>5. ASSUME NEW g \in Grant, SendMount(g) PROVE AnswerInv'
  <2>1. /\ gpc[g] = "send" /\ gpc' = [gpc EXCEPT ![g] = "wait"] /\ gconn[g] = agent
        /\ ask' = Append(ask, g)
        /\ UNCHANGED <<gconn, agent, answer, bound, gfolder, shut>>
    BY <1>5 DEF SendMount, GoGrant, gin
  <2>2. \A h \in Grant : ~Waits(h)
    BY <1>3, <2>1 DEF Waits, Busy
  <2>3. agent # NoConn /\ agent \notin shut
    BY <1>1, <2>1 DEF ConnInv
  <2>4. ask = <<>> /\ answer = <<>>
    BY <1>1, <2>2, <2>3 DEF AnswerInv
  <2>5. ask' = <<g>> /\ answer' = <<>>
    BY <2>1, <2>4
  <2>6. \A h \in Grant : Waits(h)' <=> h = g
    BY <1>2, <1>3, <2>1 DEF Waits, Busy
  <2>7. ask' \in Seq(Grant) /\ answer' \in Seq(BOOLEAN)
    BY <2>5
  <2> QED BY <2>5, <2>6, <2>7 DEF AnswerInv
<1>6. ASSUME NEW g \in Grant, ReadAnswer(g) PROVE AnswerInv'
  <2>1. Waits(g) /\ answer # <<>>
    BY <1>1, <1>6, ReadsAnswer DEF AnswerInv
  <2>2. answer \in Seq(BOOLEAN) /\ ask = <<>> /\ Len(answer) = 1
    BY <1>1, <2>1 DEF AnswerInv
  <2>3. answer' = Tail(answer) /\ UNCHANGED <<ask, gconn, agent>>
    BY <1>6 DEF ReadAnswer
  <2>4. answer' = <<>> /\ ask' = <<>>
    BY <2>2, <2>3
  <2>5. gpc' = [gpc EXCEPT ![g] = "ok"] \/ gpc' = [gpc EXCEPT ![g] = "failed"]
    BY <1>6 DEF ReadAnswer, GoGrant
  <2>6. \A h \in Grant : ~Waits(h)'
    BY <1>2, <1>3, <2>1, <2>5 DEF Waits, Busy
  <2> QED BY <2>4, <2>6, AnswerQuiet
<1>7. ASSUME NEW g \in Grant, NoAnswer(g) PROVE AnswerInv'
  <2>1. /\ gpc[g] \in {"send", "wait"} /\ gpc' = [gpc EXCEPT ![g] = "failed"]
        /\ shut' = shut \cup {gconn[g]}
        /\ UNCHANGED <<gfolder, gconn, agent, ask, answer, bound>>
    BY <1>7 DEF NoAnswer, GoGrant, DropGuest, gin
  <2>2. \A h \in Grant : ~Waits(h)'
    BY <1>2, <1>3, <2>1 DEF Waits, Busy
  <2>3. CASE agent = gconn[g]
    <3>1. agent' \in shut'
      BY <2>1, <2>3
    <3> QED BY <1>1, <2>1, <2>2, <3>1 DEF AnswerInv
  <2>4. CASE agent # gconn[g]
    <3>1. \A h \in Grant : ~Waits(h)
      BY <1>3, <2>1, <2>4 DEF Waits, Busy
    <3> QED BY <1>1, <2>1, <2>2, <3>1, AnswerSame
  <2> QED BY <2>3, <2>4
<1>8. ASSUME NEW g \in Grant, Attach(g) \/ AttachFails(g) PROVE AnswerInv'
  <2>1. UNCHANGED <<gfolder, gpc, gconn, agent, ask, answer, bound, shut>>
    BY <1>8 DEF Attach, AttachFails, gin, hub, vm
  <2> QED BY <1>1, <2>1, AnswerSame DEF Waits
<1>9. CASE AgentConnects
  <2>1. ask' = <<>> /\ answer' = <<>> /\ agent' = conns + 1 /\ UNCHANGED <<gpc, gconn>>
    BY <1>9 DEF AgentConnects
  <2>2. conns + 1 \notin 1 .. conns \cup {NoConn}
    BY <1>1, GrantsAssumption DEF ConnInv
  <2>3. \A h \in Grant : ~Waits(h)'
    BY <1>2, <2>1, <2>2 DEF Waits
  <2> QED BY <2>1, <2>3, AnswerQuiet
<1>10. CASE AgentMounts
  <2>1. ask # <<>> /\ agent # NoConn /\ ask' = Tail(ask) /\ UNCHANGED <<gfolder, gpc, gconn, shut>>
    BY <1>10 DEF AgentMounts, gin, hub
  <2>2. ask' \in Seq(Grant)
    <3>1. ask \in Seq(Grant)
      BY <1>1 DEF AnswerInv
    <3> QED BY <2>1, <3>1
  <2>3. CASE agent \in shut
    <3>1. agent' = NoConn /\ answer' = <<>>
      BY <1>10, <2>3 DEF AgentMounts
    <3>2. \A h \in Grant : ~Waits(h)'
      BY <1>1, <2>1, <3>1 DEF Waits, ConnInv
    <3>3. answer' \in Seq(BOOLEAN)
      BY <3>1
    <3> QED BY <2>2, <3>1, <3>2, <3>3 DEF AnswerInv
  <2>4. CASE agent \notin shut
    <3>1. PICK g \in Grant : Waits(g)
      BY <1>1, <2>1, <2>4 DEF AnswerInv
    <3>2. ask = <<g>> /\ answer = <<>>
      BY <1>1, <2>1, <3>1 DEF AnswerInv
    <3>3. Head(ask) = g /\ ask' = <<>>
      BY <2>1, <3>2
    <3>4. PICK ok \in {FALSE} \cup {view[gfolder[g]] # "none"} :
            /\ bound' = IF ~ok THEN bound
                        ELSE [bound EXCEPT ![gfolder[g]] =
                               IF gmode[g] = "ro" THEN "ro" ELSE view[gfolder[g]]]
            /\ answer' = Append(answer, ok) /\ agent' = agent
      BY <1>10, <2>4, <3>3 DEF AgentMounts
    <3>5. answer' = <<ok>> /\ ok \in BOOLEAN
      <4>1. answer' = <<ok>>
        BY <3>2, <3>4
      <4>2. ok \in {FALSE, view[gfolder[g]] # "none"}
        BY <3>4
      <4>3. ok \in BOOLEAN
        BY <4>2, Zenon
      <4> QED BY <4>1, <4>3
    <3>6. answer' \in Seq(BOOLEAN) /\ Len(answer') = 1 /\ Head(answer') = ok
      BY <3>5
    <3>7. ok = TRUE => bound'[gfolder[g]] # "none"
      <4> SUFFICES ASSUME ok = TRUE PROVE bound'[gfolder[g]] # "none"
        OBVIOUS
      <4>1. view[gfolder[g]] # "none"
        BY <3>4
      <4>2. bound' = [bound EXCEPT ![gfolder[g]] =
                       IF gmode[g] = "ro" THEN "ro" ELSE view[gfolder[g]]]
        BY <3>4
      <4>3. bound \in [Folder -> {"none"} \cup Mode] /\ gfolder[g] \in Folder
        BY <1>2 DEF GrantsInv, FolderInv
      <4> QED BY <4>1, <4>2, <4>3
    <3>8. \A h \in Grant : Waits(h)' <=> h = g
      BY <1>3, <2>1, <3>1, <3>4 DEF Waits, Busy
    <3> QED BY <2>1, <2>2, <3>3, <3>6, <3>7, <3>8 DEF AnswerInv
  <2> QED BY <2>3, <2>4
<1>11. CASE AgentStops
  <2>1. ask' = <<>> /\ answer' = <<>> /\ agent' = NoConn /\ UNCHANGED <<gpc, gconn>>
    BY <1>11 DEF AgentStops, hub
  <2>2. \A h \in Grant : ~Waits(h)'
    BY <1>1, <2>1 DEF Waits, ConnInv
  <2> QED BY <2>1, <2>2, AnswerQuiet
<1>12. CASE UNCHANGED gvars
  BY <1>1, <1>12, AnswerSame DEF gvars, gin, hub, vm, Waits
<1> QED BY <1>4, <1>5, <1>6, <1>7, <1>8, <1>9, <1>10, <1>11, <1>12
        DEF GrantsNext, GrantStep

LEMMA GrantsStep == GrantsInv /\ [GrantsNext]_gvars => GrantsInv'
  BY HubStep, FolderStep, ConnStep, AnswerStep DEF GrantsInv

\* The types the run checks follow: the lock is held by one request at most.
LEMMA GrantsTyped == GrantsInv => GrantsTypeOK
<1> SUFFICES ASSUME GrantsInv PROVE GrantsTypeOK
  OBVIOUS
<1> USE DEF GrantsInv
<1>1. Cardinality(glock) <= 1
  <2>1. CASE glock = {}
    BY <2>1, FS_EmptySet
  <2>2. CASE glock # {}
    <3>1. PICK g \in glock : TRUE
      BY <2>2
    <3>2. glock = {g}
      BY <3>1 DEF HubInv
    <3>3. Cardinality({g}) = 1
      BY FS_Singleton
    <3> QED BY <3>2, <3>3
  <2> QED BY <2>1, <2>2
<1>2. /\ gconn \in [Grant -> Nat \cup {NoConn}]
      /\ hguest \in Nat \cup {NoConn} /\ agent \in Nat \cup {NoConn}
      /\ conns \in 0 .. MaxConns /\ shut \subseteq Nat
  BY DEF ConnInv
<1>3. /\ view \in [Folder -> {"none"} \cup Mode]
      /\ bound \in [Folder -> {"none"} \cup Mode]
  BY DEF FolderInv
<1>4. ask \in Seq(Grant) /\ answer \in Seq(BOOLEAN)
  BY DEF AnswerInv
<1>5. /\ gfolder \in [Grant -> Folder] /\ gmode \in [Grant -> Mode]
      /\ gpc \in [Grant -> {"new", "share", "guest", "send", "wait", "ok", "failed"}]
      /\ glock = {g \in Grant : gpc[g] \in {"share", "guest", "send", "wait"}}
      /\ granted \subseteq Folder \X Mode
      /\ helper \in [Grant -> {"none", "runs", "done", "failed"}]
  BY DEF HubInv, Busy
<1> HIDE DEF GrantsInv
<1> QED BY <1>1, <1>2, <1>3, <1>4, <1>5 DEF GrantsTypeOK

\* A request becomes granted only with the folder in the share and in the VM.
LEMMA GrantMade ==
  ASSUME GrantsInv, [GrantsNext]_gvars, NEW g \in Grant,
         gpc[g] # "ok", gpc'[g] = "ok"
  PROVE  /\ bound[gfolder[g]] # "none" /\ view[gfolder[g]] # "none"
         /\ UNCHANGED <<bound, view>>
<1>1. gpc \in [Grant -> {"new", "ok", "failed"} \cup Busy]
  BY DEF GrantsInv, HubInv
<1>2. bound[gfolder[g]] # "none" => view[gfolder[g]] # "none"
  BY DEF GrantsInv, FolderInv, HubInv
<1>3. PICK h \in Grant : Lock(h) \/ ReadAnswer(h)
  BY <1>1 DEF GrantsNext, GrantStep, StartHelper, Shared, TakeGuest, SendMount, NoAnswer,
              Attach, AttachFails, AgentConnects, AgentMounts, AgentStops, GoGrant,
              hub, gvars
<1>4. h = g
  BY <1>1, <1>3 DEF Lock, ReadAnswer, GoGrant
<1>5. CASE Lock(g)
  <2>1. <<gfolder[g], gmode[g]>> \in granted
    BY <1>1, <1>5 DEF Lock, GoGrant
  <2> QED BY <1>2, <1>5, <2>1 DEF GrantsInv, FolderInv, Lock, vm
<1>6. CASE ReadAnswer(g)
  <2>1. answer \in Seq(BOOLEAN)
    BY DEF GrantsInv, AnswerInv
  <2>2. Waits(g) /\ answer # <<>> /\ Head(answer) \in BOOLEAN
    BY <1>6, <2>1, ReadsAnswer
  <2>3. Head(answer) = TRUE
    <3>1. CASE Head(answer) = FALSE
      BY <1>1, <1>6, <3>1 DEF ReadAnswer, GoGrant
    <3> QED BY <2>2, <3>1
  <2>4. bound[gfolder[g]] # "none"
    BY <2>2, <2>3 DEF GrantsInv, AnswerInv
  <2> QED BY <1>2, <1>6, <2>4 DEF ReadAnswer
<1> QED BY <1>3, <1>4, <1>5, <1>6

\* It is there in the mode it was asked for, if nobody asks for another.
LEMMA GrantIsReal ==
  ASSUME GrantsInv, [GrantsNext]_gvars, NEW g \in Grant,
         gpc[g] # "ok", gpc'[g] = "ok", OneMode(gfolder[g])
  PROVE  view'[gfolder[g]] = gmode[g] /\ bound'[gfolder[g]] = gmode[g]
<1>1. /\ bound[gfolder[g]] # "none" /\ view[gfolder[g]] # "none"
      /\ UNCHANGED <<bound, view>>
  BY GrantMade
<1>2. gfolder[g] \in Folder
  BY DEF GrantsInv, HubInv
<1>3. Asked(gfolder[g], bound[gfolder[g]]) /\ Asked(gfolder[g], view[gfolder[g]])
  BY <1>1, <1>2 DEF GrantsInv, FolderInv
<1> QED BY <1>1, <1>3 DEF Asked, OneMode

-----------------------------------------------------------------------------
(* The services beside each other                                          *)

\* Each service takes steps of its own only.
LEMMA ServicesStep ==
  [ServicesNext]_serviceVars
    => [Next]_vars /\ [FidoNext]_fvars /\ [GrantsNext]_gvars /\ [DnsNext]_dvars
<1>1. UNCHANGED serviceVars
        => UNCHANGED vars /\ UNCHANGED fvars /\ UNCHANGED gvars /\ UNCHANGED dvars
  BY DEF serviceVars
<1>2. ServicesNext => [Next]_vars /\ [FidoNext]_fvars /\ [GrantsNext]_gvars /\ [DnsNext]_dvars
  <2> HIDE DEF Next, FidoNext, GrantsNext, DnsNext, vars, fvars, gvars, dvars
  <2>1. UNCHANGED <<fvars, gvars, dvars>>
          => UNCHANGED fvars /\ UNCHANGED gvars /\ UNCHANGED dvars
    OBVIOUS
  <2>2. UNCHANGED <<vars, gvars, dvars>>
          => UNCHANGED vars /\ UNCHANGED gvars /\ UNCHANGED dvars
    OBVIOUS
  <2>3. UNCHANGED <<vars, fvars, dvars>>
          => UNCHANGED vars /\ UNCHANGED fvars /\ UNCHANGED dvars
    OBVIOUS
  <2>4. UNCHANGED <<vars, fvars, gvars>>
          => UNCHANGED vars /\ UNCHANGED fvars /\ UNCHANGED gvars
    OBVIOUS
  <2> QED BY <2>1, <2>2, <2>3, <2>4 DEF ServicesNext
<1> QED BY <1>1, <1>2

LEMMA ServicesStart == ServicesInit => Init /\ FidoInit /\ GrantsInit /\ DnsInit
  BY DEF ServicesInit

\* Whatever any of the services does, all four keep their types; a lock of the
\* hub is held by one request at most, self.nonces stays within its limit, what
\* the virtual key let go of is not its connection, and a unit has open only
\* what a rule of its allows.
THEOREM ServicesTypeCorrect == ServicesSpec => []ServicesTypeOK
<1>1. ServicesInit => TypeInv /\ FidoInv /\ GrantsInv /\ DnsInv
  BY ServicesStart, CtapTypeInit, FidoStart, GrantsStart, DnsStart
<1>2. TypeInv /\ FidoInv /\ GrantsInv /\ DnsInv /\ [ServicesNext]_serviceVars
        => TypeInv' /\ FidoInv' /\ GrantsInv' /\ DnsInv'
  BY ServicesStep, CtapTypeStep, FidoStep, GrantsStep, DnsStep
<1>3. TypeInv /\ FidoInv /\ GrantsInv /\ DnsInv => ServicesTypeOK
  BY GrantsTyped DEF TypeInv, FidoInv, DnsInv, ServicesTypeOK
<1> QED BY <1>1, <1>2, <1>3, PTL DEF ServicesSpec

\* What was proved of the relay holds beside the other services: the sandbox is
\* sent only what is on its own channels.
THEOREM ServicesOwnChannels == ServicesSpec => []OnlyOwnChannels
<1>1. ServicesSpec => Spec
  BY ServicesStart, ServicesStep, PTL DEF ServicesSpec, Spec
<1> QED BY <1>1, OnlyOwnChannelsAlways, PTL

\* And the key is not read once it is closed.
THEOREM ServicesNoReadAfterClose == ServicesSpec => []NoReadAfterClose
<1>1. ServicesSpec => Spec
  BY ServicesStart, ServicesStep, PTL DEF ServicesSpec, Spec
<1> QED BY <1>1, NoReadAfterCloseAlways, PTL

\* A folder that is reported as granted is in the VM's share and bound in the
\* VM, in the mode asked for, whatever late helpers and agents do: for any
\* number of requests and folders, where each folder is asked for in one mode.
THEOREM GrantRealAlways == ServicesSpec => GrantReal
<1> DEFINE A == \A g \in Grant :
                  gpc[g] # "ok" /\ gpc'[g] = "ok" /\ OneMode(gfolder[g])
                  => view'[gfolder[g]] = gmode[g] /\ bound'[gfolder[g]] = gmode[g]
<1>1. ServicesInit => GrantsInv
  BY ServicesStart, GrantsStart
<1>2. GrantsInv /\ [ServicesNext]_serviceVars => GrantsInv'
  BY ServicesStep, GrantsStep
<1>3. GrantsInv /\ [ServicesNext]_serviceVars => [A]_gvars
  <2> SUFFICES ASSUME GrantsInv, [ServicesNext]_serviceVars PROVE A
    OBVIOUS
  <2>1. [GrantsNext]_gvars
    BY ServicesStep
  <2> QED BY <2>1, GrantIsReal
<1> QED BY <1>1, <1>2, <1>3, PTL DEF ServicesSpec, GrantReal

\* And what the allower opens the slice did not deny when it was checked.
THEOREM ServicesStayShut == ServicesSpec => LocalStaysShut
<1>1. ServicesSpec => DnsSpec
  BY ServicesStart, ServicesStep, PTL DEF ServicesSpec, DnsSpec
<1> QED BY <1>1, LocalStaysShutAlways, PTL
=============================================================================
