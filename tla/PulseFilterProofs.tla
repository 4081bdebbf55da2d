-------------------------- MODULE PulseFilterProofs --------------------------
(***************************************************************************)
(* Proofs about PulseFilter, for any tags, requests and indices and any    *)
(* number of packets on their way: the filter's types, and for a client    *)
(* whose commands' tags stay apart (Shares), that only its own streams are *)
(* acted on and that a recording hears what the user was asked about.      *)
(***************************************************************************)
EXTENDS PulseFilter, FiniteSetTheorems, TLAPS

ServerAnswers ==
  [cmd : {"version", "reply", "done", "error", "killed"}, tag : Tag \cup {NoTag},
   kind : Kinds \cup {"none"}, ch : Channel, n : Index, rec : Rec \cup {NoRec}]

Creates == {"playback", "record"}
Line == 1 .. Len(toServer)
Back == 1 .. Len(fromServer)

\* What AudioTypeOK says of the values, with what the client and the two
\* connections hold; and what it says of self.recording.
PulseTypes ==
  /\ pending \in [Tag -> Kinds \cup {"none"}]
  /\ streams \subseteq [kind : Kinds, ch : Channel, index : Index]
  /\ client_routes \in BOOLEAN /\ open \in BOOLEAN /\ shared \in BOOLEAN /\ sroutes \in BOOLEAN
  /\ version \in {"none", "agreed", "wrong"} /\ auth_tag \in Tag \cup {NoTag}
  /\ held \in Packets \cup {NoPacket}
  /\ thread \in [Rec -> Threads]
  /\ kind \in [Rec -> {"none", "mic", "monitor", "device"}]
  /\ request \in [Rec -> RecordFields]
  /\ rtag \in [Rec -> Tag \cup {NoTag}]
  /\ sstreams \subseteq [kind : Kinds, ch : Channel, index : Index, rec : Rec \cup {NoRec}]
  /\ owner \in [Index -> {"nobody", "client", "other"}]
  /\ toServer \in Seq(Packets) /\ fromServer \in Seq(ServerAnswers)
  /\ plan \in Plan

\* A packet for a stream says of which kind it is.
Formed(p) ==
  /\ p.cmd = "playback" => p.kind = "sink-input"
  /\ p.cmd = "record" => p.kind = "source-output" /\ p.rec \in Rec

\* A record request has the tag it came with; only the server's own messages
\* have none.
FormInv ==
  /\ \A r \in Rec : thread[r] # "none" => rtag[r] \in Tag
  /\ \A i \in Line : Formed(toServer[i])
  /\ held # NoPacket => Formed(held) /\ held.cmd # "record"
  /\ \A i \in Back : fromServer[i].cmd = "killed" <=> fromServer[i].tag = NoTag

Undecided == {r \in Rec : thread[r] \notin NoneRuns}

CountInv == recording = Cardinality(Undecided) /\ recording <= PA_MAX_PENDING_RECORDS

Asks(r) == thread[r] \in {"classify", "decide", "forward"}
Waits(t) == t \in Tag /\ pending[t] # "none"

\* What follows holds while the tags of the client's commands stay apart.
\* Nothing with AUTH's tag is taken for anything else.
AuthInv ==
  /\ version # "wrong" /\ ~Waits(auth_tag)
  /\ \A i \in Line : toServer[i].tag = auth_tag => toServer[i].cmd \notin Creates \cup {"plain"}
  /\ \A i \in Back : fromServer[i].tag = auth_tag => fromServer[i].cmd # "reply"
  /\ held # NoPacket /\ held.tag = auth_tag => held.cmd \notin Creates \cup {"plain"}

\* A stream that is asked for waits for its reply from then on, and what has
\* its tag meanwhile is the request for it.
CreateInv ==
  /\ \A r \in Rec : Asks(r) => pending[rtag[r]] = "source-output"
  /\ \A i \in Line : IF toServer[i].cmd \in Creates
                     THEN pending[toServer[i].tag] = toServer[i].kind
                     ELSE ~Waits(toServer[i].tag)
  /\ held # NoPacket => IF held.cmd \in Creates THEN pending[held.tag] = held.kind
                        ELSE ~Waits(held.tag)

\* ... or the answer to it, in one place.
OnceInv ==
  /\ \A i, j \in Line : toServer[i].tag = toServer[j].tag /\ Waits(toServer[i].tag) => i = j
  /\ \A i, j \in Back : fromServer[i].tag = fromServer[j].tag /\ Waits(fromServer[i].tag) => i = j
  /\ \A i \in Line, j \in Back : toServer[i].tag = fromServer[j].tag => ~Waits(toServer[i].tag)
  /\ held # NoPacket /\ Waits(held.tag) =>
       /\ \A i \in Line : toServer[i].tag # held.tag
       /\ \A i \in Back : fromServer[i].tag # held.tag
  /\ \A r \in Rec : Asks(r) =>
       /\ \A i \in Line : toServer[i].tag # rtag[r]
       /\ \A i \in Back : fromServer[i].tag # rtag[r]
       /\ held # NoPacket => held.tag # rtag[r]
       /\ \A q \in Rec : Asks(q) /\ rtag[q] = rtag[r] => q = r

\* An index the client may act on is one of its own.
OwnInv ==
  /\ \A st \in streams : owner[st.index] = "client"
  /\ \A i \in Line : toServer[i].cmd = "own" => toServer[i].n \in Index /\ owner[toServer[i].n] = "client"
  /\ held # NoPacket /\ held.cmd = "own" => held.n \in Index /\ owner[held.n] = "client"
  /\ \A i \in Back : fromServer[i].cmd = "reply" /\ Waits(fromServer[i].tag)
       => owner[fromServer[i].n] = "client"

\* A stream of the server's that the filter doesn't have, or not any longer:
\* its reply is on its way, or its deletion is.
Ends(a, st) == a.cmd = "killed" /\ a.kind = st.kind /\ a.ch = st.ch
Deletes(p, st) == p.cmd = "delete" /\ p.kind = st.kind /\ p.n = st.ch
ComesBy(i, st) ==
  /\ fromServer[i].cmd = "reply" /\ fromServer[i].ch = st.ch
  /\ Waits(fromServer[i].tag) /\ pending[fromServer[i].tag] = st.kind
  /\ \A j \in Back : j > i => ~Ends(fromServer[j], st)
Coming(st) == \E i \in Back : ComesBy(i, st)
Known(st) ==
  /\ \E own \in streams : own.kind = st.kind /\ own.ch = st.ch
  /\ \A j \in Back : ~Ends(fromServer[j], st)
Going(st) == Deletes(held, st) \/ \E i \in Line : Deletes(toServer[i], st)

FollowInv ==
  /\ \A st, other \in sstreams : st.kind = other.kind /\ st.ch = other.ch => st = other
  /\ open => \A st \in sstreams : Coming(st) \/ Known(st) \/ Going(st)

\* Classified as what it hears while the client's properties route nothing.
Clean(r) == kind[r] \notin {"none", "monitor"}
CleanStreams == {st \in sstreams : st.kind = "source-output" /\ Clean(st.rec)}

KindInv ==
  /\ \A r \in Rec : kind[r] = "none" <=> thread[r] \in {"none", "busy", "classify"}
  /\ \A r \in Rec : Clean(r) => kind[r] = Hears(request[r], FALSE)
  /\ \A i \in Line : toServer[i].cmd = "record" => thread[toServer[i].rec] \in {"end", "ended"}
  /\ \A st \in sstreams : st.kind = "source-output" =>
       st.rec \in Rec /\ thread[st.rec] \in {"end", "ended"}

\* Properties that route take effect behind the end of every recording that
\* was classified without them.
RouteInv ==
  /\ sroutes \/ held.cmd = "routes" => client_routes
  /\ \A i \in Line : toServer[i].cmd = "routes" => client_routes
  /\ client_routes =>
       /\ \A r \in Rec : Clean(r) => thread[r] = "ended"
       /\ \A i \in Line : toServer[i].cmd = "record" => ~Clean(toServer[i].rec)
  /\ sroutes => CleanStreams = {}
  /\ held.cmd = "routes" => \A st \in CleanStreams : \E i \in Line : Deletes(toServer[i], st)
  /\ \A j \in Line : toServer[j].cmd = "routes" =>
       \A st \in CleanStreams : \E i \in 1 .. j - 1 : Deletes(toServer[i], st)

-----------------------------------------------------------------------------
(* Queues                                                                  *)

LEMMA Put ==
  ASSUME NEW S, NEW q \in Seq(S), NEW e \in S
  PROVE  /\ Append(q, e) \in Seq(S) /\ Len(Append(q, e)) = Len(q) + 1 /\ Len(q) \in Nat
         /\ \A i \in 1 .. Len(q) : Append(q, e)[i] = q[i]
         /\ Append(q, e)[Len(q) + 1] = e
  OBVIOUS

LEMMA Take ==
  ASSUME NEW S, NEW q \in Seq(S), q # <<>>
  PROVE  /\ Tail(q) \in Seq(S) /\ Len(q) > 0 /\ Len(Tail(q)) = Len(q) - 1 /\ Len(q) \in Nat
         /\ \A i \in 1 .. Len(q) - 1 : Tail(q)[i] = q[i + 1]
         /\ Head(q) = q[1] /\ Head(q) \in S
  OBVIOUS

LEMMA Elements ==
  ASSUME PulseTypes
  PROVE  /\ \A i \in Line : toServer[i] \in Packets /\ toServer[i].tag \in Tag
         /\ \A i \in Back : fromServer[i] \in ServerAnswers /\ fromServer[i].n \in Index
         /\ held # NoPacket => held \in Packets /\ held.tag \in Tag
         /\ NoTag \notin Tag /\ DOMAIN toServer = Line /\ DOMAIN fromServer = Back
<1>1. \A i \in Line : toServer[i] \in Packets
  BY DEF PulseTypes, Line
<1>2. \A i \in Back : fromServer[i] \in ServerAnswers
  BY DEF PulseTypes, Back
<1>3. held # NoPacket => held \in Packets
  BY DEF PulseTypes
<1>4. DOMAIN toServer = Line /\ DOMAIN fromServer = Back
  BY DEF PulseTypes, Line, Back
<1>5. (\A p \in Packets : p.tag \in Tag) /\ \A a \in ServerAnswers : a.n \in Index
  BY DEF Packets, ServerAnswers
<1> QED BY <1>1, <1>2, <1>3, <1>4, <1>5, PulseAssumption

-----------------------------------------------------------------------------
(* What a step does                                                        *)

\* What the filter does not do by itself, but for the connection's end.
Others == <<sstreams, sroutes, owner>>

\* from_client takes a packet and is about to forward p.
Holds(p) ==
  /\ open /\ held = NoPacket /\ held' = p /\ p \in Packets
  /\ Formed(p) /\ p.cmd # "record" /\ ~Waits(p.tag)
  /\ shared' = (shared \/ Shares(p.cmd, p.tag))
  /\ UNCHANGED <<recording, version, records, open, toServer, fromServer, Others>>
  /\ \/ /\ p.cmd = "playback"
        /\ pending' = [pending EXCEPT ![p.tag] = "sink-input"]
        /\ UNCHANGED <<streams, client_routes, auth_tag>>
     \/ /\ p.cmd = "auth" /\ auth_tag' = p.tag
        /\ UNCHANGED <<pending, streams, client_routes>>
     \/ /\ p.cmd = "delete"
        /\ streams' = {st \in streams : ~(st.kind = p.kind /\ st.ch = p.n)}
        /\ UNCHANGED <<pending, client_routes, auth_tag>>
     \/ /\ p.cmd = "routes" /\ ~Recording /\ client_routes' = TRUE
        /\ UNCHANGED <<pending, streams, auth_tag>>
     \/ /\ p.cmd = "own" /\ \E st \in streams : st.index = p.n
        /\ UNCHANGED <<pending, streams, client_routes, auth_tag>>
     \/ /\ p.cmd = "plain"
        /\ UNCHANGED <<pending, streams, client_routes, auth_tag>>

\* A record request comes in ...
Comes(r, t, begin) ==
  /\ t \in Tag /\ thread[r] = "none"
  /\ thread' = [thread EXCEPT ![r] = begin]
  /\ rtag' = [rtag EXCEPT ![r] = t]
  /\ \E req \in RecordFields : request' = [request EXCEPT ![r] = req]
  /\ UNCHANGED <<streams, client_routes, auth_tag, version, held, kind, open,
                 toServer, fromServer, Others>>

\* ... and is taken on, or refused at once.
Adds(r, t) ==
  /\ Comes(r, t, "classify") /\ open /\ held = NoPacket /\ ~Waits(t)
  /\ recording < PA_MAX_PENDING_RECORDS /\ recording' = recording + 1
  /\ pending' = [pending EXCEPT ![t] = "source-output"]
  /\ shared' = (shared \/ Shares("record", t))

TurnsAway(r, t) ==
  /\ Comes(r, t, "busy")
  /\ UNCHANGED <<recording, pending, shared>>

\* A packet goes on to the server.
Passes(p) ==
  /\ p \in Packets
  /\ IF open THEN toServer' = Append(toServer, p) ELSE toServer' = toServer
  /\ UNCHANGED <<open, fromServer>>

\* from_client forwards what it holds.
Releases ==
  /\ held # NoPacket /\ held' = NoPacket /\ Passes(held)
  /\ UNCHANGED <<recording, pending, streams, client_routes, auth_tag, version, shared,
                 records, Others>>

\* from_server takes a packet.
Gets(q) ==
  /\ fromServer # <<>> /\ q = fromServer[1] /\ q \in ServerAnswers
  /\ fromServer' = Tail(fromServer)
  /\ UNCHANGED <<recording, client_routes, auth_tag, held, records, open, shared, toServer, Others>>
  /\ \/ /\ q.tag = auth_tag /\ q.cmd # "killed" /\ UNCHANGED <<pending, streams>>
        /\ version' \in {version, "agreed"} \/ (q.cmd = "reply" /\ version' = "wrong")
     \/ /\ q.cmd = "killed" /\ UNCHANGED <<pending, version>>
        /\ streams' = {st \in streams : ~(st.kind = q.kind /\ st.ch = q.ch)}
     \/ /\ q.cmd # "killed" /\ UNCHANGED version
        /\ pending' = [pending EXCEPT ![q.tag] = "none"]
        /\ IF pending[q.tag] # "none" /\ q.cmd = "reply"
           THEN streams' = {st \in streams : ~(st.kind = pending[q.tag] /\ st.ch = q.ch)}
                             \cup {[kind |-> pending[q.tag], ch |-> q.ch, index |-> q.n]}
           ELSE UNCHANGED streams

Got ==
  /\ Len(fromServer) \in Nat /\ Line' = Line /\ Back' = 1 .. Len(fromServer) - 1 /\ 1 \in Back
  /\ \A i \in Back' : fromServer'[i] = fromServer[i + 1] /\ i + 1 \in Back /\ i \in Int /\ i + 1 # 1
  /\ \A i \in Back : i # 1 => i - 1 \in Back' /\ fromServer'[i - 1] = fromServer[i]

\* The server answers a packet with a.
Serves(a) ==
  /\ a \in ServerAnswers /\ a.cmd # "killed" /\ a.tag = toServer[1].tag
  /\ UNCHANGED <<recording, pending, streams, client_routes, auth_tag, version, held, records,
                 open, shared>>
  /\ \/ /\ toServer[1].cmd \in Creates /\ a.cmd = "error"
        /\ UNCHANGED Others
     \/ /\ toServer[1].cmd \in Creates /\ a.cmd = "reply" /\ UNCHANGED sroutes
        /\ owner[a.n] = "nobody" /\ owner' = [owner EXCEPT ![a.n] = "client"]
        /\ \A st \in sstreams : st.kind = toServer[1].kind => st.ch # a.ch
        /\ sstreams' = sstreams \cup {[kind |-> toServer[1].kind, ch |-> a.ch, index |-> a.n,
                                       rec |-> toServer[1].rec]}
     \/ /\ toServer[1].cmd = "delete" /\ a.cmd = "done" /\ UNCHANGED <<sroutes, owner>>
        /\ sstreams' = {st \in sstreams : ~(st.kind = toServer[1].kind /\ st.ch = toServer[1].n)}
     \/ /\ toServer[1].cmd = "routes" /\ a.cmd = "done"
        /\ sroutes' = TRUE /\ UNCHANGED <<sstreams, owner>>
     \/ /\ toServer[1].cmd \in {"auth", "own"} /\ a.cmd # "reply"
        /\ UNCHANGED Others
     \/ toServer[1].cmd = "plain" /\ UNCHANGED Others

Served(a) ==
  /\ Len(toServer) \in Nat /\ Line' = 1 .. Len(toServer) - 1 /\ 1 \in Line
  /\ \A i \in Line' : toServer'[i] = toServer[i + 1] /\ i + 1 \in Line /\ i \in Int /\ i + 1 # 1
  /\ \A i \in Line : i # 1 => i - 1 \in Line' /\ toServer'[i - 1] = toServer[i]
  /\ toServer' \in Seq(Packets) /\ fromServer' \in Seq(ServerAnswers)
  /\ Len(fromServer) \in Nat /\ Back' = 1 .. Len(fromServer) + 1
  /\ \A i \in Back : fromServer'[i] = fromServer[i] /\ i \in Back' /\ i < Len(fromServer) + 1
  /\ fromServer'[Len(fromServer) + 1] = a

\* The server ends st.
Kills(st) ==
  /\ sstreams' = sstreams \ {st}
  /\ UNCHANGED <<recording, pending, streams, client_routes, auth_tag, version, held, records,
                 open, shared, toServer, sroutes, owner>>
  /\ fromServer' \in Seq(ServerAnswers)
  /\ Len(fromServer) \in Nat /\ Back' = 1 .. Len(fromServer) + 1 /\ Line' = Line
  /\ \A i \in Back : fromServer'[i] = fromServer[i] /\ i \in Back' /\ i < Len(fromServer) + 1
  /\ LET a == fromServer'[Len(fromServer) + 1]
     IN  a.cmd = "killed" /\ a.kind = st.kind /\ a.ch = st.ch /\ a.tag = NoTag

\* The steps that change nothing of what follows.
Quiet ==
  /\ open' \in BOOLEAN
  /\ open' => open
  /\ UNCHANGED <<recording, pending, streams, client_routes, auth_tag, version, held, records,
                 shared, toServer, fromServer, Others>>

LEMMA ClientDoes ==
  ASSUME PulseTypes, recording \in Nat, ClientPacket
  PROVE  \/ \E p \in Packets : Holds(p)
         \/ \E r \in Rec, t \in Tag : Adds(r, t) \/ TurnsAway(r, t)
         \/ Quiet
<1> USE DEF Sends, Reads, Forward, Others, server
<1>1. \A cmd \in Commands \ {"never"}, t \in Tag, k \in Kinds \cup {"none"}, n \in Nat :
        LET p == Packet(cmd, t, k, n, NoRec)
        IN  p \in Packets /\ p.cmd = cmd /\ p.tag = t /\ p.kind = k /\ p.n = n
  BY DEF Packet, Packets
<1>2. /\ {"auth", "playback", "delete", "own", "routes", "plain"} \subseteq Commands \ {"never"}
      /\ "sink-input" \in Kinds /\ Channel \subseteq Nat /\ Index \subseteq Nat /\ 0 \in Nat
  BY DEF Commands, Kinds, Channel, Index
<1>3. ASSUME NEW t \in Tag, ~Reused(t) PROVE ~Waits(t)
  BY <1>3 DEF Reused, Waits
<1>4. ASSUME Refused PROVE Quiet
  BY <1>4 DEF Refused, filter, Quiet, PulseTypes
<1>5. PICK t \in Tag :
        \/ \E cmd \in Commands : TagInUse(cmd, t)
        \/ Auth(t) \/ CreatePlayback(t) \/ ClientRoutes(t) \/ NeverForwarded(t) \/ Plain(t)
        \/ \E r \in Rec, req \in plan.requests : CreateRecord(r, t, req)
        \/ \E k \in Kinds, ch \in Channel : Delete(t, k, ch)
        \/ \E k \in Kinds, i \in Index : OnStream(t, k, i)
  BY DEF ClientPacket
<1>6. CASE NeverForwarded(t) \/ \E cmd \in Commands : TagInUse(cmd, t)
  BY <1>4, <1>6 DEF NeverForwarded, TagInUse
<1>7. CASE Auth(t)
  <2> DEFINE p == Packet("auth", t, "none", 0, NoRec)
  <2>1. p \in Packets /\ p.cmd = "auth" /\ p.tag = t
    BY <1>1, <1>2
  <2>2. ~Waits(t) /\ Forward("auth", t, "none", 0) /\ held' = p
    BY <1>3, <1>7 DEF Auth
  <2> HIDE DEF p
  <2> QED BY <1>7, <2>1, <2>2 DEF Auth, Holds, Formed
<1>8. CASE CreatePlayback(t)
  <2> DEFINE p == Packet("playback", t, "sink-input", 0, NoRec)
  <2>1. p \in Packets /\ p.cmd = "playback" /\ p.tag = t /\ p.kind = "sink-input"
    BY <1>1, <1>2
  <2>2. ~Waits(t) /\ Forward("playback", t, "sink-input", 0) /\ held' = p
    BY <1>3, <1>8 DEF CreatePlayback
  <2> HIDE DEF p
  <2> QED BY <1>8, <2>1, <2>2 DEF CreatePlayback, Holds, Formed
<1>9. CASE ClientRoutes(t)
  <2>1. CASE Recording
    BY <1>4, <1>9, <2>1 DEF ClientRoutes
  <2>2. CASE ~Recording
    <3> DEFINE p == Packet("routes", t, "none", 0, NoRec)
    <3>1. p \in Packets /\ p.cmd = "routes" /\ p.tag = t
      BY <1>1, <1>2
    <3>2. ~Waits(t) /\ Forward("routes", t, "none", 0) /\ held' = p
          /\ client_routes' = TRUE /\ UNCHANGED <<pending, streams, auth_tag>>
      BY <1>3, <1>9, <2>2 DEF ClientRoutes
    <3> HIDE DEF p
    <3> QED BY <1>9, <2>2, <3>1, <3>2 DEF ClientRoutes, Holds, Formed
  <2> QED BY <2>1, <2>2
<1>10. CASE Plain(t)
  <2> DEFINE p == Packet("plain", t, "none", 0, NoRec)
  <2>1. p \in Packets /\ p.cmd = "plain" /\ p.tag = t
    BY <1>1, <1>2
  <2>2. ~Waits(t) /\ Forward("plain", t, "none", 0) /\ held' = p
    BY <1>3, <1>10 DEF Plain
  <2> HIDE DEF p
  <2> QED BY <1>10, <2>1, <2>2 DEF Plain, Holds, Formed
<1>11. ASSUME NEW r \in Rec, NEW req \in plan.requests, CreateRecord(r, t, req)
       PROVE  Adds(r, t) \/ TurnsAway(r, t)
  <2>1. req \in RecordFields
    BY PulseAssumption DEF PulseTypes
  <2>2. ASSUME NEW begin, NewRecord(r, t, req, begin),
               UNCHANGED <<streams, client_routes, auth_tag, version, held, kind, open,
                           toServer, fromServer, server>>
        PROVE  Comes(r, t, begin)
    BY <2>1, <2>2 DEF NewRecord, Comes
  <2>3. CASE recording >= PA_MAX_PENDING_RECORDS
    BY <1>11, <2>2, <2>3 DEF CreateRecord, TurnsAway
  <2>4. CASE ~(recording >= PA_MAX_PENDING_RECORDS)
    <3>1. recording < PA_MAX_PENDING_RECORDS
      BY <2>4, PulseAssumption
    <3>2. Comes(r, t, "classify")
      BY <1>11, <2>2, <2>4 DEF CreateRecord
    <3> QED BY <1>3, <1>11, <2>4, <3>1, <3>2 DEF CreateRecord, Adds
  <2> QED BY <2>3, <2>4
<1>12. ASSUME NEW k \in Kinds, NEW ch \in Channel, Delete(t, k, ch) PROVE \E p \in Packets : Holds(p)
  <2> DEFINE p == Packet("delete", t, k, ch, NoRec)
  <2>1. p \in Packets /\ p.cmd = "delete" /\ p.tag = t /\ p.kind = k /\ p.n = ch
    BY <1>1, <1>2
  <2>2. ~Waits(t) /\ Forward("delete", t, k, ch) /\ held' = p
    BY <1>3, <1>12 DEF Delete
  <2> HIDE DEF p
  <2> QED BY <1>12, <2>1, <2>2 DEF Delete, Holds, Formed
<1>13. ASSUME NEW k \in Kinds, NEW i \in Index, OnStream(t, k, i)
       PROVE  Quiet \/ \E p \in Packets : Holds(p)
  <2>1. CASE ~Owns(k, i)
    BY <1>4, <1>13, <2>1 DEF OnStream
  <2>2. CASE Owns(k, i)
    <3> DEFINE p == Packet("own", t, k, i, NoRec)
    <3>1. p \in Packets /\ p.cmd = "own" /\ p.tag = t /\ p.n = i
      BY <1>1, <1>2
    <3>2. ~Waits(t) /\ Forward("own", t, k, i) /\ held' = p
          /\ UNCHANGED <<pending, streams, client_routes, auth_tag>>
      BY <1>3, <1>13, <2>2 DEF OnStream
    <3>3. \E st \in streams : st.index = i
      BY <2>2 DEF Owns
    <3> HIDE DEF p
    <3> QED BY <1>13, <3>1, <3>2, <3>3 DEF OnStream, Holds, Formed
  <2> QED BY <2>1, <2>2
<1> QED BY <1>5, <1>6, <1>7, <1>8, <1>9, <1>10, <1>11, <1>12, <1>13

LEMMA PassesDoes ==
  ASSUME PulseTypes, NEW p, Passes(p), open
  PROVE  /\ Len(toServer) \in Nat /\ Line' = 1 .. Len(toServer) + 1 /\ Back' = Back
         /\ \A i \in Line : toServer'[i] = toServer[i] /\ i \in Line' /\ i < Len(toServer) + 1
         /\ toServer'[Len(toServer) + 1] = p /\ toServer' \in Seq(Packets)
         /\ \A i \in Line' : i \in Line \/ i = Len(toServer) + 1
<1>1. p \in Packets /\ toServer' = Append(toServer, p) /\ UNCHANGED fromServer
  BY DEF Passes
<1>2. /\ Len(toServer') = Len(toServer) + 1 /\ \A i \in 1 .. Len(toServer) : toServer'[i] = toServer[i]
      /\ toServer'[Len(toServer) + 1] = p /\ Len(toServer) \in Nat /\ toServer' \in Seq(Packets)
  BY <1>1, Put DEF PulseTypes
<1> QED BY <1>1, <1>2 DEF Line, Back

LEMMA ReleasesDoes == PulseTypes /\ ForwardHeld => Releases
  BY DEF ForwardHeld, Releases, Passes, PulseTypes, client, server, Others

LEMMA GetsDoes ==
  ASSUME PulseTypes, FromServerStep
  PROVE  Gets(fromServer[1]) /\ Got
<1> DEFINE p == Head(fromServer)
<1>1. /\ fromServer # <<>> /\ fromServer' = Tail(fromServer)
      /\ UNCHANGED <<recording, client_routes, auth_tag, held, records, open, shared, toServer, Others>>
  BY DEF FromServerStep, AuthReply, Reply, Killed, Receives, server, Others
<1>2. /\ Len(fromServer) > 0 /\ Len(Tail(fromServer)) = Len(fromServer) - 1 /\ Len(fromServer) \in Nat
      /\ \A i \in 1 .. Len(fromServer) - 1 : Tail(fromServer)[i] = fromServer[i + 1]
      /\ p = fromServer[1] /\ p \in ServerAnswers
  BY <1>1, Take DEF PulseTypes
<1> HIDE DEF p
<1>3. Gets(p)
  <2>1. CASE AuthReply
    <3>1. /\ p.cmd \in Replies /\ p.tag = auth_tag /\ UNCHANGED <<pending, streams>>
          /\ version' = CASE p.cmd = "version" -> "agreed"
                          [] p.cmd = "reply" -> "wrong"
                          [] OTHER -> version
      BY <2>1 DEF AuthReply, p
    <3> QED BY <1>1, <1>2, <3>1 DEF Gets, Replies
  <2>2. CASE Killed
    <3>1. p.cmd = "killed" /\ streams' = {st \in streams : ~(st.kind = p.kind /\ st.ch = p.ch)}
          /\ UNCHANGED <<pending, version>>
      BY <2>2 DEF Killed, p
    <3> QED BY <1>1, <1>2, <3>1 DEF Gets
  <2>3. CASE Reply
    <3>1. /\ p.cmd \in Replies \cup {"error"} /\ UNCHANGED version
          /\ pending' = [pending EXCEPT ![p.tag] = "none"]
          /\ streams' = IF pending[p.tag] # "none" /\ p.cmd = "reply"
                        THEN {st \in streams : ~(st.kind = pending[p.tag] /\ st.ch = p.ch)}
                               \cup {[kind |-> pending[p.tag], ch |-> p.ch, index |-> p.n]}
                        ELSE streams
      BY <2>3 DEF Reply, p
    <3> QED BY <1>1, <1>2, <3>1 DEF Gets, Replies
  <2> QED BY <2>1, <2>2, <2>3 DEF FromServerStep
<1>4. Got
  BY <1>1, <1>2 DEF Got, Line, Back
<1> QED BY <1>2, <1>3, <1>4

LEMMA ServesDoes ==
  ASSUME PulseTypes, ServerStep
  PROVE  \E a \in ServerAnswers : Serves(a) /\ Served(a)
<1> DEFINE p == Head(toServer)
<1> USE DEF Others
<1>1. /\ toServer # <<>> /\ toServer' = Tail(toServer)
      /\ UNCHANGED <<recording, pending, streams, client_routes, auth_tag, version, held, records,
                     open, shared>>
  BY DEF ServerStep, ServerAuth, ServerCreates, ServerDeletes, ServerRoutes, ServerActs, ServerReplies,
         Takes, filter, client
<1>2. /\ Len(toServer) > 0 /\ Len(Tail(toServer)) = Len(toServer) - 1 /\ Tail(toServer) \in Seq(Packets)
      /\ Len(toServer) \in Nat /\ \A i \in 1 .. Len(toServer) - 1 : Tail(toServer)[i] = toServer[i + 1]
      /\ p = toServer[1] /\ p \in Packets
  BY <1>1, Take DEF PulseTypes
<1>3. p.tag \in Tag /\ p.rec \in Rec \cup {NoRec} /\ 0 \in Index /\ 0 \in Channel /\ Other = 0
  BY <1>2, PulseAssumption DEF Packets, Index, Channel, Other
<1>4. ASSUME NEW cmd \in {"version", "reply", "done", "error"}, NEW ch \in Channel, NEW n \in Index,
             Responds(cmd, ch, n)
      PROVE  \E a \in ServerAnswers :
               /\ a.cmd = cmd /\ a.tag = p.tag /\ a.ch = ch /\ a.n = n /\ a.cmd # "killed"
               /\ Served(a)
  <2> DEFINE a == Response(cmd, p.tag, "none", ch, n, p.rec)
  <2>1. a \in ServerAnswers /\ a.cmd = cmd /\ a.tag = p.tag /\ a.ch = ch /\ a.n = n
    BY <1>3 DEF Response, ServerAnswers
  <2>2. fromServer' = Append(fromServer, a)
    BY <1>4 DEF Responds
  <2> HIDE DEF a
  <2>3. Served(a)
    BY <1>1, <1>2, <2>1, <2>2, Put DEF Served, Line, Back, PulseTypes
  <2> QED BY <2>1, <2>3
<1>5. ASSUME NEW C, C \subseteq {"version", "reply", "done", "error"},
             \E cmd \in C : Responds(cmd, 0, Other),
             \A a \in ServerAnswers : a.cmd \in C /\ a.cmd # "killed" /\ a.tag = p.tag => Serves(a)
      PROVE  \E a \in ServerAnswers : Serves(a) /\ Served(a)
  BY <1>3, <1>4, <1>5
<1> HIDE DEF p
<1>6. CASE ServerAuth
  <2>1. p.cmd = "auth" /\ \E cmd \in {"version", "error"} : Responds(cmd, 0, Other)
    BY <1>6 DEF ServerAuth, Takes, p
  <2>2. UNCHANGED Others
    BY <1>6 DEF ServerAuth, server
  <2>3. \A a \in ServerAnswers : a.cmd \in {"version", "error"} /\ a.cmd # "killed" /\ a.tag = p.tag => Serves(a)
    BY <1>1, <1>2, <2>1, <2>2 DEF Serves
  <2> QED BY <1>5, <2>1, <2>3
<1>7. CASE ServerActs
  <2>1. p.cmd = "own" /\ \E cmd \in {"done"} : Responds(cmd, 0, Other)
    BY <1>7 DEF ServerActs, Takes, p
  <2>2. UNCHANGED Others
    BY <1>7 DEF ServerActs, server
  <2>3. \A a \in ServerAnswers : a.cmd \in {"done"} /\ a.cmd # "killed" /\ a.tag = p.tag => Serves(a)
    BY <1>1, <1>2, <2>1, <2>2 DEF Serves
  <2> QED BY <1>5, <2>1, <2>3
<1>8. CASE ServerReplies
  <2>1. p.cmd = "plain" /\ \E cmd \in {"reply", "error"} : Responds(cmd, 0, Other)
    BY <1>8 DEF ServerReplies, Takes, p
  <2>2. UNCHANGED Others
    BY <1>8 DEF ServerReplies, server
  <2>3. \A a \in ServerAnswers : a.cmd \in {"reply", "error"} /\ a.cmd # "killed" /\ a.tag = p.tag => Serves(a)
    BY <1>1, <1>2, <2>1, <2>2 DEF Serves
  <2> QED BY <1>5, <2>1, <2>3
<1>9. CASE ServerRoutes
  <2>1. p.cmd = "routes" /\ \E cmd \in {"done"} : Responds(cmd, 0, Other)
    BY <1>9 DEF ServerRoutes, Takes, p
  <2>2. sroutes' = TRUE /\ UNCHANGED <<sstreams, owner>>
    BY <1>9 DEF ServerRoutes
  <2>3. \A a \in ServerAnswers : a.cmd \in {"done"} /\ a.cmd # "killed" /\ a.tag = p.tag => Serves(a)
    BY <1>1, <1>2, <2>1, <2>2 DEF Serves
  <2> QED BY <1>5, <2>1, <2>3
<1>10. CASE ServerDeletes
  <2>1. p.cmd = "delete" /\ \E cmd \in {"done"} : Responds(cmd, 0, Other)
    BY <1>10 DEF ServerDeletes, Takes, p
  <2>2. sstreams' = {st \in sstreams : ~(st.kind = p.kind /\ st.ch = p.n)} /\ UNCHANGED <<sroutes, owner>>
    BY <1>10 DEF ServerDeletes, p
  <2>3. \A a \in ServerAnswers : a.cmd \in {"done"} /\ a.cmd # "killed" /\ a.tag = p.tag => Serves(a)
    BY <1>1, <1>2, <2>1, <2>2 DEF Serves
  <2> QED BY <1>5, <2>1, <2>3
<1>11. CASE ServerCreates
  <2>1. p.cmd \in Creates /\ UNCHANGED sroutes
    BY <1>11 DEF ServerCreates, Takes, p, Creates
  <2>2. CASE Responds("error", 0, Other) /\ UNCHANGED <<sstreams, owner>>
    <3>1. \A a \in ServerAnswers : a.cmd \in {"error"} /\ a.cmd # "killed" /\ a.tag = p.tag => Serves(a)
      BY <1>1, <1>2, <2>1, <2>2 DEF Serves
    <3> QED BY <1>5, <2>2, <3>1
  <2>3. ASSUME NEW i \in Index, NEW ch \in Channel,
               owner[i] = "nobody", owner' = [owner EXCEPT ![i] = "client"],
               \A st \in sstreams : st.kind = p.kind => st.ch # ch,
               sstreams' = sstreams \cup {[kind |-> p.kind, ch |-> ch, index |-> i, rec |-> p.rec]},
               Responds("reply", ch, i)
        PROVE  \E a \in ServerAnswers : Serves(a) /\ Served(a)
    <3>1. PICK a \in ServerAnswers : /\ a.cmd = "reply" /\ a.tag = p.tag /\ a.ch = ch /\ a.n = i
                                     /\ a.cmd # "killed" /\ Served(a)
      BY <1>4, <2>3
    <3>2. Serves(a)
      BY <1>1, <1>2, <2>1, <2>3, <3>1 DEF Serves
    <3> QED BY <3>1, <3>2
  <2> QED BY <1>11, <2>2, <2>3 DEF ServerCreates, p
<1> QED BY <1>6, <1>7, <1>8, <1>9, <1>10, <1>11 DEF ServerStep

LEMMA KillsDoes ==
  ASSUME PulseTypes, NEW st \in sstreams, ServerKills(st)
  PROVE  Kills(st)
<1> DEFINE a == Response("killed", NoTag, st.kind, st.ch, 0, NoRec)
<1>1. st.kind \in Kinds /\ st.ch \in Channel /\ 0 \in Index
  BY PulseAssumption DEF Index, PulseTypes
<1>2. a \in ServerAnswers /\ a.cmd = "killed" /\ a.kind = st.kind /\ a.ch = st.ch /\ a.tag = NoTag
  BY <1>1 DEF ServerAnswers, Response
<1>3. fromServer' = Append(fromServer, a)
  BY DEF ServerKills
<1> HIDE DEF a
<1>4. /\ Len(fromServer) \in Nat /\ Back' = 1 .. Len(fromServer) + 1
      /\ \A i \in Back : fromServer'[i] = fromServer[i] /\ i \in Back' /\ i < Len(fromServer) + 1
      /\ fromServer'[Len(fromServer) + 1] = a /\ fromServer' \in Seq(ServerAnswers)
  BY <1>2, <1>3, Put DEF Back, PulseTypes
<1> QED BY <1>2, <1>4 DEF ServerKills, Kills, filter, client, Line

LEMMA Steps ==
  ASSUME PulseTypes, recording \in Nat, [AudioNext]_avars
  PROVE  \/ \E p \in Packets : Holds(p)
         \/ \E r \in Rec, t \in Tag : Adds(r, t) \/ TurnsAway(r, t)
         \/ Releases
         \/ \E r \in Rec : RecordStep(r)
         \/ FromServerStep
         \/ \E a \in ServerAnswers : Serves(a) /\ Served(a)
         \/ \E st \in sstreams : Kills(st)
         \/ Quiet
<1>1. CASE HangUp \/ UNCHANGED avars
  BY <1>1 DEF HangUp, avars, filter, client, server, Quiet, Others, PulseTypes
<1> QED BY <1>1, ClientDoes, ReleasesDoes, ServesDoes, KillsDoes DEF AudioNext

-----------------------------------------------------------------------------
(* Types                                                                   *)

LEMMA PlanKept == [AudioNext]_avars => UNCHANGED plan
<1> SUFFICES ASSUME [AudioNext]_avars PROVE UNCHANGED plan
  OBVIOUS
<1> USE DEF client
<1>1. CASE ClientPacket
  BY <1>1 DEF ClientPacket, TagInUse, Auth, CreatePlayback, ClientRoutes, NeverForwarded, Plain,
              CreateRecord, Delete, OnStream, Reads, Sends
<1>2. CASE ServerStep
  BY <1>2 DEF ServerStep, ServerAuth, ServerCreates, ServerDeletes, ServerRoutes, ServerActs,
              ServerReplies, Takes
<1>3. CASE \E r \in Rec : RecordStep(r)
  BY <1>3 DEF RecordStep, Classify, Decide, Refuse, ForwardRecord, SendError, EndRecord, Move
<1>4. CASE FromServerStep
  BY <1>4 DEF FromServerStep, AuthReply, Reply, Killed, Receives
<1> QED BY <1>1, <1>2, <1>3, <1>4 DEF AudioNext, ForwardHeld, ServerKills, HangUp, avars

Moved(r, from, to) == thread[r] = from /\ thread' = [thread EXCEPT ![r] = to]

LEMMA UndecidedCount ==
  ASSUME PulseTypes, CountInv
  PROVE  /\ recording \in Nat
         /\ recording = 0 => \A r \in Rec : thread[r] \in NoneRuns
         /\ \A r \in Rec : Moved(r, "none", "classify") => Cardinality(Undecided') = recording + 1
         /\ \A r \in Rec : Moved(r, "none", "busy") => Cardinality(Undecided') = recording
         /\ \A r \in Rec : Moved(r, "end", "ended") => Cardinality(Undecided') = recording - 1
         /\ \A r \in Rec, from, to \in Threads \ NoneRuns :
              Moved(r, from, to) => Cardinality(Undecided') = recording
         /\ UNCHANGED thread => Cardinality(Undecided') = recording
<1> USE DEF Threads, NoneRuns
<1>1. IsFiniteSet(Undecided) /\ recording = Cardinality(Undecided)
  <2>1. IsFiniteSet(Rec)
    BY PulseAssumption, FS_Interval DEF Rec
  <2> QED BY <2>1, FS_Subset DEF CountInv, Undecided
<1>2. recording \in Nat
  BY <1>1, FS_CardinalityType
<1>3. ASSUME recording = 0 PROVE \A r \in Rec : thread[r] \in NoneRuns
  <2>1. Undecided = {}
    BY <1>1, <1>3, FS_EmptySet
  <2> QED BY <2>1 DEF Undecided
<1>4. ASSUME NEW r \in Rec, Moved(r, "none", "classify")
      PROVE  Cardinality(Undecided') = recording + 1
  <2>1. Undecided' = Undecided \cup {r} /\ r \notin Undecided
    BY <1>4 DEF Moved, Undecided, PulseTypes
  <2> QED BY <1>1, <2>1, FS_AddElement
<1>5. ASSUME NEW r \in Rec, Moved(r, "end", "ended")
      PROVE  Cardinality(Undecided') = recording - 1
  <2>1. Undecided' = Undecided \ {r} /\ r \in Undecided
    BY <1>5 DEF Moved, Undecided, PulseTypes
  <2> QED BY <1>1, <2>1, FS_RemoveElement
<1>6. ASSUME NEW r \in Rec, NEW from \in Threads \ NoneRuns, NEW to \in Threads \ NoneRuns,
             Moved(r, from, to)
      PROVE  Cardinality(Undecided') = recording
  <2>1. Undecided' = Undecided
    BY <1>6 DEF Moved, Undecided, PulseTypes
  <2> QED BY <1>1, <2>1
<1>7. ASSUME NEW r \in Rec, Moved(r, "none", "busy") PROVE Cardinality(Undecided') = recording
  <2>1. Undecided' = Undecided
    BY <1>7 DEF Moved, Undecided, PulseTypes
  <2> QED BY <1>1, <2>1
<1>8. UNCHANGED thread => Cardinality(Undecided') = recording
  BY <1>1 DEF Undecided
<1> QED BY <1>2, <1>3, <1>4, <1>5, <1>6, <1>7, <1>8

LEMMA TypesStart == AudioInit => PulseTypes /\ FormInv /\ CountInv
<1> SUFFICES ASSUME AudioInit PROVE PulseTypes /\ FormInv /\ CountInv
  OBVIOUS
<1> USE PulseAssumption DEF AudioInit
<1>1. Undecided = {}
  BY DEF Undecided, NoneRuns
<1>2. CountInv
  BY <1>1, FS_EmptySet DEF CountInv
<1>3. FormInv
  BY DEF FormInv, Line, Back
<1>4. /\ pending \in [Tag -> Kinds \cup {"none"}] /\ held \in Packets \cup {NoPacket}
      /\ owner \in [Index -> {"nobody", "client", "other"}]
      /\ toServer \in Seq(Packets) /\ fromServer \in Seq(ServerAnswers)
  OBVIOUS
<1>5. /\ thread \in [Rec -> Threads] /\ request \in [Rec -> RecordFields]
      /\ rtag \in [Rec -> Tag \cup {NoTag}]
      /\ kind \in [Rec -> {"none", "mic", "monitor", "device"}]
  BY DEF Threads, NoRequest, RecordFields, Names
<1>6. /\ streams \subseteq [kind : Kinds, ch : Channel, index : Index]
      /\ sstreams \subseteq [kind : Kinds, ch : Channel, index : Index, rec : Rec \cup {NoRec}]
  OBVIOUS
<1> QED BY <1>2, <1>3, <1>4, <1>5, <1>6 DEF PulseTypes

LEMMA HoldsTypes == ASSUME PulseTypes, NEW p \in Packets, Holds(p), UNCHANGED plan PROVE PulseTypes'
<1>1. p.tag \in Tag /\ shared' \in BOOLEAN
  BY DEF Holds, Packets, PulseTypes
<1>2. pending' \in [Tag -> Kinds \cup {"none"}]
  BY <1>1 DEF Holds, PulseTypes, Kinds
<1>3. streams' \subseteq streams /\ client_routes' \in BOOLEAN /\ auth_tag' \in Tag \cup {NoTag}
  BY <1>1 DEF Holds, PulseTypes
<1> QED BY <1>1, <1>2, <1>3 DEF Holds, records, Others, PulseTypes

LEMMA ComesTypes ==
  ASSUME PulseTypes, NEW r \in Rec, NEW t \in Tag, Adds(r, t) \/ TurnsAway(r, t), UNCHANGED plan
  PROVE  PulseTypes'
<1>1. /\ pending' \in [Tag -> Kinds \cup {"none"}] /\ shared' \in BOOLEAN
      /\ held' = held
  BY DEF Adds, TurnsAway, Comes, PulseTypes, Kinds
<1>2. thread' \in [Rec -> Threads]
  BY DEF Adds, TurnsAway, Comes, PulseTypes, Threads
<1>3. rtag' \in [Rec -> Tag \cup {NoTag}] /\ request' \in [Rec -> RecordFields]
  <2>1. rtag' = [rtag EXCEPT ![r] = t] /\ \E req \in RecordFields : request' = [request EXCEPT ![r] = req]
    BY DEF Adds, TurnsAway, Comes
  <2> QED BY <2>1 DEF PulseTypes
<1>4. UNCHANGED <<streams, client_routes, auth_tag, version, held, kind, open,
                  toServer, fromServer, Others>>
  BY DEF Adds, TurnsAway, Comes
<1> QED BY <1>1, <1>2, <1>3, <1>4 DEF Others, PulseTypes

LEMMA ThreadTypes ==
  ASSUME PulseTypes, FormInv, NEW r \in Rec, RecordStep(r), UNCHANGED plan
  PROVE  PulseTypes'
<1> USE DEF Move, server, Threads
<1>1. thread' \in [Rec -> Threads] /\ rtag[r] \in Tag
  BY DEF RecordStep, Classify, Decide, Refuse, ForwardRecord, SendError, EndRecord, PulseTypes, FormInv
<1>2. pending' \in [Tag -> Kinds \cup {"none"}]
  BY <1>1 DEF RecordStep, Classify, Decide, Refuse, ForwardRecord, SendError, EndRecord, PulseTypes
<1>3. kind' \in [Rec -> {"none", "mic", "monitor", "device"}]
  <2>1. CASE Classify(r)
    <3>1. RecordKind(request[r], version = "agreed", client_routes) \in {"mic", "monitor", "device"}
      BY DEF RecordKind
    <3>2. PICK k \in {"mic", "monitor", "device"} : kind' = [kind EXCEPT ![r] = k]
      BY <2>1, <3>1 DEF Classify
    <3> QED BY <3>2 DEF PulseTypes
  <2>2. CASE ~Classify(r)
    BY <2>2 DEF RecordStep, Decide, Refuse, ForwardRecord, SendError, EndRecord, PulseTypes
  <2> QED BY <2>1, <2>2
<1>4. toServer' \in Seq(Packets)
  <2>1. CASE ForwardRecord(r)
    <3>1. Packet("record", rtag[r], "source-output", 0, r) \in Packets
      BY <1>1 DEF Packet, Packets, Kinds, Commands
    <3> QED BY <2>1, <3>1, Put DEF ForwardRecord, PulseTypes
  <2>2. CASE ~ForwardRecord(r)
    BY <2>2 DEF RecordStep, Classify, Decide, Refuse, SendError, EndRecord, PulseTypes
  <2> QED BY <2>1, <2>2
<1>5. UNCHANGED <<request, rtag, streams, client_routes, auth_tag, version, held, open,
                  shared, fromServer, server>>
  BY DEF RecordStep, Classify, Decide, Refuse, ForwardRecord, SendError, EndRecord
<1> QED BY <1>1, <1>2, <1>3, <1>4, <1>5 DEF PulseTypes

LEMMA GetsTypes ==
  ASSUME PulseTypes, NEW q, Gets(q), UNCHANGED plan,
         q.cmd # "killed" => q.tag \in Tag
  PROVE  PulseTypes'
<1>1. fromServer' \in Seq(ServerAnswers) /\ q.ch \in Channel /\ q.n \in Index
  BY Take DEF Gets, PulseTypes, ServerAnswers
<1>2. pending' \in [Tag -> Kinds \cup {"none"}]
  BY DEF Gets, PulseTypes
<1>3. streams' \subseteq [kind : Kinds, ch : Channel, index : Index]
  <2>1. CASE streams' \subseteq streams
    BY <2>1 DEF PulseTypes
  <2>2. CASE ~(streams' \subseteq streams)
    <3> DEFINE k == pending[q.tag]
    <3>1. /\ q.cmd # "killed" /\ k # "none"
          /\ streams' = {st \in streams : ~(st.kind = k /\ st.ch = q.ch)}
                          \cup {[kind |-> k, ch |-> q.ch, index |-> q.n]}
      BY <2>2 DEF Gets
    <3>2. k \in Kinds
      BY <3>1 DEF PulseTypes
    <3> HIDE DEF k
    <3> QED BY <1>1, <3>1, <3>2 DEF PulseTypes
  <2> QED BY <2>1, <2>2
<1>4. version' \in {"none", "agreed", "wrong"}
  BY DEF Gets, PulseTypes
<1> QED BY <1>1, <1>2, <1>3, <1>4 DEF Gets, records, Others, PulseTypes

LEMMA ServesTypes ==
  ASSUME PulseTypes, FormInv, NEW a \in ServerAnswers, Serves(a), Served(a), UNCHANGED plan
  PROVE  PulseTypes'
<1>1. toServer[1] \in Packets /\ Formed(toServer[1]) /\ 1 \in Line
  BY Elements DEF Served, FormInv
<1>2. sroutes' \in BOOLEAN /\ owner' \in [Index -> {"nobody", "client", "other"}]
  BY DEF Serves, Others, PulseTypes
<1>3. sstreams' \subseteq [kind : Kinds, ch : Channel, index : Index, rec : Rec \cup {NoRec}]
  <2>1. CASE sstreams' \subseteq sstreams
    BY <2>1 DEF PulseTypes
  <2>2. CASE ~(sstreams' \subseteq sstreams)
    <3> DEFINE p == toServer[1]
    <3>1. /\ p.cmd \in Creates
          /\ sstreams' = sstreams \cup {[kind |-> p.kind, ch |-> a.ch, index |-> a.n, rec |-> p.rec]}
      BY <2>2 DEF Serves, Others
    <3>2. p.kind \in Kinds /\ p.rec \in Rec \cup {NoRec} /\ a.ch \in Channel /\ a.n \in Index
      BY <1>1, <3>1 DEF Formed, Creates, Kinds, Packets, ServerAnswers
    <3> HIDE DEF p
    <3> QED BY <3>1, <3>2 DEF PulseTypes
  <2> QED BY <2>1, <2>2
<1> QED BY <1>2, <1>3 DEF Serves, Served, records, PulseTypes

LEMMA TypesStep == ASSUME PulseTypes, FormInv, CountInv, [AudioNext]_avars PROVE PulseTypes'
<1>1. recording \in Nat /\ UNCHANGED plan
  BY UndecidedCount, PlanKept
<1>2. CASE Releases
  <2>1. toServer' \in Seq(Packets)
    <3>1. CASE open
      BY <1>2, <3>1, PassesDoes DEF Releases
    <3>2. CASE ~open
      BY <1>2, <3>2 DEF Releases, Passes, PulseTypes
    <3> QED BY <3>1, <3>2
  <2> QED BY <1>1, <1>2, <2>1 DEF Releases, Passes, records, Others, PulseTypes
<1>3. CASE FromServerStep
  <2>1. Gets(fromServer[1]) /\ 1 \in Back
    BY <1>3, GetsDoes DEF Got
  <2>2. fromServer[1].cmd # "killed" => fromServer[1].tag \in Tag
    BY <2>1, Elements DEF FormInv, ServerAnswers
  <2> QED BY <1>1, <2>1, <2>2, GetsTypes
<1>4. ASSUME NEW st \in sstreams, Kills(st) PROVE PulseTypes'
  BY <1>1, <1>4 DEF Kills, records, PulseTypes
<1>5. CASE Quiet
  <2>1. /\ open' \in BOOLEAN
        /\ UNCHANGED <<pending, streams, client_routes, auth_tag, version, held, thread, kind, request,
                       rtag, shared, toServer, fromServer, sstreams, sroutes, owner, plan>>
    BY <1>1, <1>5 DEF Quiet, records, Others
  <2> QED BY <2>1 DEF PulseTypes
<1> QED BY <1>1, <1>2, <1>3, <1>4, <1>5, Steps, HoldsTypes, ComesTypes, ThreadTypes, ServesTypes

LEMMA FormStep == ASSUME PulseTypes, FormInv, CountInv, [AudioNext]_avars PROVE FormInv'
<1>1. recording \in Nat
  BY UndecidedCount
<1>2. ASSUME NEW p \in Packets, Holds(p) PROVE FormInv'
  BY <1>2 DEF Holds, records, FormInv, Line, Back
<1>3. ASSUME NEW r \in Rec, NEW t \in Tag, Adds(r, t) \/ TurnsAway(r, t) PROVE FormInv'
  <2>1. UNCHANGED <<held, toServer, fromServer>>
    BY <1>3 DEF Adds, TurnsAway, Comes
  <2>2. \A q \in Rec : thread'[q] # "none" => rtag'[q] \in Tag
    BY <1>3 DEF Adds, TurnsAway, Comes, FormInv, PulseTypes
  <2> QED BY <2>1, <2>2 DEF FormInv, Line, Back
<1>4. ASSUME NEW p, Passes(p), Formed(p),
             held' \in {held, NoPacket}, \A q \in Rec : thread'[q] # "none" => rtag'[q] \in Tag
      PROVE  FormInv'
  <2>1. CASE open
    BY <1>4, <2>1, PassesDoes DEF FormInv, Passes, Back
  <2>2. CASE ~open
    BY <1>4, <2>2 DEF FormInv, Passes, Back, Line
  <2> QED BY <2>1, <2>2
<1>5. CASE Releases
  <2>1. UNCHANGED <<thread, rtag>> /\ held' = NoPacket /\ Formed(held) /\ Passes(held)
    BY <1>5 DEF Releases, FormInv, records
  <2> QED BY <1>4, <2>1 DEF FormInv
<1>6. ASSUME NEW r \in Rec, RecordStep(r) PROVE FormInv'
  <2> USE DEF Move
  <2>1. /\ UNCHANGED <<rtag, held, fromServer, open>> /\ thread[r] # "none"
        /\ \A q \in Rec : q # r => thread'[q] = thread[q]
    BY <1>6 DEF RecordStep, Classify, Decide, Refuse, ForwardRecord, SendError, EndRecord, PulseTypes
  <2>2. \A q \in Rec : thread'[q] # "none" => rtag'[q] \in Tag
    BY <2>1 DEF FormInv
  <2>3. CASE ForwardRecord(r)
    <3> DEFINE p == Packet("record", rtag[r], "source-output", 0, r)
    <3>1. p \in Packets /\ Formed(p)
      BY <2>1 DEF Packet, Packets, Kinds, Commands, FormInv, Formed
    <3>2. Passes(p)
      BY <2>1, <2>3, <3>1 DEF ForwardRecord, Passes
    <3> QED BY <1>4, <2>1, <2>2, <3>1, <3>2
  <2>4. CASE ~ForwardRecord(r)
    <3>1. UNCHANGED toServer
      BY <1>6, <2>4 DEF RecordStep, Classify, Decide, Refuse, SendError, EndRecord
    <3> QED BY <2>1, <2>2, <3>1 DEF FormInv, Line, Back
  <2> QED BY <2>3, <2>4
<1>7. CASE FromServerStep
  <2>1. Gets(fromServer[1]) /\ Got
    BY <1>7, GetsDoes
  <2> QED BY <2>1 DEF Gets, Got, FormInv, records
<1>8. ASSUME NEW a \in ServerAnswers, Serves(a), Served(a) PROVE FormInv'
  <2>1. a.tag \in Tag /\ a.tag # NoTag /\ a.cmd # "killed"
    BY <1>8, Elements DEF Serves, Served
  <2>2. \A i \in Back' : i \in Back \/ i = Len(fromServer) + 1
    BY <1>8 DEF Served, Back
  <2>3. ASSUME NEW i \in Back'
        PROVE  fromServer'[i].cmd = "killed" <=> fromServer'[i].tag = NoTag
    <3>1. CASE i \in Back
      <4>1. fromServer'[i] = fromServer[i]
        BY <1>8, <3>1 DEF Served
      <4> QED BY <3>1, <4>1 DEF FormInv
    <3>2. CASE i = Len(fromServer) + 1
      <4>1. fromServer'[i] = a
        BY <1>8, <3>2 DEF Served
      <4> QED BY <2>1, <4>1
    <3> QED BY <2>2, <3>1, <3>2
  <2>4. /\ UNCHANGED <<thread, rtag, held>>
        /\ \A i \in Line' : toServer'[i] = toServer[i + 1] /\ i + 1 \in Line
    BY <1>8 DEF Serves, Served, records
  <2> QED BY <2>3, <2>4 DEF FormInv
<1>9. ASSUME NEW st \in sstreams, Kills(st) PROVE FormInv'
  <2>1. \A i \in Back' : i \in Back \/ i = Len(fromServer) + 1
    BY <1>9 DEF Kills, Back
  <2>2. \A i \in Back' : fromServer'[i].cmd = "killed" <=> fromServer'[i].tag = NoTag
    BY <1>9, <2>1 DEF Kills, FormInv
  <2> QED BY <1>9, <2>2 DEF Kills, FormInv, records
<1>10. CASE Quiet
  BY <1>10 DEF Quiet, FormInv, records, Line, Back
<1> QED BY <1>1, <1>2, <1>3, <1>5, <1>6, <1>7, <1>8, <1>9, <1>10, Steps

LEMMA CountStep == ASSUME PulseTypes, CountInv, [AudioNext]_avars PROVE CountInv'
<1> USE DEF Threads, NoneRuns
<1>1. recording \in Nat /\ recording <= PA_MAX_PENDING_RECORDS /\ PA_MAX_PENDING_RECORDS \in Nat
  BY UndecidedCount, PulseAssumption DEF CountInv
<1>2. CASE UNCHANGED <<recording, thread>>
  BY <1>1, <1>2, UndecidedCount DEF CountInv
<1>3. ASSUME NEW r \in Rec, NEW t \in Tag, Adds(r, t) PROVE CountInv'
  <2>1. Moved(r, "none", "classify") /\ recording' = recording + 1 /\ recording < PA_MAX_PENDING_RECORDS
    BY <1>3 DEF Adds, Comes, Moved
  <2>2. Cardinality(Undecided') = recording + 1
    BY <2>1, UndecidedCount
  <2> QED BY <1>1, <2>1, <2>2 DEF CountInv
<1>4. ASSUME NEW r \in Rec, NEW t \in Tag, TurnsAway(r, t) PROVE CountInv'
  <2>1. Moved(r, "none", "busy") /\ recording' = recording
    BY <1>4 DEF TurnsAway, Comes, Moved
  <2> QED BY <1>1, <2>1, UndecidedCount DEF CountInv
<1>5. ASSUME NEW r \in Rec, RecordStep(r) PROVE CountInv'
  <2> USE DEF Move
  <2>1. CASE EndRecord(r)
    <3>1. Moved(r, "end", "ended") /\ recording' = recording - 1
      BY <2>1 DEF EndRecord, Moved
    <3>2. Cardinality(Undecided') = recording - 1
      BY <3>1, UndecidedCount
    <3> QED BY <1>1, <3>1, <3>2 DEF CountInv
  <2>2. CASE ~EndRecord(r)
    <3>1. UNCHANGED recording
          /\ \E from, to \in {"classify", "decide", "forward", "error", "end"} : Moved(r, from, to)
      BY <1>5, <2>2 DEF RecordStep, Classify, Decide, Refuse, ForwardRecord, SendError, Moved
    <3>2. Cardinality(Undecided') = recording
      BY <3>1, UndecidedCount
    <3> QED BY <1>1, <3>1, <3>2 DEF CountInv
  <2> QED BY <2>1, <2>2
<1>6. CASE FromServerStep
  BY <1>2, <1>6, GetsDoes DEF Gets, records
<1> QED BY <1>1, <1>2, <1>3, <1>4, <1>5, <1>6, Steps
     DEF Holds, Releases, Serves, Kills, Quiet, records

-----------------------------------------------------------------------------
(* Tags and indices                                                        *)

PendInv == AuthInv /\ CreateInv /\ OnceInv /\ OwnInv

\* A creation that isn't answered waits.
LEMMA CreatesWait ==
  ASSUME PulseTypes, FormInv, CreateInv
  PROVE  /\ \A r \in Rec : Asks(r) => Waits(rtag[r]) /\ rtag[r] \in Tag
         /\ \A i \in Line : toServer[i].cmd \in Creates => Waits(toServer[i].tag)
         /\ held # NoPacket /\ held.cmd \in Creates => Waits(held.tag)
<1>1. \A i \in Line : Formed(toServer[i]) /\ toServer[i].tag \in Tag
  BY Elements DEF FormInv
<1>2. held # NoPacket => Formed(held) /\ held.tag \in Tag
  BY Elements DEF FormInv
<1> QED BY <1>1, <1>2 DEF CreateInv, FormInv, Asks, Waits, Formed, Creates

LEMMA HoldsPend ==
  ASSUME PulseTypes, FormInv, PendInv, ~shared', NEW p \in Packets, Holds(p)
  PROVE  PendInv'
<1>1. /\ held' = p /\ held = NoPacket /\ ~Waits(p.tag) /\ p.tag \in Tag /\ Line' = Line /\ Back' = Back
      /\ UNCHANGED <<thread, rtag, version, toServer, fromServer, owner>>
      /\ Formed(p) /\ p.cmd # "record" /\ streams' \subseteq streams
  BY DEF Holds, Line, Back, Packets, records, Others
<1>2. p.cmd \in {"playback", "auth"} =>
        /\ \A i \in Line : toServer[i].tag # p.tag
        /\ \A i \in Back : fromServer[i].tag # p.tag
  BY Elements DEF Holds, Shares, Unanswered
<1>3. p.cmd \in {"playback", "plain"} => p.tag # auth_tag
  BY DEF Holds, Shares
<1>4. p.cmd # "auth" => UNCHANGED auth_tag
  BY DEF Holds
<1>5. p.cmd = "auth" => auth_tag' = p.tag /\ UNCHANGED pending
  BY DEF Holds
<1>6. \A t : Waits(t)' <=> Waits(t) \/ (p.cmd = "playback" /\ t = p.tag)
  BY <1>1 DEF Holds, Waits, PulseTypes
<1>7. \A t \in Tag : IF p.cmd = "playback" /\ t = p.tag THEN pending'[t] = "sink-input"
                     ELSE pending'[t] = pending[t]
  BY DEF Holds, PulseTypes
<1>8. \A r \in Rec : Asks(r) => Waits(rtag[r]) /\ rtag[r] \in Tag
  BY CreatesWait DEF PendInv
<1>9. AuthInv'
  <2>1. CASE p.cmd = "auth"
    BY <1>1, <1>2, <1>5, <1>6, <2>1 DEF PendInv, AuthInv, Creates
  <2>2. CASE p.cmd # "auth"
    BY <1>1, <1>3, <1>4, <1>6, <2>2 DEF PendInv, AuthInv, Creates
  <2> QED BY <2>1, <2>2
<1>10. CreateInv'
  <2>1. \A i \in Line : IF toServer[i].cmd \in Creates THEN pending'[toServer[i].tag] = toServer[i].kind
                        ELSE ~Waits(toServer[i].tag)'
    BY <1>1, <1>2, <1>6, <1>7, Elements DEF PendInv, CreateInv
  <2>2. IF p.cmd \in Creates THEN pending'[p.tag] = p.kind ELSE ~Waits(p.tag)'
    BY <1>1, <1>6, <1>7 DEF Formed, Creates
  <2> QED BY <1>1, <1>7, <1>8, <2>1, <2>2 DEF PendInv, CreateInv, Asks
<1>11. OnceInv'
  BY <1>1, <1>2, <1>6, <1>8 DEF PendInv, OnceInv, Asks, Waits
<1>12. OwnInv'
  <2>1. p.cmd = "own" => p.n \in Index /\ owner[p.n] = "client"
    BY <1>1 DEF Holds, PendInv, OwnInv, PulseTypes
  <2> QED BY <1>1, <1>2, <1>6, <2>1 DEF PendInv, OwnInv
<1> QED BY <1>9, <1>10, <1>11, <1>12 DEF PendInv

LEMMA AddsPend ==
  ASSUME PulseTypes, FormInv, PendInv, ~shared', NEW r \in Rec, NEW t \in Tag, Adds(r, t)
  PROVE  PendInv'
<1>1. /\ held' = NoPacket /\ Line' = Line /\ Back' = Back /\ ~Waits(t)
      /\ UNCHANGED <<streams, auth_tag, version, toServer, fromServer, owner>>
  BY DEF Adds, Comes, Line, Back, Others
<1>2. /\ t # auth_tag
      /\ \A i \in Line : toServer[i].tag # t
      /\ \A i \in Back : fromServer[i].tag # t
  BY Elements DEF Adds, Shares, Unanswered
<1>3. /\ \A q \in Rec : q # r => thread'[q] = thread[q] /\ rtag'[q] = rtag[q]
      /\ rtag'[r] = t /\ thread'[r] = "classify"
      /\ \A u \in Tag : IF u = t THEN pending'[u] = "source-output" ELSE pending'[u] = pending[u]
  BY DEF Adds, Comes, PulseTypes
<1>4. \A u : Waits(u)' <=> Waits(u) \/ u = t
  BY <1>3 DEF Waits
<1>5. \A q \in Rec : Asks(q) => Waits(rtag[q]) /\ rtag[q] \in Tag
  BY CreatesWait DEF PendInv
<1>6. \A q \in Rec : q # r => (Asks(q)' <=> Asks(q))
  BY <1>3 DEF Asks
<1>7. AuthInv'
  BY <1>1, <1>2, <1>4 DEF PendInv, AuthInv
<1>8. CreateInv'
  BY <1>1, <1>2, <1>3, <1>4, <1>5, <1>6, Elements DEF PendInv, CreateInv
<1>9. OnceInv'
  <2>1. \A q \in Rec : Asks(q)' =>
          /\ \A i \in Line : toServer[i].tag # rtag'[q]
          /\ \A i \in Back : fromServer[i].tag # rtag'[q]
          /\ \A s \in Rec : Asks(s)' /\ rtag'[s] = rtag'[q] => s = q
    <3> SUFFICES ASSUME NEW q \in Rec, Asks(q)'
                 PROVE  /\ \A i \in Line : toServer[i].tag # rtag'[q]
                        /\ \A i \in Back : fromServer[i].tag # rtag'[q]
                        /\ \A s \in Rec : Asks(s)' /\ rtag'[s] = rtag'[q] => s = q
      OBVIOUS
    <3>1. CASE q = r
      BY <1>1, <1>2, <1>3, <1>5, <1>6, <3>1
    <3>2. CASE q # r
      BY <1>1, <1>3, <1>5, <1>6, <3>2 DEF PendInv, OnceInv
    <3> QED BY <3>1, <3>2
  <2> QED BY <1>1, <1>2, <1>4, <2>1 DEF PendInv, OnceInv
<1>10. OwnInv'
  BY <1>1, <1>2, <1>4 DEF PendInv, OwnInv
<1> QED BY <1>7, <1>8, <1>9, <1>10 DEF PendInv

\* The step keeps what PendInv speaks of, and no request asks that didn't.
LEMMA SamePend ==
  ASSUME PulseTypes, FormInv, PendInv,
         UNCHANGED <<pending, streams, auth_tag, version, held, toServer, fromServer, owner>>,
         \A q \in Rec : Asks(q)' => Asks(q) /\ rtag'[q] = rtag[q]
  PROVE  PendInv'
<1>1. Line' = Line /\ Back' = Back /\ \A t : Waits(t)' <=> Waits(t)
  BY DEF Line, Back, Waits
<1>2. AuthInv' /\ CreateInv' /\ OnceInv' /\ OwnInv'
  BY <1>1 DEF PendInv, AuthInv, CreateInv, OnceInv, OwnInv
<1> QED BY <1>2 DEF PendInv

LEMMA ReleasesPend ==
  ASSUME PulseTypes, FormInv, PendInv, Releases
  PROVE  PendInv'
<1>1. /\ held # NoPacket /\ held' = NoPacket
      /\ UNCHANGED <<pending, streams, auth_tag, version, thread, rtag, fromServer, owner>>
      /\ \A t : Waits(t)' <=> Waits(t)
      /\ \A q \in Rec : Asks(q)' <=> Asks(q)
  BY DEF Releases, Passes, records, Others, Waits, Asks
<1>2. CASE ~open
  <2>1. Line' = Line /\ Back' = Back /\ toServer' = toServer
    BY <1>2 DEF Releases, Passes, Line, Back
  <2>2. AuthInv' /\ CreateInv' /\ OnceInv' /\ OwnInv'
    BY <1>1, <2>1 DEF PendInv, AuthInv, CreateInv, OnceInv, OwnInv
  <2> QED BY <2>2 DEF PendInv
<1>3. CASE open
  <2> DEFINE n == Len(toServer) + 1
  <2>1. /\ Back' = Back /\ \A i \in Line : toServer'[i] = toServer[i] /\ i \in Line'
        /\ toServer'[n] = held /\ n \in Line' /\ \A i \in Line' : i \in Line \/ i = n
    BY <1>3, PassesDoes DEF Releases
  <2> HIDE DEF n
  <2>2. AuthInv'
    BY <1>1, <2>1 DEF PendInv, AuthInv
  <2>3. CreateInv'
    BY <1>1, <2>1 DEF PendInv, CreateInv
  <2>4. OnceInv'
    BY <1>1, <2>1 DEF PendInv, OnceInv
  <2>5. OwnInv'
    BY <1>1, <2>1 DEF PendInv, OwnInv
  <2> QED BY <2>2, <2>3, <2>4, <2>5 DEF PendInv
<1> QED BY <1>2, <1>3

LEMMA RefusePend ==
  ASSUME PulseTypes, FormInv, PendInv, NEW r \in Rec, Refuse(r)
  PROVE  PendInv'
<1> DEFINE t == rtag[r]
<1>1. /\ Line' = Line /\ Back' = Back /\ Asks(r)
      /\ UNCHANGED <<streams, auth_tag, version, held, rtag, toServer, fromServer, owner>>
  BY DEF Refuse, Move, server, Line, Back, Asks
<1>2. t \in Tag /\ Waits(t)
  BY <1>1, CreatesWait DEF PendInv
<1>3. /\ \A q \in Rec : Asks(q)' <=> Asks(q) /\ q # r
      /\ \A u \in Tag : u # t => pending'[u] = pending[u]
      /\ pending'[t] = "none"
  BY <1>2 DEF Refuse, Move, PulseTypes, Asks
<1> HIDE DEF t
<1>4. \A u : Waits(u)' <=> Waits(u) /\ u # t
  BY <1>3 DEF Waits
<1>5. /\ \A i \in Line : toServer[i].tag # t
      /\ \A i \in Back : fromServer[i].tag # t
      /\ held # NoPacket => held.tag # t
      /\ \A q \in Rec : Asks(q) /\ q # r => rtag[q] # t
  BY <1>1 DEF PendInv, OnceInv, t
<1>6. \A q \in Rec : Asks(q) => rtag[q] \in Tag
  BY CreatesWait DEF PendInv
<1>7. AuthInv'
  BY <1>1, <1>4 DEF PendInv, AuthInv
<1>8. CreateInv'
  <2>1. \A q \in Rec : Asks(q)' => pending'[rtag'[q]] = "source-output"
    BY <1>1, <1>3, <1>5, <1>6 DEF PendInv, CreateInv
  <2>2. \A i \in Line : IF toServer[i].cmd \in Creates
                        THEN pending'[toServer[i].tag] = toServer[i].kind
                        ELSE ~Waits(toServer[i].tag)'
    BY <1>1, <1>3, <1>4, <1>5, Elements DEF PendInv, CreateInv
  <2>3. held # NoPacket => IF held.cmd \in Creates THEN pending'[held.tag] = held.kind
                           ELSE ~Waits(held.tag)'
    BY <1>1, <1>3, <1>4, <1>5, Elements DEF PendInv, CreateInv
  <2> QED BY <1>1, <2>1, <2>2, <2>3 DEF CreateInv
<1>9. OnceInv'
  BY <1>1, <1>3, <1>4 DEF PendInv, OnceInv
<1>10. OwnInv'
  BY <1>1, <1>4 DEF PendInv, OwnInv
<1> QED BY <1>7, <1>8, <1>9, <1>10 DEF PendInv

LEMMA ThreadPend ==
  ASSUME PulseTypes, FormInv, PendInv, NEW r \in Rec, RecordStep(r)
  PROVE  PendInv'
<1> USE DEF Move, server
<1>1. CASE Classify(r) \/ Decide(r) \/ SendError(r) \/ EndRecord(r)
  <2>1. UNCHANGED <<pending, streams, auth_tag, version, held, toServer, fromServer, owner>>
    BY <1>1 DEF Classify, Decide, SendError, EndRecord
  <2>2. \A q \in Rec : Asks(q)' => Asks(q) /\ rtag'[q] = rtag[q]
    BY <1>1 DEF Classify, Decide, SendError, EndRecord, Asks, PulseTypes
  <2> QED BY <2>1, <2>2, SamePend
<1>2. CASE ForwardRecord(r)
  <2> DEFINE p == Packet("record", rtag[r], "source-output", 0, r)
  <2>1. /\ Asks(r) /\ UNCHANGED <<pending, streams, auth_tag, version, held, rtag, open, fromServer, owner>>
        /\ \A t : Waits(t)' <=> Waits(t)
        /\ \A q \in Rec : Asks(q)' <=> Asks(q) /\ q # r
    BY <1>2 DEF ForwardRecord, Asks, Waits, PulseTypes
  <2>2. Waits(rtag[r]) /\ rtag[r] \in Tag /\ pending[rtag[r]] = "source-output"
    BY <2>1, CreatesWait DEF PendInv, CreateInv
  <2>3. /\ p \in Packets /\ p.cmd = "record" /\ p.tag = rtag[r] /\ p.kind = "source-output"
        /\ p.cmd \in Creates
    BY <2>2 DEF Packet, Packets, Kinds, Commands, Creates
  <2>4. toServer' = IF open THEN Append(toServer, p) ELSE toServer
    BY <1>2 DEF ForwardRecord
  <2> HIDE DEF p
  <2>5. CASE ~open
    BY <2>1, <2>4, <2>5, SamePend
  <2>6. CASE open
    <3> DEFINE n == Len(toServer) + 1
    <3>1. Passes(p)
      BY <2>1, <2>3, <2>4 DEF Passes
    <3>2. /\ Back' = Back /\ \A i \in Line : toServer'[i] = toServer[i] /\ i \in Line'
          /\ toServer'[n] = p /\ n \in Line' /\ \A i \in Line' : i \in Line \/ i = n
      BY <2>6, <3>1, PassesDoes
    <3> HIDE DEF n
    <3>3. /\ \A i \in Line : toServer[i].tag # rtag[r]
          /\ \A i \in Back : fromServer[i].tag # rtag[r]
          /\ held # NoPacket => held.tag # rtag[r]
          /\ \A q \in Rec : Asks(q) /\ rtag[q] = rtag[r] => q = r
      BY <2>1 DEF PendInv, OnceInv
    <3>4. AuthInv'
      BY <2>1, <2>2, <2>3, <3>2 DEF PendInv, AuthInv
    <3>5. CreateInv'
      BY <2>1, <2>2, <2>3, <3>2 DEF PendInv, CreateInv
    <3>6. OnceInv'
      BY <2>1, <2>2, <2>3, <3>2, <3>3 DEF PendInv, OnceInv
    <3>7. OwnInv'
      BY <2>1, <2>3, <3>2 DEF PendInv, OwnInv
    <3> QED BY <3>4, <3>5, <3>6, <3>7 DEF PendInv
  <2> QED BY <2>5, <2>6
<1> QED BY <1>1, <1>2, RefusePend DEF RecordStep

LEMMA GetsPend ==
  ASSUME PulseTypes, FormInv, PendInv, FromServerStep
  PROVE  PendInv'
<1> DEFINE q == fromServer[1]
<1>1. Gets(q) /\ Got
  BY GetsDoes
<1>2. /\ q.cmd = "killed" <=> q.tag = NoTag
      /\ q.cmd # "killed" => q.tag \in Tag
      /\ q.n \in Index
  BY <1>1, Elements DEF Got, FormInv, Gets, ServerAnswers
<1>3. q.cmd = "reply" /\ Waits(q.tag) => owner[q.n] = "client"
  BY <1>1 DEF Got, PendInv, OwnInv
<1>4. q.tag = auth_tag => q.cmd # "reply"
  BY <1>1 DEF Got, PendInv, AuthInv
<1>5. Waits(q.tag) =>
        /\ \A i \in Line : toServer[i].tag # q.tag
        /\ held # NoPacket => held.tag # q.tag
        /\ \A i \in Back : i # 1 => fromServer[i].tag # q.tag
  BY <1>1 DEF Got, PendInv, OnceInv
<1>6. \A r \in Rec : Asks(r) => rtag[r] # q.tag
  BY <1>1 DEF Got, PendInv, OnceInv
<1> HIDE DEF q
<1>7. /\ UNCHANGED <<auth_tag, held, thread, rtag, toServer, owner>> /\ Line' = Line
      /\ \A i \in Back' : i + 1 \in Back /\ fromServer'[i] = fromServer[i + 1] /\ i \in Int /\ i + 1 # 1
  BY <1>1 DEF Gets, Got, records, Others
<1>8. \A t \in Tag : pending'[t] = pending[t] \/ (t = q.tag /\ pending'[t] = "none")
  BY <1>1, <1>2 DEF Gets, PulseTypes
<1>9. \A t : Waits(t)' => Waits(t)
  BY <1>8 DEF Waits
<1>10. \A r \in Rec : Asks(r)' <=> Asks(r)
  BY <1>7 DEF Asks
<1>11. AuthInv'
  <2>1. version' # "wrong"
    BY <1>1, <1>4 DEF Gets, PendInv, AuthInv
  <2> QED BY <1>7, <1>9, <2>1 DEF PendInv, AuthInv
<1>12. CreateInv'
  <2>1. \A r \in Rec : Asks(r) => pending'[rtag[r]] = "source-output"
    BY <1>6, <1>8, CreatesWait DEF PendInv, CreateInv
  <2>2. \A i \in Line : IF toServer[i].cmd \in Creates THEN pending'[toServer[i].tag] = toServer[i].kind
                        ELSE ~Waits(toServer[i].tag)'
    BY <1>5, <1>7, <1>8, <1>9, Elements, CreatesWait DEF PendInv, CreateInv
  <2>3. held # NoPacket => IF held.cmd \in Creates THEN pending'[held.tag] = held.kind
                           ELSE ~Waits(held.tag)'
    BY <1>5, <1>7, <1>8, <1>9, Elements, CreatesWait DEF PendInv, CreateInv
  <2> QED BY <1>7, <1>10, <2>1, <2>2, <2>3 DEF CreateInv
<1>13. OnceInv'
  <2>1. ASSUME NEW i \in Back', NEW j \in Back', fromServer'[i].tag = fromServer'[j].tag,
               Waits(fromServer[i].tag)'
        PROVE  i = j
    <3>1. Waits(fromServer[i + 1].tag) /\ fromServer[i + 1].tag = fromServer[j + 1].tag
      BY <1>7, <1>9, <2>1
    <3>2. i + 1 = j + 1
      BY <1>7, <3>1 DEF PendInv, OnceInv
    <3> QED BY <1>7, <3>2
  <2>2. \A i \in Line, j \in Back' : toServer[i].tag = fromServer'[j].tag => ~Waits(toServer[i].tag)'
    BY <1>7, <1>9 DEF PendInv, OnceInv
  <2>3. held # NoPacket /\ Waits(held.tag)' => \A i \in Back' : fromServer'[i].tag # held.tag
    BY <1>7, <1>9 DEF PendInv, OnceInv
  <2>4. \A r \in Rec : Asks(r) => \A i \in Back' : fromServer'[i].tag # rtag[r]
    BY <1>7 DEF PendInv, OnceInv
  <2> QED BY <1>7, <1>9, <1>10, <2>1, <2>2, <2>3, <2>4 DEF PendInv, OnceInv
<1>14. OwnInv'
  <2>1. pending[q.tag] # "none" /\ q.cmd = "reply" => Waits(q.tag)
    BY <1>2 DEF Waits
  <2>2. \A st \in streams' : owner[st.index] = "client"
    BY <1>1, <1>3, <2>1 DEF Gets, PendInv, OwnInv
  <2> QED BY <1>7, <1>9, <2>2 DEF PendInv, OwnInv
<1> QED BY <1>11, <1>12, <1>13, <1>14 DEF PendInv

LEMMA ServesPend ==
  ASSUME PulseTypes, FormInv, PendInv, NEW a \in ServerAnswers, Serves(a), Served(a)
  PROVE  PendInv'
<1> DEFINE p == toServer[1]
           n == Len(fromServer) + 1
<1>1. /\ 1 \in Line /\ \A i \in Line' : toServer'[i] = toServer[i + 1] /\ i + 1 \in Line
                                         /\ i \in Int /\ i + 1 # 1
      /\ \A i \in Back : fromServer'[i] = fromServer[i]
      /\ fromServer'[n] = a /\ \A i \in Back' : i = n \/ i \in Back
  BY DEF Served, Back
<1>2. /\ a.tag = p.tag /\ UNCHANGED <<pending, streams, auth_tag, version, held, thread, rtag>>
      /\ \A i \in Index : owner[i] = "client" => owner'[i] = "client"
      /\ p.cmd \in Creates /\ a.cmd = "reply" => owner'[a.n] = "client"
      /\ a.n \in Index /\ (a.cmd = "reply" => p.cmd \in Creates \cup {"plain"})
  BY DEF Serves, PulseTypes, ServerAnswers, records, Others, Creates
<1>3. /\ \A t : Waits(t)' <=> Waits(t)
      /\ \A r \in Rec : Asks(r)' <=> Asks(r)
  BY <1>2 DEF Waits, Asks
<1>4. /\ p.tag = auth_tag => p.cmd \notin Creates \cup {"plain"}
      /\ Waits(p.tag) => p.cmd \in Creates
      /\ Waits(p.tag) => \A i \in Line : i # 1 => toServer[i].tag # p.tag
      /\ \A i \in Back : fromServer[i].tag = p.tag => ~Waits(p.tag)
      /\ held # NoPacket /\ Waits(held.tag) => held.tag # p.tag
      /\ \A r \in Rec : Asks(r) => rtag[r] # p.tag
  BY <1>1 DEF PendInv, AuthInv, CreateInv, OnceInv
<1> HIDE DEF p, n
<1>5. AuthInv'
  BY <1>1, <1>2, <1>3, <1>4 DEF PendInv, AuthInv
<1>6. CreateInv'
  BY <1>1, <1>2, <1>3 DEF PendInv, CreateInv
<1>7. OnceInv'
  <2>1. ASSUME NEW i \in Line', NEW j \in Line', toServer'[i].tag = toServer'[j].tag,
               Waits(toServer'[i].tag)
        PROVE  i = j
    <3>1. i + 1 = j + 1
      BY <1>1, <2>1 DEF PendInv, OnceInv
    <3> QED BY <1>1, <3>1
  <2>2. ASSUME NEW i \in Back', NEW j \in Back', fromServer'[i].tag = fromServer'[j].tag,
               Waits(fromServer'[i].tag)
        PROVE  i = j
    <3>1. CASE i \in Back /\ j \in Back
      BY <1>1, <2>2, <3>1 DEF PendInv, OnceInv
    <3>2. CASE i = n \/ j = n
      BY <1>1, <1>2, <1>4, <2>2, <3>2
    <3> QED BY <1>1, <3>1, <3>2
  <2>3. \A i \in Line', j \in Back' : toServer'[i].tag = fromServer'[j].tag => ~Waits(toServer'[i].tag)
    BY <1>1, <1>2, <1>4 DEF PendInv, OnceInv
  <2>4. held # NoPacket /\ Waits(held.tag) =>
          /\ \A i \in Line' : toServer'[i].tag # held.tag
          /\ \A i \in Back' : fromServer'[i].tag # held.tag
    BY <1>1, <1>2, <1>4 DEF PendInv, OnceInv
  <2>5. ASSUME NEW r \in Rec, Asks(r)
        PROVE  /\ \A i \in Line' : toServer'[i].tag # rtag[r]
               /\ \A i \in Back' : fromServer'[i].tag # rtag[r]
    BY <1>1, <1>2, <1>4, <2>5 DEF PendInv, OnceInv
  <2> QED BY <1>2, <1>3, <2>1, <2>2, <2>3, <2>4, <2>5 DEF PendInv, OnceInv
<1>8. OwnInv'
  <2>1. /\ \A st \in streams' : owner'[st.index] = "client"
        /\ held' # NoPacket /\ held'.cmd = "own" => held'.n \in Index /\ owner'[held'.n] = "client"
    BY <1>2 DEF PendInv, OwnInv, PulseTypes
  <2>2. \A i \in Line' : toServer'[i].cmd = "own" => toServer'[i].n \in Index /\ owner'[toServer'[i].n] = "client"
    <3>1. \A i \in Line : toServer[i].cmd = "own" => toServer[i].n \in Index /\ owner[toServer[i].n] = "client"
      BY DEF PendInv, OwnInv
    <3> QED BY <1>1, <1>2, <3>1
  <2>3. ASSUME NEW i \in Back', fromServer'[i].cmd = "reply", Waits(fromServer'[i].tag)
        PROVE  owner'[fromServer'[i].n] = "client"
    <3>1. CASE i \in Back
      <4>1. fromServer'[i] = fromServer[i] /\ owner[fromServer[i].n] = "client"
        BY <1>1, <2>3, <3>1 DEF PendInv, OwnInv
      <4>2. fromServer[i].n \in Index
        BY <3>1, Elements
      <4> QED BY <1>2, <4>1, <4>2
    <3>2. CASE i = n
      BY <1>1, <1>2, <1>4, <2>3, <3>2
    <3> QED BY <1>1, <3>1, <3>2
  <2> QED BY <1>3, <2>1, <2>2, <2>3 DEF OwnInv
<1> QED BY <1>5, <1>6, <1>7, <1>8 DEF PendInv

LEMMA KillsPend ==
  ASSUME PulseTypes, FormInv, PendInv, NEW st \in sstreams, Kills(st)
  PROVE  PendInv'
<1> DEFINE n == Len(fromServer) + 1
<1>1. /\ Line' = Line /\ \A i \in Back : fromServer'[i] = fromServer[i]
      /\ fromServer'[n].cmd = "killed" /\ fromServer'[n].tag = NoTag
      /\ \A i \in Back' : i = n \/ i \in Back
      /\ UNCHANGED <<pending, streams, auth_tag, version, held, thread, rtag, toServer, owner>>
  BY DEF Kills, Back, records
<1> HIDE DEF n
<1>2. /\ \A t : Waits(t)' <=> Waits(t)
      /\ \A r \in Rec : Asks(r)' <=> Asks(r)
      /\ ~Waits(NoTag) /\ NoTag \notin Tag
  BY <1>1, PulseAssumption DEF Waits, Asks
<1>3. AuthInv'
  BY <1>1, <1>2 DEF PendInv, AuthInv
<1>4. CreateInv'
  BY <1>1, <1>2 DEF PendInv, CreateInv
<1>5. OnceInv'
  <2>1. \A r \in Rec : Asks(r) => rtag[r] # NoTag
    BY <1>2, CreatesWait DEF PendInv
  <2>2. (\A i \in Line : toServer[i].tag # NoTag) /\ (held # NoPacket => held.tag # NoTag)
    BY <1>2, Elements
  <2> QED BY <1>1, <1>2, <2>1, <2>2 DEF PendInv, OnceInv
<1>6. OwnInv'
  BY <1>1, <1>2 DEF PendInv, OwnInv
<1> QED BY <1>3, <1>4, <1>5, <1>6 DEF PendInv

LEMMA PendStep ==
  ASSUME PulseTypes, FormInv, CountInv, PendInv, ~shared', [AudioNext]_avars
  PROVE  PendInv'
<1>1. recording \in Nat
  BY UndecidedCount
<1>2. ASSUME NEW r \in Rec, NEW t \in Tag, TurnsAway(r, t) PROVE PendInv'
  <2>1. UNCHANGED <<pending, streams, auth_tag, version, held, toServer, fromServer, owner>>
    BY <1>2 DEF TurnsAway, Comes, Others
  <2>2. \A q \in Rec : Asks(q)' => Asks(q) /\ rtag'[q] = rtag[q]
    BY <1>2 DEF TurnsAway, Comes, Asks, PulseTypes
  <2> QED BY <2>1, <2>2, SamePend
<1>3. CASE Quiet
  BY <1>3, SamePend DEF Quiet, records, Others, Asks
<1> QED BY <1>1, <1>2, <1>3, Steps, HoldsPend, AddsPend, ReleasesPend, ThreadPend, GetsPend, ServesPend,
           KillsPend

LEMMA PendStart == AudioInit => PendInv
<1> SUFFICES ASSUME AudioInit PROVE PendInv
  OBVIOUS
<1> USE DEF AudioInit
<1>1. Line = {} /\ Back = {} /\ held = NoPacket /\ streams = {} /\ version = "none"
  BY DEF Line, Back
<1>2. (\A r \in Rec : ~Asks(r)) /\ \A t : ~Waits(t)
  BY DEF Asks, Waits
<1>3. AuthInv /\ CreateInv /\ OnceInv /\ OwnInv
  BY <1>1, <1>2 DEF AuthInv, CreateInv, OnceInv, OwnInv
<1> QED BY <1>3 DEF PendInv

-----------------------------------------------------------------------------
(* The filter and the server's streams                                     *)

LEMMA HoldsFollow ==
  ASSUME PulseTypes, FormInv, PendInv, FollowInv, NEW p \in Packets, Holds(p)
  PROVE  FollowInv'
<1>1. /\ open /\ held = NoPacket /\ held' = p /\ ~Waits(p.tag) /\ p.tag \in Tag
      /\ Line' = Line /\ Back' = Back /\ UNCHANGED <<toServer, fromServer, sstreams>>
      /\ \A t : Waits(t) => Waits(t)' /\ pending'[t] = pending[t]
  BY DEF Holds, Line, Back, Packets, PulseTypes, Others, Waits
<1>2. ASSUME NEW st \in sstreams PROVE (Coming(st) \/ Known(st) \/ Going(st))'
  <2>1. ~Deletes(held, st)
    BY <1>1 DEF Deletes, NoPacket
  <2>2. CASE Coming(st)
    BY <1>1, <2>2 DEF Coming, ComesBy, Ends
  <2>3. CASE Going(st)
    BY <1>1, <2>1, <2>3 DEF Going, Deletes
  <2>4. CASE Known(st)
    <3>1. CASE Deletes(p, st)
      BY <1>1, <3>1 DEF Going, Deletes
    <3>2. CASE ~Deletes(p, st)
      <4>1. PICK own \in streams : own.kind = st.kind /\ own.ch = st.ch
        BY <2>4 DEF Known
      <4>2. own \in streams'
        BY <3>2, <4>1 DEF Holds, Deletes
      <4> QED BY <1>1, <2>4, <4>1, <4>2 DEF Known, Ends
    <3> QED BY <3>1, <3>2
  <2> QED BY <1>1, <2>2, <2>3, <2>4 DEF FollowInv
<1> QED BY <1>1, <1>2 DEF FollowInv

\* Steps that leave what is followed as it is, but for a tag that nothing
\* from the server has, and a packet of the filter's.
LEMMA KeptFollow ==
  ASSUME PulseTypes, FollowInv, open' => open, UNCHANGED <<streams, fromServer, sstreams>>,
         \A i \in Back : Waits(fromServer[i].tag) => pending'[fromServer[i].tag] = pending[fromServer[i].tag],
         open' => \A st \in sstreams : Going(st) => Going(st)'
  PROVE  FollowInv'
<1>1. Back' = Back
  BY DEF Back
<1>2. ASSUME NEW st \in sstreams, open' PROVE (Coming(st) \/ Known(st) \/ Going(st))'
  <2>1. CASE Coming(st)
    BY <1>1, <2>1 DEF Coming, ComesBy, Ends, Waits
  <2>2. CASE Known(st)
    BY <1>1, <2>2 DEF Known, Ends
  <2>3. CASE Going(st)
    BY <1>2, <2>3
  <2> QED BY <1>2, <2>1, <2>2, <2>3 DEF FollowInv
<1> QED BY <1>2 DEF FollowInv

LEMMA ComesFollow ==
  ASSUME PulseTypes, FollowInv, NEW r \in Rec, NEW t \in Tag, Adds(r, t) \/ TurnsAway(r, t)
  PROVE  FollowInv'
<1>1. UNCHANGED <<streams, fromServer, sstreams, open, held, toServer>>
  BY DEF Adds, TurnsAway, Comes, Others
<1>2. \A u : Waits(u) => pending'[u] = pending[u]
  BY DEF Adds, TurnsAway, PulseTypes, Waits
<1>3. \A st \in sstreams : Going(st) => Going(st)'
  BY <1>1 DEF Going, Deletes, Line
<1> QED BY <1>1, <1>2, <1>3, KeptFollow

LEMMA ReleasesFollow ==
  ASSUME PulseTypes, FollowInv, Releases
  PROVE  FollowInv'
<1>1. UNCHANGED <<streams, fromServer, sstreams, pending, open>>
  BY DEF Releases, Passes, Others
<1>2. ASSUME open, NEW st \in sstreams, Going(st) PROVE Going(st)'
  <2>1. /\ \A i \in Line : toServer'[i] = toServer[i] /\ i \in Line'
        /\ toServer'[Len(toServer) + 1] = held /\ Len(toServer) + 1 \in Line'
    BY <1>2, PassesDoes DEF Releases
  <2> QED BY <1>2, <2>1 DEF Going, Deletes
<1> QED BY <1>1, <1>2, KeptFollow

LEMMA ThreadFollow ==
  ASSUME PulseTypes, FormInv, PendInv, FollowInv, NEW r \in Rec, RecordStep(r)
  PROVE  FollowInv'
<1> USE DEF Move, server
<1>1. UNCHANGED <<streams, fromServer, sstreams, open, held>>
  BY DEF RecordStep, Classify, Decide, Refuse, ForwardRecord, SendError, EndRecord
<1>2. \A i \in Back : Waits(fromServer[i].tag) => pending'[fromServer[i].tag] = pending[fromServer[i].tag]
  <2>1. CASE Refuse(r)
    <3>1. Asks(r) /\ pending' = [pending EXCEPT ![rtag[r]] = "none"]
      BY <2>1 DEF Refuse, Asks
    <3>2. \A i \in Back : fromServer[i].tag # rtag[r]
      BY <3>1 DEF PendInv, OnceInv
    <3> QED BY <3>1, <3>2 DEF PulseTypes, Waits
  <2>2. CASE ~Refuse(r)
    BY <2>2 DEF RecordStep, Classify, Decide, ForwardRecord, SendError, EndRecord
  <2> QED BY <2>1, <2>2
<1>3. ASSUME open, NEW st \in sstreams, Going(st) PROVE Going(st)'
  <2>1. CASE ForwardRecord(r)
    <3> DEFINE p == Packet("record", rtag[r], "source-output", 0, r)
    <3>1. rtag[r] \in Tag
      BY <2>1 DEF ForwardRecord, FormInv
    <3>2. p \in Packets
      BY <3>1 DEF Packet, Packets, Kinds, Commands
    <3>3. Passes(p)
      BY <1>1, <2>1, <3>2 DEF ForwardRecord, Passes
    <3>4. \A i \in Line : toServer'[i] = toServer[i] /\ i \in Line'
      BY <1>3, <3>3, PassesDoes
    <3> QED BY <1>1, <1>3, <3>4 DEF Going, Deletes
  <2>2. CASE ~ForwardRecord(r)
    <3>1. UNCHANGED toServer
      BY <2>2 DEF RecordStep, Classify, Decide, Refuse, SendError, EndRecord
    <3> QED BY <1>1, <1>3, <3>1 DEF Going, Deletes, Line
  <2> QED BY <2>1, <2>2
<1> QED BY <1>1, <1>2, <1>3, KeptFollow

LEMMA GetsFollow ==
  ASSUME PulseTypes, FormInv, PendInv, FollowInv, FromServerStep
  PROVE  FollowInv'
<1> DEFINE q == fromServer[1]
<1>1. Gets(q) /\ Got
  BY GetsDoes
<1>2. /\ UNCHANGED <<held, toServer, sstreams, open>> /\ 1 \in Back
      /\ \A i \in Back' : fromServer'[i] = fromServer[i + 1] /\ i + 1 \in Back /\ i \in Int
      /\ \A i \in Back : i # 1 => i - 1 \in Back' /\ fromServer'[i - 1] = fromServer[i]
  BY <1>1 DEF Gets, Got, records, Others
<1>3. Waits(q.tag) => q.tag # auth_tag
  BY DEF PendInv, AuthInv
<1>4. q.cmd # "killed" => q.tag \in Tag
  BY <1>1, <1>2 DEF FormInv, Gets, ServerAnswers
<1>5. \A i \in Back : i # 1 /\ Waits(fromServer[i].tag) => q.tag # fromServer[i].tag
  BY <1>2 DEF PendInv, OnceInv
<1>6. \A st : Known(st) => ~Ends(q, st)
  BY <1>2 DEF Known
<1>7. \A st : ComesBy(1, st) => q.cmd = "reply" /\ q.ch = st.ch /\ Waits(q.tag) /\ pending[q.tag] = st.kind
  BY DEF ComesBy
<1> HIDE DEF q
<1>8. ASSUME NEW st \in sstreams, Coming(st) \/ Known(st) \/ Going(st)
      PROVE  (Coming(st) \/ Known(st) \/ Going(st))'
  <2>1. CASE Going(st)
    BY <1>2, <2>1 DEF Going, Deletes, Line
  <2>2. CASE Known(st)
    <3>1. ~Ends(q, st) /\ \A j \in Back' : ~Ends(fromServer'[j], st)
      BY <1>2, <1>6, <2>2 DEF Known
    <3>2. PICK own \in streams : own.kind = st.kind /\ own.ch = st.ch
      BY <2>2 DEF Known
    <3>3. \E mine \in streams' : mine.kind = st.kind /\ mine.ch = st.ch
      <4>1. CASE own \in streams'
        BY <3>2, <4>1
      <4>2. CASE own \notin streams'
        <5>1. /\ pending[q.tag] = st.kind /\ q.ch = st.ch
              /\ [kind |-> pending[q.tag], ch |-> q.ch, index |-> q.n] \in streams'
          BY <1>1, <3>1, <3>2, <4>2 DEF Gets, Ends
        <5> QED BY <5>1
      <4> QED BY <4>1, <4>2
    <3> QED BY <3>1, <3>3 DEF Known, Ends
  <2>3. CASE Coming(st)
    <3>1. PICK i \in Back : ComesBy(i, st)
      BY <2>3 DEF Coming
    <3>2. CASE i = 1
      <4>1. q.cmd = "reply" /\ q.ch = st.ch /\ Waits(q.tag) /\ pending[q.tag] = st.kind /\ pending[q.tag] # "none"
        BY <1>7, <3>1, <3>2 DEF Waits
      <4>2. [kind |-> st.kind, ch |-> st.ch, index |-> q.n] \in streams'
        BY <1>1, <1>3, <4>1 DEF Gets
      <4>3. \A j \in Back' : ~Ends(fromServer'[j], st)
        <5>1. \A j \in Back : j > 1 => ~Ends(fromServer[j], st)
          BY <3>1, <3>2 DEF ComesBy
        <5>2. \A j \in Back' : j + 1 > 1
          BY <1>1 DEF Got
        <5> QED BY <1>2, <5>1, <5>2
      <4> QED BY <4>2, <4>3 DEF Known, Ends
    <3>3. CASE i # 1
      <4>1. q.tag # fromServer[i].tag /\ Waits(fromServer[i].tag) /\ pending[fromServer[i].tag] = st.kind
        BY <1>5, <3>1, <3>3 DEF ComesBy
      <4>2. pending'[fromServer[i].tag] = pending[fromServer[i].tag] /\ Waits(fromServer'[i - 1].tag)
        BY <1>1, <1>2, <3>3, <4>1 DEF Gets, PulseTypes, Waits
      <4>3. /\ i - 1 \in Back' /\ fromServer'[i - 1] = fromServer[i]
            /\ \A j \in Back' : j > i - 1 => j + 1 > i
        BY <1>1, <1>2, <3>3 DEF Got, Back
      <4>4. \A j \in Back' : j > i - 1 => ~Ends(fromServer'[j], st)
        BY <1>2, <3>1, <4>3 DEF ComesBy
      <4>5. Coming(st)'
        BY <3>1, <4>1, <4>2, <4>3, <4>4 DEF Coming, ComesBy, Ends, Waits
      <4> QED BY <4>5
    <3> QED BY <3>2, <3>3
  <2> QED BY <1>8, <2>1, <2>2, <2>3
<1> QED BY <1>2, <1>8 DEF FollowInv

\* Answers that come on top end no stream that isn't ended by them.
LEMMA MoreFollow ==
  ASSUME PulseTypes, UNCHANGED <<pending, streams>>, NEW n,
         \A i \in Back : fromServer'[i] = fromServer[i] /\ i \in Back',
         \A i \in Back' : i \in Back \/ i = n,
         NEW st, ~Ends(fromServer'[n], st)
  PROVE  (Coming(st) => Coming(st)') /\ (Known(st) => Known(st)')
<1>1. ASSUME NEW i \in Back, ComesBy(i, st) PROVE Coming(st)'
  <2>1. \A j \in Back' : j > i => ~Ends(fromServer'[j], st)
    BY <1>1 DEF ComesBy
  <2> QED BY <1>1, <2>1 DEF Coming, ComesBy, Ends, Waits
<1>2. ASSUME Known(st) PROVE Known(st)'
  <2>1. \A j \in Back' : ~Ends(fromServer'[j], st)
    BY <1>2 DEF Known
  <2> QED BY <1>2, <2>1 DEF Known, Ends
<1> QED BY <1>1, <1>2 DEF Coming

LEMMA ServesFollow ==
  ASSUME PulseTypes, FormInv, PendInv, FollowInv, NEW a \in ServerAnswers, Serves(a), Served(a)
  PROVE  FollowInv'
<1> DEFINE p == toServer[1]
           n == Len(fromServer) + 1
           new == [kind |-> p.kind, ch |-> a.ch, index |-> a.n, rec |-> p.rec]
<1>1. /\ 1 \in Line /\ \A i \in Line : i # 1 => i - 1 \in Line' /\ toServer'[i - 1] = toServer[i]
      /\ \A i \in Back : fromServer'[i] = fromServer[i] /\ i \in Back'
      /\ fromServer'[n] = a /\ n \in Back' /\ \A i \in Back' : (i = n \/ i \in Back) /\ ~(i > n)
  BY DEF Served, Back
<1>2. /\ a.tag = p.tag /\ a.cmd # "killed" /\ UNCHANGED <<pending, streams, held, open>>
      /\ \A st : ~Ends(a, st)
  BY DEF Serves, Ends
<1>3. p.cmd \in Creates => pending[p.tag] = p.kind /\ Waits(p.tag)
  BY <1>1, CreatesWait DEF PendInv, CreateInv
<1>4. \/ sstreams' \subseteq sstreams
      \/ /\ p.cmd \in Creates /\ a.cmd = "reply" /\ sstreams' = sstreams \cup {new}
         /\ \A st \in sstreams : st.kind = p.kind => st.ch # a.ch
  BY DEF Serves, Others
<1>5. p.cmd = "delete" => \A st \in sstreams' : ~Deletes(p, st)
  BY DEF Serves, Deletes, Creates
<1>6. p = toServer[1]
  OBVIOUS
<1> HIDE DEF p, n
<1>7. \A st, other \in sstreams' : st.kind = other.kind /\ st.ch = other.ch => st = other
  BY <1>4 DEF FollowInv
<1>8. ASSUME NEW st \in sstreams, st \in sstreams', Coming(st) \/ Known(st) \/ Going(st)
      PROVE  (Coming(st) \/ Known(st) \/ Going(st))'
  <2>1. (Coming(st) => Coming(st)') /\ (Known(st) => Known(st)')
    BY <1>1, <1>2, MoreFollow
  <2>2. CASE Deletes(held, st)
    BY <1>2, <2>2 DEF Going, Deletes
  <2>3. ASSUME NEW i \in Line, Deletes(toServer[i], st) PROVE Going(st)'
    <3>1. i # 1
      BY <1>5, <1>6, <1>8, <2>3 DEF Deletes
    <3> QED BY <1>1, <2>3, <3>1 DEF Going, Deletes
  <2> QED BY <1>8, <2>1, <2>2, <2>3 DEF Going
<1>9. ASSUME p.cmd \in Creates, a.cmd = "reply", NEW st, st = new PROVE Coming(st)'
  <2>1. fromServer'[n].cmd = "reply" /\ fromServer'[n].tag = p.tag /\ fromServer'[n].ch = st.ch
    BY <1>1, <1>2, <1>9
  <2>2. pending'[p.tag] = st.kind /\ p.tag \in Tag /\ pending'[p.tag] # "none"
    BY <1>2, <1>3, <1>9 DEF Waits
  <2>3. \A j \in Back' : ~(j > n)
    BY <1>1
  <2> QED BY <1>1, <2>1, <2>2, <2>3 DEF Coming, ComesBy, Waits
<1>10. ASSUME open', NEW st \in sstreams' PROVE (Coming(st) \/ Known(st) \/ Going(st))'
  <2>1. CASE st \in sstreams
    BY <1>2, <1>8, <1>10, <2>1 DEF FollowInv
  <2>2. CASE st \notin sstreams
    BY <1>4, <1>9, <1>10, <2>2
  <2> QED BY <2>1, <2>2
<1> QED BY <1>7, <1>10 DEF FollowInv

LEMMA KillsFollow ==
  ASSUME PulseTypes, FollowInv, NEW gone \in sstreams, Kills(gone)
  PROVE  FollowInv'
<1> DEFINE n == Len(fromServer) + 1
<1>1. /\ UNCHANGED <<pending, streams, held, open, toServer>> /\ Line' = Line
      /\ sstreams' = sstreams \ {gone}
      /\ \A i \in Back : fromServer'[i] = fromServer[i] /\ i \in Back'
      /\ \A i \in Back' : i = n \/ i \in Back
      /\ fromServer'[n].kind = gone.kind /\ fromServer'[n].ch = gone.ch
  BY DEF Kills, Back
<1> HIDE DEF n
<1>2. ASSUME NEW st \in sstreams', Coming(st) \/ Known(st) \/ Going(st)
      PROVE  (Coming(st) \/ Known(st) \/ Going(st))'
  <2>1. ~Ends(fromServer'[n], st)
    BY <1>1 DEF FollowInv, Ends
  <2>2. (Coming(st) => Coming(st)') /\ (Known(st) => Known(st)')
    BY <1>1, <2>1, MoreFollow
  <2>3. CASE Going(st)
    BY <1>1, <2>3 DEF Going, Deletes
  <2> QED BY <1>2, <2>2, <2>3
<1> QED BY <1>1, <1>2 DEF FollowInv

LEMMA FollowStep ==
  ASSUME PulseTypes, FormInv, CountInv, PendInv, FollowInv, [AudioNext]_avars
  PROVE  FollowInv'
<1>1. recording \in Nat
  BY UndecidedCount
<1>2. CASE Quiet
  <2>1. /\ open' => open
        /\ UNCHANGED <<streams, fromServer, sstreams, pending, held, toServer>>
    BY <1>2 DEF Quiet, Others
  <2>2. \A st \in sstreams : Going(st) => Going(st)'
    BY <2>1 DEF Going, Deletes, Line
  <2> QED BY <2>1, <2>2, KeptFollow
<1> QED BY <1>1, <1>2, Steps, HoldsFollow, ComesFollow, ReleasesFollow, ThreadFollow, GetsFollow,
           ServesFollow, KillsFollow

-----------------------------------------------------------------------------
(* What a recording was classified as, and what it hears                   *)

LEMMA RecordingTags ==
  ASSUME PulseTypes, FormInv
  PROVE  \A i \in Line : toServer[i].cmd = "record" =>
           toServer[i].rec \in Rec /\ toServer[i].kind = "source-output"
  BY DEF FormInv, Formed

LEMMA ClassifiedAsHeard ==
  ASSUME NEW req \in RecordFields, NEW known \in BOOLEAN, NEW routes \in BOOLEAN
  PROVE  /\ RecordKind(req, known, routes) # "none"
         /\ routes => RecordKind(req, known, routes) = "monitor"
         /\ RecordKind(req, known, routes) # "monitor" => RecordKind(req, known, routes) = Hears(req, FALSE)
  BY DEF RecordKind, Hears, RecordFields, Names

\* A version the filter agreed on or none: a request is classified by what it
\* says.
LEMMA Classified ==
  ASSUME PulseTypes, PendInv, NEW r \in Rec, Classify(r)
  PROVE  \E k : /\ kind' = [kind EXCEPT ![r] = k] /\ k # "none"
                /\ client_routes => k = "monitor"
                /\ k # "monitor" => k = Hears(request[r], FALSE)
<1> DEFINE k == RecordKind(request[r], version = "agreed", client_routes)
<1>1. kind' = [kind EXCEPT ![r] = k]
  BY DEF Classify, PendInv, AuthInv
<1>2. /\ k # "none" /\ (client_routes => k = "monitor")
      /\ k # "monitor" => k = Hears(request[r], FALSE)
  <2>1. request[r] \in RecordFields /\ client_routes \in BOOLEAN
    BY DEF PulseTypes
  <2> QED BY <2>1, ClassifiedAsHeard
<1> QED BY <1>1, <1>2

LEMMA KindThread ==
  ASSUME PulseTypes, FormInv, PendInv, KindInv, NEW r \in Rec, RecordStep(r)
  PROVE  KindInv'
<1> USE DEF Move, server
<1>1. \A q \in Rec : thread[q] \in {"end", "ended"} => thread'[q] \in {"end", "ended"}
  BY DEF RecordStep, Classify, Decide, Refuse, ForwardRecord, SendError, EndRecord, PulseTypes
<1>2. UNCHANGED <<request, sstreams>>
  BY DEF RecordStep, Classify, Decide, Refuse, ForwardRecord, SendError, EndRecord
<1>3. /\ \A q \in Rec : kind'[q] = "none" <=> thread'[q] \in {"none", "busy", "classify"}
      /\ \A q \in Rec : kind'[q] \notin {"none", "monitor"} => kind'[q] = Hears(request[q], FALSE)
  <2>1. CASE Classify(r)
    <3>1. PICK k : /\ kind' = [kind EXCEPT ![r] = k] /\ k # "none"
                   /\ k # "monitor" => k = Hears(request[r], FALSE)
      BY <2>1, Classified
    <3> QED BY <2>1, <3>1 DEF Classify, KindInv, Clean, PulseTypes
  <2>2. CASE ~Classify(r)
    <3>1. UNCHANGED kind
      BY <2>2 DEF RecordStep, Decide, Refuse, ForwardRecord, SendError, EndRecord
    <3>2. \A q \in Rec : thread'[q] \in {"none", "busy", "classify"}
                         <=> thread[q] \in {"none", "busy", "classify"}
      BY <2>2 DEF RecordStep, Decide, Refuse, ForwardRecord, SendError, EndRecord, PulseTypes
    <3> QED BY <3>1, <3>2 DEF KindInv, Clean
  <2> QED BY <2>1, <2>2
<1>4. \A i \in Line' : toServer'[i].cmd = "record" => thread'[toServer'[i].rec] \in {"end", "ended"}
  <2>1. CASE UNCHANGED toServer
    BY <1>1, <2>1, RecordingTags DEF KindInv, Line
  <2>2. CASE ~UNCHANGED toServer
    <3> DEFINE p == Packet("record", rtag[r], "source-output", 0, r)
    <3>1. ForwardRecord(r)
      BY <2>2 DEF RecordStep, Classify, Decide, Refuse, SendError, EndRecord
    <3>2. rtag[r] \in Tag
      BY <3>1 DEF ForwardRecord, FormInv
    <3>3. p \in Packets /\ p.rec = r
      BY <3>2 DEF Packet, Packets, Kinds, Commands
    <3>4. Passes(p) /\ open
      BY <2>2, <3>1, <3>3 DEF ForwardRecord, Passes
    <3>5. thread'[r] = "end"
      BY <3>1 DEF ForwardRecord, PulseTypes
    <3> HIDE DEF p
    <3>6. /\ \A i \in Line : toServer'[i] = toServer[i]
          /\ toServer'[Len(toServer) + 1] = p
          /\ \A i \in Line' : i \in Line \/ i = Len(toServer) + 1
      BY <3>4, PassesDoes
    <3> QED BY <1>1, <3>3, <3>5, <3>6, RecordingTags DEF KindInv
  <2> QED BY <2>1, <2>2
<1>5. \A st \in sstreams' : st.kind = "source-output" =>
        st.rec \in Rec /\ thread'[st.rec] \in {"end", "ended"}
  BY <1>1, <1>2 DEF KindInv
<1> QED BY <1>2, <1>3, <1>4, <1>5 DEF KindInv, Clean

LEMMA KindStep ==
  ASSUME PulseTypes, FormInv, CountInv, PendInv, KindInv, [AudioNext]_avars
  PROVE  KindInv'
<1> USE DEF records, Others
<1>1. recording \in Nat
  BY UndecidedCount
<1>2. ASSUME UNCHANGED <<kind, thread, request>>, sstreams' \subseteq sstreams,
             \A i \in Line' : \/ i \in Line /\ toServer'[i] = toServer[i]
                              \/ i + 1 \in Line /\ toServer'[i] = toServer[i + 1]
                              \/ toServer'[i].cmd # "record"
      PROVE  KindInv'
  <2>1. \A i \in Line' : toServer'[i].cmd = "record" => thread'[toServer'[i].rec] \in {"end", "ended"}
    BY <1>2 DEF KindInv
  <2>2. /\ \A r \in Rec : kind'[r] = "none" <=> thread'[r] \in {"none", "busy", "classify"}
        /\ \A r \in Rec : Clean(r)' => kind'[r] = Hears(request'[r], FALSE)
    BY <1>2 DEF KindInv, Clean
  <2>3. \A st \in sstreams' : st.kind = "source-output" =>
          st.rec \in Rec /\ thread'[st.rec] \in {"end", "ended"}
    BY <1>2 DEF KindInv
  <2> QED BY <2>1, <2>2, <2>3 DEF KindInv, Clean
<1>3. ASSUME NEW p \in Packets, Holds(p) PROVE KindInv'
  BY <1>2, <1>3 DEF Holds, Line
<1>4. ASSUME NEW r \in Rec, NEW t \in Tag, Adds(r, t) \/ TurnsAway(r, t) PROVE KindInv'
  <2>1. /\ thread[r] = "none" /\ \E to \in {"classify", "busy"} : thread' = [thread EXCEPT ![r] = to]
        /\ UNCHANGED <<kind, sstreams, toServer>> /\ kind[r] = "none"
        /\ \A q \in Rec : q # r => request'[q] = request[q]
    BY <1>4 DEF Adds, TurnsAway, Comes, KindInv, PulseTypes
  <2>2. \A q \in Rec : /\ thread[q] \in {"end", "ended"} => thread'[q] \in {"end", "ended"}
                       /\ thread[q] \in {"none", "busy", "classify"} <=> thread'[q] \in {"none", "busy", "classify"}
    BY <2>1 DEF PulseTypes
  <2>3. \A i \in Line' : toServer'[i].cmd = "record" => thread'[toServer'[i].rec] \in {"end", "ended"}
    BY <2>1, <2>2, RecordingTags DEF KindInv, Line
  <2>4. \A q \in Rec : kind'[q] = "none" <=> thread'[q] \in {"none", "busy", "classify"}
    BY <2>1, <2>2 DEF KindInv
  <2>5. \A q \in Rec : Clean(q)' => kind'[q] = Hears(request'[q], FALSE)
    BY <2>1 DEF KindInv, Clean
  <2>6. \A st \in sstreams' : st.kind = "source-output" =>
          st.rec \in Rec /\ thread'[st.rec] \in {"end", "ended"}
    BY <2>1, <2>2 DEF KindInv
  <2> QED BY <2>3, <2>4, <2>5, <2>6 DEF KindInv, Clean
<1>5. CASE Releases
  <2>1. CASE open
    <3>1. /\ \A i \in Line : toServer'[i] = toServer[i]
          /\ toServer'[Len(toServer) + 1] = held
          /\ \A i \in Line' : i \in Line \/ i = Len(toServer) + 1
      BY <1>5, <2>1, PassesDoes DEF Releases
    <3>2. held.cmd # "record"
      BY <1>5 DEF Releases, FormInv
    <3> QED BY <1>2, <1>5, <3>1, <3>2 DEF Releases
  <2>2. CASE ~open
    BY <1>2, <1>5, <2>2 DEF Releases, Passes, Line
  <2> QED BY <2>1, <2>2
<1>6. CASE FromServerStep
  BY <1>2, <1>6, GetsDoes DEF Gets, Got
<1>7. ASSUME NEW a \in ServerAnswers, Serves(a), Served(a) PROVE KindInv'
  <2>1. /\ \A i \in Line' : toServer'[i] = toServer[i + 1] /\ i + 1 \in Line
        /\ 1 \in Line /\ UNCHANGED <<kind, thread, request>>
    BY <1>7 DEF Serves, Served
  <2>2. \A st \in sstreams' : st.kind = "source-output" =>
          st.rec \in Rec /\ thread'[st.rec] \in {"end", "ended"}
    <3>1. CASE sstreams' \subseteq sstreams
      BY <2>1, <3>1 DEF KindInv
    <3>2. CASE ~(sstreams' \subseteq sstreams)
      <4> DEFINE p == toServer[1]
                 new == [kind |-> p.kind, ch |-> a.ch, index |-> a.n, rec |-> p.rec]
      <4>1. p.cmd \in Creates /\ sstreams' = sstreams \cup {new}
        BY <1>7, <3>2 DEF Serves
      <4>2. \A st \in sstreams' : st \in sstreams \/ st = new
        BY <4>1
      <4>3. p.kind = "source-output" => p.cmd = "record" /\ p.rec \in Rec
        BY <2>1, <4>1 DEF FormInv, Formed, Creates
      <4>4. p.cmd = "record" => thread[p.rec] \in {"end", "ended"}
        BY <2>1 DEF KindInv
      <4>5. new.kind = p.kind /\ new.rec = p.rec
        OBVIOUS
      <4> HIDE DEF new, p
      <4> QED BY <2>1, <4>2, <4>3, <4>4, <4>5 DEF KindInv
    <3> QED BY <3>1, <3>2
  <2>3. \A i \in Line' : toServer'[i].cmd = "record" => thread'[toServer'[i].rec] \in {"end", "ended"}
    BY <2>1 DEF KindInv
  <2> QED BY <2>1, <2>2, <2>3 DEF KindInv, Clean
<1>8. ASSUME NEW st \in sstreams, Kills(st) PROVE KindInv'
  BY <1>2, <1>8 DEF Kills, Line
<1>9. CASE Quiet
  BY <1>2, <1>9 DEF Quiet, Line
<1> QED BY <1>1, <1>3, <1>4, <1>5, <1>6, <1>7, <1>8, <1>9, Steps, KindThread

\* The step takes no recording up again that is over, and adds no stream of one.
Kept ==
  /\ client_routes => \A r \in Rec : Clean(r)' => Clean(r) /\ thread'[r] = thread[r]
  /\ client_routes => CleanStreams' \subseteq CleanStreams
  /\ UNCHANGED <<client_routes, sroutes>>

LEMMA KeptRoute ==
  ASSUME PulseTypes, FormInv, RouteInv, Kept, UNCHANGED toServer,
         held'.cmd = "routes" => held' = held
  PROVE  RouteInv'
<1>1. Line' = Line
  BY DEF Line
<1>2. \A r \in Rec : client_routes /\ Clean(r)' => thread'[r] = "ended"
  BY DEF RouteInv, Kept
<1>3. ASSUME NEW i \in Line, client_routes, toServer[i].cmd = "record"
      PROVE  ~(kind'[toServer'[i].rec] \notin {"none", "monitor"})
  <2> DEFINE r == toServer[i].rec
  <2>1. r \in Rec /\ ~Clean(r)
    BY <1>3, RecordingTags DEF RouteInv
  <2>2. ~(kind'[r] \notin {"none", "monitor"})
    BY <1>3, <2>1 DEF Kept, Clean
  <2> QED BY <2>2
<1>4. sroutes' => CleanStreams' = {}
  BY DEF RouteInv, Kept
<1>5. held'.cmd = "routes" => \A st \in CleanStreams' : \E i \in Line : Deletes(toServer'[i], st)
  BY DEF RouteInv, Kept, Deletes
<1>6. \A j \in Line : toServer[j].cmd = "routes" =>
        \A st \in CleanStreams' : \E i \in 1 .. j - 1 : Deletes(toServer'[i], st)
  BY DEF RouteInv, Kept, Deletes
<1>7. /\ sroutes' \/ held'.cmd = "routes" => client_routes'
      /\ \A i \in Line : toServer'[i].cmd = "routes" => client_routes'
  BY DEF RouteInv, Kept
<1>8. client_routes' =>
        /\ \A r \in Rec : Clean(r)' => thread'[r] = "ended"
        /\ \A i \in Line : toServer'[i].cmd = "record" => ~(kind'[toServer'[i].rec] \notin {"none", "monitor"})
  BY <1>2, <1>3 DEF Kept
<1> QED BY <1>1, <1>4, <1>5, <1>6, <1>7, <1>8 DEF RouteInv, Deletes, Clean

LEMMA HoldsRoute ==
  ASSUME PulseTypes, FormInv, CountInv, PendInv, FollowInv, KindInv, RouteInv,
         NEW p \in Packets, Holds(p)
  PROVE  RouteInv'
<1>1. /\ open /\ held = NoPacket /\ held' = p /\ Line' = Line
      /\ UNCHANGED <<thread, kind, toServer, sstreams, sroutes>>
  BY DEF Holds, Line, records, Others
<1>2. CASE p.cmd # "routes"
  <2>1. UNCHANGED client_routes
    BY <1>2 DEF Holds
  <2> QED BY <1>1, <1>2, <2>1, KeptRoute DEF Kept, Clean, CleanStreams
<1>3. CASE p.cmd = "routes"
  <2>1. ~Recording /\ client_routes' = TRUE
    BY <1>3 DEF Holds
  <2>2. recording = 0
    BY <2>1, UndecidedCount DEF Recording
  <2>3. \A r \in Rec : Clean(r) => thread[r] = "ended"
    BY <2>2, UndecidedCount DEF KindInv, Clean, NoneRuns
  <2>4. \A i \in Line : toServer[i].cmd # "record"
    <3>1. \A i \in Line : toServer[i].cmd = "record" => pending[toServer[i].tag] = "source-output"
      BY RecordingTags DEF PendInv, CreateInv, Creates
    <3> QED BY <2>1, <3>1, Elements DEF Recording
  <2>5. ASSUME NEW st \in CleanStreams PROVE \E i \in Line : Deletes(toServer[i], st)
    <3>1. st \in sstreams /\ st.kind = "source-output"
      BY <2>5 DEF CleanStreams
    <3>2. ~Coming(st) /\ ~Known(st)
      BY <2>1, <3>1 DEF Recording, Coming, ComesBy, Known, Waits
    <3>3. ~Deletes(held, st)
      BY <1>1 DEF Deletes, NoPacket
    <3> QED BY <1>1, <3>1, <3>2, <3>3 DEF FollowInv, Going
  <2> QED BY <1>1, <2>1, <2>3, <2>4, <2>5 DEF RouteInv, Clean, CleanStreams, Deletes
<1> QED BY <1>2, <1>3

\* The filter sends the server p, which follows whatever is on its way.
LEMMA PassesRoute ==
  ASSUME PulseTypes, FormInv, RouteInv, NEW p \in Packets, open, Passes(p),
         UNCHANGED <<client_routes, sroutes, kind, sstreams>>,
         held' \in {held, NoPacket},
         client_routes => \A r \in Rec : Clean(r) => thread'[r] = thread[r],
         p.cmd = "routes" => p = held,
         p.cmd = "record" => p.rec \in Rec /\ thread[p.rec] # "ended"
  PROVE  RouteInv'
<1> DEFINE n == Len(toServer) + 1
<1>1. /\ \A i \in Line : toServer'[i] = toServer[i] /\ i \in Line' /\ i \in 1 .. n - 1 /\ i \in Int
      /\ toServer'[n] = p
      /\ \A i \in Line' : i \in Line \/ i = n
  BY PassesDoes DEF Line
<1> HIDE DEF n
<1>2. /\ \A r : Clean(r)' = Clean(r)
      /\ CleanStreams' = CleanStreams
      /\ held'.cmd = "routes" => held' = held
  BY DEF Clean, CleanStreams, NoPacket
<1>3. \A i \in Line' : toServer'[i].cmd = "routes" => client_routes
  BY <1>1 DEF RouteInv
<1>4. client_routes => \A i \in Line' : toServer'[i].cmd = "record" => ~Clean(toServer'[i].rec)
  BY <1>1 DEF RouteInv
<1>5. ASSUME NEW j \in Line', toServer'[j].cmd = "routes", NEW st \in CleanStreams
      PROVE  \E i \in 1 .. j - 1 : Deletes(toServer'[i], st)
  <2>1. CASE j \in Line
    <3>1. PICK i \in 1 .. j - 1 : Deletes(toServer[i], st)
      BY <1>1, <1>5, <2>1 DEF RouteInv
    <3>2. i \in Line
      BY <2>1 DEF Line
    <3> QED BY <1>1, <3>1, <3>2 DEF Deletes
  <2>2. CASE j \notin Line
    <3>1. j = n /\ held.cmd = "routes"
      BY <1>1, <1>5, <2>2
    <3>2. PICK i \in Line : Deletes(toServer[i], st)
      BY <1>5, <3>1 DEF RouteInv
    <3> QED BY <1>1, <3>1, <3>2 DEF Deletes
  <2> QED BY <2>1, <2>2
<1>6. held'.cmd = "routes" => \A st \in CleanStreams : \E i \in Line' : Deletes(toServer'[i], st)
  BY <1>1, <1>2 DEF RouteInv, Deletes
<1>7. \A r \in Rec : client_routes /\ Clean(r) => thread'[r] = "ended"
  BY DEF RouteInv
<1>8. (sroutes \/ held'.cmd = "routes" => client_routes) /\ (sroutes => CleanStreams = {})
  BY <1>2 DEF RouteInv
<1> QED BY <1>2, <1>3, <1>4, <1>5, <1>6, <1>7, <1>8 DEF RouteInv, Deletes, Clean

LEMMA ThreadRoute ==
  ASSUME PulseTypes, FormInv, PendInv, KindInv, RouteInv, NEW r \in Rec, RecordStep(r)
  PROVE  RouteInv'
<1> USE DEF Move, server
<1>1. /\ UNCHANGED <<held, open, client_routes, sroutes, sstreams>>
      /\ thread[r] \notin {"none", "busy", "ended"} /\ \A q \in Rec : q # r => thread'[q] = thread[q]
  BY DEF RecordStep, Classify, Decide, Refuse, ForwardRecord, SendError, EndRecord, PulseTypes
<1>2. client_routes => ~Clean(r)
  BY <1>1 DEF RouteInv
<1>3. CASE ForwardRecord(r) /\ open
  <2> DEFINE p == Packet("record", rtag[r], "source-output", 0, r)
  <2>1. rtag[r] \in Tag
    BY <1>1 DEF FormInv
  <2>2. p \in Packets /\ p.cmd = "record" /\ p.rec = r
    BY <2>1 DEF Packet, Packets, Kinds, Commands
  <2>3. Passes(p) /\ UNCHANGED kind
    BY <1>1, <1>3, <2>2 DEF ForwardRecord, Passes
  <2> HIDE DEF p
  <2>4. client_routes => \A q \in Rec : Clean(q) => thread'[q] = thread[q]
    BY <1>1, <1>2
  <2> QED BY <1>1, <1>3, <2>2, <2>3, <2>4, PassesRoute
<1>4. CASE ~(ForwardRecord(r) /\ open)
  <2>1. UNCHANGED toServer
    BY <1>4 DEF RecordStep, Classify, Decide, Refuse, ForwardRecord, SendError, EndRecord
  <2>2. (\A q \in Rec : q # r => kind'[q] = kind[q]) /\ (client_routes => ~Clean(r)')
    <3>1. CASE Classify(r)
      <4>1. PICK k : kind' = [kind EXCEPT ![r] = k] /\ (client_routes => k = "monitor")
        BY <3>1, Classified
      <4> QED BY <4>1 DEF Clean, PulseTypes
    <3>2. CASE ~Classify(r)
      <4>1. UNCHANGED kind
        BY <3>2 DEF RecordStep, Decide, Refuse, ForwardRecord, SendError, EndRecord
      <4> QED BY <1>2, <4>1 DEF Clean
    <3> QED BY <3>1, <3>2
  <2>3. client_routes => \A q \in Rec : Clean(q)' => Clean(q) /\ thread'[q] = thread[q]
    BY <1>1, <2>2 DEF Clean
  <2>4. client_routes => CleanStreams' \subseteq CleanStreams
    BY <1>1, <2>3 DEF CleanStreams, KindInv
  <2> QED BY <1>1, <2>1, <2>3, <2>4, KeptRoute DEF Kept
<1> QED BY <1>3, <1>4

LEMMA ServesRoute ==
  ASSUME PulseTypes, FormInv, KindInv, RouteInv, NEW a \in ServerAnswers, Serves(a), Served(a)
  PROVE  RouteInv'
<1> DEFINE p == toServer[1]
<1>1. /\ 1 \in Line /\ Line' = 1 .. Len(toServer) - 1 /\ Len(toServer) \in Nat
      /\ \A i \in Line' : toServer'[i] = toServer[i + 1] /\ i + 1 \in Line /\ i \in Int
      /\ \A i \in Line : i # 1 => i - 1 \in Line' /\ toServer'[i - 1] = toServer[i]
      /\ UNCHANGED <<client_routes, held, thread, kind>>
      /\ \A r : Clean(r)' = Clean(r)
  BY DEF Serves, Served, Clean, records
<1>2. p.cmd = "routes" => CleanStreams = {} /\ client_routes /\ UNCHANGED sstreams
  BY <1>1 DEF RouteInv, Serves, Creates
<1>3. p.cmd # "routes" => UNCHANGED sroutes
  BY DEF Serves, Others
<1>4. ASSUME client_routes, NEW st \in CleanStreams' PROVE st \in CleanStreams /\ ~Deletes(p, st)
  <2>1. st \in sstreams' /\ st.kind = "source-output" /\ Clean(st.rec)
    BY <1>1, <1>4 DEF CleanStreams
  <2>2. ~Deletes(p, st)
    BY <2>1 DEF Serves, Deletes, Creates
  <2>3. st \in sstreams
    <3>1. CASE sstreams' \subseteq sstreams
      BY <2>1, <3>1
    <3>2. CASE ~(sstreams' \subseteq sstreams)
      <4>1. /\ p.cmd \in Creates
            /\ sstreams' = sstreams \cup {[kind |-> p.kind, ch |-> a.ch, index |-> a.n, rec |-> p.rec]}
        BY <3>2 DEF Serves, Others
      <4>2. p.kind = "source-output" => p.cmd = "record"
        BY <1>1, <4>1 DEF FormInv, Formed, Creates
      <4>3. p.kind = "source-output" => ~Clean(p.rec)
        BY <1>1, <1>4, <4>2 DEF RouteInv
      <4> QED BY <2>1, <4>1, <4>3
    <3> QED BY <3>1, <3>2
  <2> QED BY <2>1, <2>2, <2>3 DEF CleanStreams
<1> HIDE DEF p
<1>5. /\ sroutes' \/ held'.cmd = "routes" => client_routes'
      /\ sroutes' => CleanStreams' = {}
  BY <1>1, <1>2, <1>3, <1>4 DEF RouteInv
<1>6. \A i \in Line' : /\ toServer'[i].cmd = "routes" => client_routes
                       /\ client_routes /\ toServer'[i].cmd = "record" => ~Clean(toServer'[i].rec)
  BY <1>1 DEF RouteInv
<1>7. ASSUME NEW st \in CleanStreams', held.cmd = "routes"
      PROVE  \E i \in Line' : Deletes(toServer'[i], st)
  <2>1. client_routes
    BY <1>7 DEF RouteInv
  <2>2. PICK i \in Line : Deletes(toServer[i], st)
    BY <1>4, <1>7, <2>1 DEF RouteInv
  <2>3. i # 1
    BY <1>4, <1>7, <2>1, <2>2 DEF p
  <2>4. i - 1 \in Line' /\ toServer'[i - 1] = toServer[i]
    BY <1>1, <2>2, <2>3 DEF Line
  <2> QED BY <2>2, <2>4 DEF Deletes
<1>8. ASSUME NEW j \in Line', toServer'[j].cmd = "routes", NEW st \in CleanStreams'
      PROVE  \E i \in 1 .. j - 1 : Deletes(toServer'[i], st)
  <2>1. client_routes
    BY <1>6, <1>8
  <2>2. PICK i \in 1 .. (j + 1) - 1 : Deletes(toServer[i], st)
    BY <1>1, <1>4, <1>8, <2>1 DEF RouteInv
  <2>3. i # 1
    BY <1>4, <1>8, <2>1, <2>2 DEF p
  <2>4. i - 1 \in 1 .. j - 1 /\ i - 1 \in Line' /\ toServer'[i - 1] = toServer[i]
    BY <1>1, <2>2, <2>3
  <2> QED BY <2>2, <2>4 DEF Deletes
<1>9. \A r \in Rec : client_routes /\ Clean(r) => thread[r] = "ended"
  BY DEF RouteInv
<1> QED BY <1>1, <1>5, <1>6, <1>7, <1>8, <1>9 DEF RouteInv, Deletes, Clean

LEMMA RouteStep ==
  ASSUME PulseTypes, FormInv, CountInv, PendInv, FollowInv, KindInv, RouteInv, [AudioNext]_avars
  PROVE  RouteInv'
<1> USE DEF records, Others
<1>1. recording \in Nat
  BY UndecidedCount
<1>2. ASSUME UNCHANGED <<client_routes, sroutes, thread, kind, toServer, held>>,
             sstreams' \subseteq sstreams
      PROVE  RouteInv'
  BY <1>2, KeptRoute DEF Kept, Clean, CleanStreams
<1>3. ASSUME NEW r \in Rec, NEW t \in Tag, Adds(r, t) \/ TurnsAway(r, t) PROVE RouteInv'
  <2>1. /\ thread[r] = "none" /\ UNCHANGED <<kind, client_routes, sroutes, sstreams, toServer, held>>
        /\ \A q \in Rec : q # r => thread'[q] = thread[q]
    BY <1>3 DEF Adds, TurnsAway, Comes, PulseTypes
  <2>2. ~Clean(r)
    BY <2>1 DEF KindInv, Clean
  <2> QED BY <2>1, <2>2, KeptRoute DEF Kept, Clean, CleanStreams
<1>4. CASE Releases
  <2>1. CASE open
    <3>1. /\ held \in Packets /\ Passes(held) /\ held' = NoPacket
          /\ UNCHANGED <<client_routes, sroutes, kind, sstreams, thread>>
          /\ held.cmd # "record"
      BY <1>4 DEF Releases, Passes, FormInv
    <3> QED BY <2>1, <3>1, PassesRoute
  <2>2. CASE ~open
    <3>1. UNCHANGED <<client_routes, sroutes, thread, kind, toServer, sstreams>> /\ held' = NoPacket
      BY <1>4, <2>2 DEF Releases, Passes
    <3> QED BY <3>1, KeptRoute DEF Kept, Clean, CleanStreams, NoPacket
  <2> QED BY <2>1, <2>2
<1>5. CASE FromServerStep
  BY <1>2, <1>5, GetsDoes DEF Gets
<1>6. ASSUME NEW st \in sstreams, Kills(st) PROVE RouteInv'
  BY <1>2, <1>6 DEF Kills
<1>7. CASE Quiet
  BY <1>2, <1>7 DEF Quiet
<1> QED BY <1>1, <1>3, <1>4, <1>5, <1>6, <1>7, Steps, HoldsRoute, ThreadRoute, ServesRoute

LEMMA StreamsStart == AudioInit => FollowInv /\ KindInv /\ RouteInv
<1> SUFFICES ASSUME AudioInit PROVE FollowInv /\ KindInv /\ RouteInv
  OBVIOUS
<1> USE DEF AudioInit
<1>1. Line = {} /\ sstreams = {} /\ CleanStreams = {} /\ held.cmd = "nothing" /\ \A r \in Rec : ~Clean(r)
  BY DEF Line, CleanStreams, Clean, NoPacket
<1> QED BY <1>1 DEF FollowInv, KindInv, RouteInv

-----------------------------------------------------------------------------
(* The theorems                                                            *)

\* Once the client used a tag the filter takes for another command's, nothing
\* but the types holds.
Apart == PendInv /\ FollowInv /\ KindInv /\ RouteInv
FilterInv == PulseTypes /\ FormInv /\ CountInv /\ (~shared => Apart)

LEMMA SharedStays == ASSUME PulseTypes, recording \in Nat, [AudioNext]_avars, shared PROVE shared'
<1>1. ASSUME NEW r \in Rec, RecordStep(r) PROVE shared'
  BY <1>1 DEF RecordStep, Classify, Decide, Refuse, ForwardRecord, SendError, EndRecord, Move
<1>2. CASE FromServerStep
  BY <1>2, GetsDoes DEF Gets
<1> QED BY <1>1, <1>2, Steps DEF Holds, Adds, TurnsAway, Releases, Serves, Kills, Quiet

LEMMA FilterStart == AudioInit => FilterInv
  BY TypesStart, PendStart, StreamsStart DEF FilterInv, Apart

LEMMA FilterStep == FilterInv /\ [AudioNext]_avars => FilterInv'
<1> SUFFICES ASSUME FilterInv, [AudioNext]_avars PROVE FilterInv'
  OBVIOUS
<1>1. PulseTypes /\ FormInv /\ CountInv /\ recording \in Nat
  BY UndecidedCount DEF FilterInv
<1>2. PulseTypes' /\ FormInv' /\ CountInv'
  BY <1>1, TypesStep, FormStep, CountStep
<1>3. ASSUME ~shared' PROVE Apart'
  <2>1. PendInv /\ FollowInv /\ KindInv /\ RouteInv
    BY <1>1, <1>3, SharedStays DEF FilterInv, Apart
  <2> QED BY <1>1, <1>3, <2>1, PendStep, FollowStep, KindStep, RouteStep DEF Apart
<1> QED BY <1>2, <1>3 DEF FilterInv

\* The types of the filter's variables, and self.recording counts exactly the
\* threads that await a decision, on every way out, and stays within
\* PA_MAX_PENDING_RECORDS; whatever tags the client uses.
THEOREM PulseTypeCorrect == AudioSpec => []AudioTypeOK
<1>1. FilterInv => AudioTypeOK
  BY DEF FilterInv, PulseTypes, CountInv, Undecided, AudioTypeOK
<1> QED BY <1>1, FilterStart, FilterStep, PTL DEF AudioSpec

\* Commands on a stream by its index (PA_OWN_ONLY) go on to the server only
\* for streams it made for this client, with any number of packets and
\* replies on their way, as long as the client used no tag the filter takes
\* for another command's (shared): with such a tag it does not hold.
THEOREM OnlyOwnStreamsAlways == AudioSpec => []OnlyOwnStreams
<1>1. FilterInv => OnlyOwnStreams
  <2> SUFFICES ASSUME FilterInv, ~shared PROVE OnlyOwnStreams
    BY DEF OnlyOwnStreams
  <2>1. PulseTypes /\ OwnInv
    BY DEF FilterInv, Apart, PendInv
  <2>2. DOMAIN toServer = Line
    BY <2>1, Elements
  <2>3. held.cmd = "own" => held # NoPacket
    BY DEF NoPacket
  <2> QED BY <2>1, <2>2, <2>3 DEF OwnInv, OnlyOwnStreams
<1> QED BY <1>1, FilterStart, FilterStep, PTL DEF AudioSpec

\* A recording that runs hears what the user was asked about: once a
\* recording was classified as what it hears, properties by which the server
\* would connect it to something else get there behind its end
\* (pa_record_kind, from_client), however packets, replies, streams the
\* server ends and channels given again cross; again as long as no tag was
\* used that the filter takes for another command's.
THEOREM RecordingAsAskedAlways == AudioSpec => []RecordingAsAsked
<1>1. FilterInv => RecordingAsAsked
  <2> SUFFICES ASSUME FilterInv, ~shared, NEW st \in sstreams, st.kind = "source-output"
               PROVE  /\ thread[st.rec] \in {"end", "ended"}
                      /\ kind[st.rec] \in {"monitor", Hears(request[st.rec], sroutes)}
    BY DEF RecordingAsAsked
  <2>1. PulseTypes /\ KindInv /\ RouteInv
    BY DEF FilterInv, Apart
  <2>2. /\ st.rec \in Rec /\ thread[st.rec] \in {"end", "ended"} /\ kind[st.rec] # "none"
        /\ Clean(st.rec) => kind[st.rec] = Hears(request[st.rec], FALSE)
    BY <2>1 DEF KindInv
  <2>3. Clean(st.rec) => sroutes = FALSE
    BY <2>1 DEF RouteInv, CleanStreams, PulseTypes
  <2> QED BY <2>2, <2>3 DEF Clean
<1> QED BY <1>1, FilterStart, FilterStep, PTL DEF AudioSpec
=============================================================================
