----------------------------- MODULE PulseFilter -----------------------------
(***************************************************************************)
(* The audio filter of sbx-broker (lib/broker/broker.py, class PulseFilter *)
(* and pa_record_kind): one client's connection to the user's sound        *)
(* server.                                                                 *)
(*                                                                         *)
(* from_client() reads the client's commands, refuses some and forwards    *)
(* the rest; a CREATE_RECORD_STREAM is handed to a thread of its own that  *)
(* classifies it, asks the user, and forwards it.  from_server() reads the *)
(* server's answers, follows the client's streams and forwards them.  They *)
(* share pending, streams, recording and client_routes under self.state.   *)
(*                                                                         *)
(* A packet from the client is taken in one step up to the point where it  *)
(* is forwarded: of the sections under the lock that one packet passes     *)
(* (tag reused? refused? recorded), the first finds what only from_client  *)
(* itself can make true.  Broker.decide is any answer at any later time.   *)
(***************************************************************************)
EXTENDS Naturals, Sequences, FiniteSets

CONSTANTS
  Tag,           \* the tags of commands
  NoTag,         \* no tag of a command
  Records,       \* bound on the record requests let in
  RecordRequest, \* the record requests there are
  Plan,          \* bound: the tags clients give each command, their record
                 \* requests, and how many packets they send
  PA_MAX_PENDING_RECORDS,
  mic,           \* the sandbox has the microphone capability
  MaxIndex       \* bound on the server's stream indices

\* What a record request says: it doesn't parse, names a stream to listen in
\* on, an index, a source, or routing stream properties.
Names == {"none", "default", "numbered", "monitor", "device"}
RecordFields == [bad : BOOLEAN, direct : BOOLEAN, index : BOOLEAN,
                 name : Names, routes : BOOLEAN]

Commands == {"auth", "playback", "record", "delete", "own", "routes", "never", "plain"}

ASSUME PulseAssumption ==
  /\ NoTag \notin Tag
  /\ Records \in Nat
  /\ RecordRequest \subseteq RecordFields
  /\ Plan \subseteq [tags : [Commands -> SUBSET Tag], requests : SUBSET RecordRequest,
                     packets : Nat]
  /\ PA_MAX_PENDING_RECORDS \in Nat
  /\ mic \in BOOLEAN
  /\ MaxIndex \in Nat

VARIABLES
  pending,        \* kind of each CREATE_*_STREAM waiting for its reply, by tag
  streams,        \* the client's streams: [kind, ch, index]
  recording,      \* record requests awaiting a decision
  client_routes,  \* the client's properties picked a target
  auth_tag,       \* the tag of the client's last AUTH
  version,        \* the protocol version is negotiated; or it is no version
  held,           \* the packet from_client is about to forward
  thread,         \* where each record request's thread is
  request,        \* what it asks for ...
  rtag,           \* ... and with which tag
  kind,           \* what it was classified as
  open,           \* the connection stands
  \* the client
  plan,           \* what it does: never changes
  sent,           \* packets sent
  answered,       \* history: record requests answered
  shared,         \* history: it used a tag the filter takes for another command's
  \* the server
  toServer, fromServer,
  sstreams,       \* its streams of this client: [kind, ch, index, rec]
  sroutes,        \* this client's properties pick a target
  owner           \* whose stream each index was given to

records == <<thread, request, rtag, kind>>
filter == <<pending, streams, recording, client_routes, auth_tag, version, held,
            records, open>>
client == <<plan, sent, answered, shared>>
server == <<sstreams, sroutes, owner>>
avars == <<filter, client, server, toServer, fromServer>>

Rec == 1 .. Records
NoRec == 0
Kinds == {"sink-input", "source-output"}
Channel == 0 .. MaxIndex
Index == 0 .. MaxIndex
Other == 0         \* a stream of another client's
NoPacket == [cmd |-> "nothing"]
NoRequest == [bad |-> TRUE, direct |-> FALSE, index |-> FALSE, name |-> "none",
              routes |-> FALSE]

\* A packet for the server; rec is the record request it is, if any.
Packet(cmd, t, k, n, r) == [cmd |-> cmd, tag |-> t, kind |-> k, n |-> n, rec |-> r]

AudioInit ==
  /\ pending = [t \in Tag |-> "none"]
  /\ streams = {}
  /\ recording = 0
  /\ client_routes = FALSE
  /\ auth_tag = NoTag
  /\ version = "none"
  /\ held = NoPacket
  /\ thread = [r \in Rec |-> "none"]
  /\ request = [r \in Rec |-> NoRequest]
  /\ rtag = [r \in Rec |-> NoTag]
  /\ kind = [r \in Rec |-> "none"]
  /\ open = TRUE
  /\ plan \in Plan
  /\ sent = 0 /\ answered = {} /\ shared = FALSE
  /\ toServer = <<>> /\ fromServer = <<>>
  /\ sstreams = {} /\ sroutes = FALSE
  /\ owner = [i \in Index |-> IF i = Other THEN "other" ELSE "nobody"]

(***************************************************************************)
(* pa_record_kind: "mic" only for the default source, chosen by nothing    *)
(* but the server's default; "monitor" for whatever can't be named.        *)
(***************************************************************************)
RecordKind(req, known, routes) ==
  IF \/ ~known \/ req.bad \/ req.direct \/ req.index \/ req.name = "numbered"
     \/ routes \/ req.routes \/ req.name = "monitor"
  THEN "monitor"
  ELSE IF req.name = "device" THEN "device" ELSE "mic"

(***************************************************************************)
(* from_client                                                             *)
(***************************************************************************)
Owns(k, index) == \E st \in streams : st.kind = k /\ st.index = index

\* A recording is asked about, on its way, or open.
Recording ==
  \/ recording > 0
  \/ \E t \in Tag : pending[t] = "source-output"
  \/ \E st \in streams : st.kind = "source-output"

\* Mutant: tags aren't looked at.
Reused_Never(t) == FALSE

Reused(t) == pending[t] # "none"

\* The server has a command with this tag still to answer, or its answer is on
\* its way.
Unanswered(t) ==
  \/ \E i \in DOMAIN toServer : toServer[i].tag = t
  \/ \E i \in DOMAIN fromServer : fromServer[i].tag = t

\* History: what the filter will take this command's answer for, or another's
\* for this one's.  Only a CREATE_*_STREAM's tag is kept from other commands,
\* and only those that come after it.
Shares(cmd, t) ==
  \/ cmd \in {"playback", "record", "auth"} /\ Unanswered(t)
  \/ cmd \in {"playback", "record", "plain"} /\ t = auth_tag

\* The client sends a packet, and from_client is free to take it.
Sends(cmd, t) ==
  /\ open /\ held = NoPacket
  /\ sent < plan.packets /\ t \in plan.tags[cmd]
  /\ sent' = sent + 1
  /\ UNCHANGED plan

\* self.refuse, or a tag that is in use: an error to the client.
Refused == UNCHANGED <<filter, answered, shared, toServer, fromServer, server>>

\* A packet that isn't refused for its tag.
Reads(cmd, t) == Sends(cmd, t) /\ ~Reused(t)

\* Forwarded by the next step.
Forward(cmd, t, k, n) ==
  /\ held' = Packet(cmd, t, k, n, NoRec)
  /\ shared' = (shared \/ Shares(cmd, t))
  /\ UNCHANGED <<recording, version, records, open, answered, toServer, fromServer, server>>

TagInUse(cmd, t) ==
  /\ Sends(cmd, t) /\ Reused(t)
  /\ Refused

Auth(t) ==
  /\ Reads("auth", t)
  /\ auth_tag' = t
  /\ Forward("auth", t, "none", 0)
  /\ UNCHANGED <<pending, streams, client_routes>>

CreatePlayback(t) ==
  /\ Reads("playback", t)
  /\ Forward("playback", t, "sink-input", 0)
  /\ pending' = [pending EXCEPT ![t] = "sink-input"]
  /\ UNCHANGED <<streams, client_routes, auth_tag>>

\* The next record request, as its thread gets it.
NewRecord(r, t, req, begin) ==
  /\ thread[r] = "none" /\ \A q \in Rec : q < r => thread[q] # "none"
  /\ thread' = [thread EXCEPT ![r] = begin]
  /\ request' = [request EXCEPT ![r] = req]
  /\ rtag' = [rtag EXCEPT ![r] = t]

\* Mutant: one request more than the limit waits.
CreateRecord_OffByOne(r, t, req) ==
  /\ Reads("record", t) /\ NewRecord(r, t, req, "classify")
  /\ recording <= PA_MAX_PENDING_RECORDS
  /\ recording' = recording + 1
  /\ pending' = [pending EXCEPT ![t] = "source-output"]
  /\ shared' = (shared \/ Shares("record", t))
  /\ UNCHANGED <<streams, client_routes, auth_tag, version, held, kind, open,
                 answered, toServer, fromServer, server>>

\* Mutant: a record request is pending once forwarded only.
CreateRecord_NotPending(r, t, req) ==
  /\ Reads("record", t) /\ NewRecord(r, t, req, "classify")
  /\ recording < PA_MAX_PENDING_RECORDS
  /\ recording' = recording + 1
  /\ shared' = (shared \/ Shares("record", t))
  /\ UNCHANGED <<pending, streams, client_routes, auth_tag, version, held, kind,
                 open, answered, toServer, fromServer, server>>

CreateRecord(r, t, req) ==
  /\ Reads("record", t)
  /\ \/ /\ recording >= PA_MAX_PENDING_RECORDS
        /\ NewRecord(r, t, req, "busy")
        /\ answered' = answered \cup {r}
        /\ UNCHANGED <<recording, pending, shared>>
     \/ /\ ~(recording >= PA_MAX_PENDING_RECORDS)
        /\ NewRecord(r, t, req, "classify")
        /\ recording' = recording + 1
        /\ pending' = [pending EXCEPT ![t] = "source-output"]
        /\ shared' = (shared \/ Shares("record", t))
        /\ UNCHANGED answered
  /\ UNCHANGED <<streams, client_routes, auth_tag, version, held, kind, open,
                 toServer, fromServer, server>>

\* DELETE_*_STREAM, of any channel.
Delete(t, k, ch) ==
  /\ Reads("delete", t)
  /\ Forward("delete", t, k, ch)
  /\ streams' = {st \in streams : ~(st.kind = k /\ st.ch = ch)}
  /\ UNCHANGED <<pending, client_routes, auth_tag>>

\* PA_OWN_ONLY: volume, mute and the like of a stream, by its index.
OnStream(t, k, index) ==
  /\ Reads("own", t)
  /\ \/ ~Owns(k, index) /\ Refused
     \/ /\ Owns(k, index)
        /\ Forward("own", t, k, index)
        /\ UNCHANGED <<pending, streams, client_routes, auth_tag>>

\* SET_CLIENT_NAME or UPDATE_CLIENT_PROPLIST that picks a target (any other
\* is like Plain).
ClientRoutes(t) ==
  /\ Reads("routes", t)
  /\ \/ Recording /\ Refused
     \/ /\ ~Recording
        /\ client_routes' = TRUE
        /\ Forward("routes", t, "none", 0)
        /\ UNCHANGED <<pending, streams, auth_tag>>

\* PA_REFUSED, and UPDATE_RECORD_STREAM_PROPLIST that picks a source.
NeverForwarded(t) ==
  /\ Reads("never", t)
  /\ Refused

\* Any other command, whose reply may name streams of others.
Plain(t) ==
  /\ Reads("plain", t)
  /\ Forward("plain", t, "none", 0)
  /\ UNCHANGED <<pending, streams, client_routes, auth_tag>>

ForwardHeld ==
  /\ held # NoPacket
  /\ held' = NoPacket
  /\ toServer' = IF open THEN Append(toServer, held) ELSE toServer
  /\ UNCHANGED <<pending, streams, recording, client_routes, auth_tag, version,
                 records, open, client, fromServer, server>>

(***************************************************************************)
(* record(): the thread of a CREATE_RECORD_STREAM                          *)
(***************************************************************************)
Move(r, from, to) ==
  /\ thread[r] = from
  /\ thread' = [thread EXCEPT ![r] = to]
  /\ UNCHANGED <<request, rtag, streams, client_routes, auth_tag, version, held, open,
                 plan, sent, shared, fromServer, server>>

\* Parsed by a version that is none, a request may read as anything.
Classify(r) ==
  /\ Move(r, "classify", "decide")
  /\ \E k \in IF version = "wrong" THEN {"mic", "monitor", "device"}
              ELSE {RecordKind(request[r], version = "agreed", client_routes)} :
       kind' = [kind EXCEPT ![r] = k]
  /\ UNCHANGED <<pending, recording, answered, toServer>>

\* The user (or a rule, or an earlier answer) allows it, where the sandbox may
\* record at all; or not.
Decide(r) ==
  /\ mic /\ Move(r, "decide", "forward")
  /\ UNCHANGED <<pending, recording, kind, answered, toServer>>

Refuse(r) ==
  /\ Move(r, "decide", "error")
  /\ pending' = [pending EXCEPT ![rtag[r]] = "none"]
  /\ UNCHANGED <<recording, kind, answered, toServer>>

ForwardRecord(r) ==
  /\ Move(r, "forward", "end")
  /\ toServer' = IF open
                 THEN Append(toServer, Packet("record", rtag[r], "source-output", 0, r))
                 ELSE toServer
  /\ UNCHANGED <<pending, recording, kind, answered>>

\* Mutant: the client isn't told.
SendError_Silent(r) ==
  /\ Move(r, "error", "end")
  /\ UNCHANGED <<pending, recording, kind, answered, toServer>>

SendError(r) ==
  /\ Move(r, "error", "end")
  /\ answered' = answered \cup {r}
  /\ UNCHANGED <<pending, recording, kind, toServer>>

EndRecord(r) ==
  /\ Move(r, "end", "ended")
  /\ recording' = recording - 1
  /\ UNCHANGED <<pending, kind, answered, toServer>>

(***************************************************************************)
(* from_server: server_control, then to the client.                        *)
(***************************************************************************)
Receives ==
  /\ open /\ fromServer # <<>>
  /\ fromServer' = Tail(fromServer)
  /\ answered' = IF Head(fromServer).rec \in Rec
                 THEN answered \cup {Head(fromServer).rec} ELSE answered
  /\ UNCHANGED <<recording, client_routes, auth_tag, held, records, open, plan, sent,
                 shared, toServer, server>>

\* A reply, as the filter tells one: to AUTH, one that could name a stream, or
\* one that says nothing.
Replies == {"version", "reply", "done"}

\* A reply with AUTH's tag is taken for AUTH's.
AuthReply ==
  /\ Receives
  /\ LET p == Head(fromServer)
     IN  /\ p.cmd \in Replies /\ p.tag = auth_tag
         /\ version' = CASE p.cmd = "version" -> "agreed"
                         [] p.cmd = "reply" -> "wrong"
                         [] OTHER -> version
  /\ UNCHANGED <<pending, streams>>

\* Any other REPLY or ERROR: the reply with the tag of a pending
\* CREATE_*_STREAM names the client's new stream.
Reply ==
  /\ Receives
  /\ LET p == Head(fromServer)
         k == pending[p.tag]
     IN  /\ p.cmd = "error" \/ (p.cmd \in Replies /\ p.tag # auth_tag)
         /\ pending' = [pending EXCEPT ![p.tag] = "none"]
         /\ streams' = IF k # "none" /\ p.cmd = "reply"
                       THEN {st \in streams : ~(st.kind = k /\ st.ch = p.ch)}
                              \cup {[kind |-> k, ch |-> p.ch, index |-> p.n]}
                       ELSE streams
  /\ UNCHANGED version

\* *_STREAM_KILLED
Killed ==
  /\ Receives
  /\ LET p == Head(fromServer)
     IN  /\ p.cmd = "killed"
         /\ streams' = {st \in streams : ~(st.kind = p.kind /\ st.ch = p.ch)}
  /\ UNCHANGED <<pending, version>>

\* The client hangs up: both connections are shut down.
HangUp ==
  /\ open
  /\ open' = FALSE
  /\ UNCHANGED <<pending, streams, recording, client_routes, auth_tag, version, held,
                 records, client, toServer, fromServer, server>>

(***************************************************************************)
(* External: the sound server (PipeWire's pulse server), which handles a   *)
(* client's packets in order, never reuses an index, and lets the client's *)
(* properties choose what its streams connect to.                          *)
(***************************************************************************)
Response(cmd, t, k, ch, n, r) ==
  [cmd |-> cmd, tag |-> t, kind |-> k, ch |-> ch, n |-> n, rec |-> r]

Takes(cmd) ==
  /\ toServer # <<>>
  /\ Head(toServer).cmd = cmd
  /\ toServer' = Tail(toServer)
  /\ UNCHANGED <<filter, client>>

\* To the packet it takes.
Responds(cmd, ch, n) ==
  fromServer' = Append(fromServer,
    Response(cmd, Head(toServer).tag, "none", ch, n, Head(toServer).rec))

ServerAuth ==
  /\ Takes("auth")
  /\ Responds("version", 0, Other) \/ Responds("error", 0, Other)
  /\ UNCHANGED server

ServerCreates ==
  /\ Takes("playback") \/ Takes("record")
  /\ LET p == Head(toServer)
     IN  \/ /\ Responds("error", 0, Other)
            /\ UNCHANGED <<sstreams, owner>>
         \/ \E i \in Index, ch \in Channel :
              /\ owner[i] = "nobody" /\ \A j \in Index : j < i => owner[j] # "nobody"
              /\ \A st \in sstreams : st.kind = p.kind => st.ch # ch
              /\ \A c \in Channel : c < ch => \E st \in sstreams : st.kind = p.kind /\ st.ch = c
              /\ owner' = [owner EXCEPT ![i] = "client"]
              /\ sstreams' = sstreams \cup
                   {[kind |-> p.kind, ch |-> ch, index |-> i, rec |-> p.rec]}
              /\ Responds("reply", ch, i)
  /\ UNCHANGED sroutes

ServerDeletes ==
  /\ Takes("delete")
  /\ LET p == Head(toServer)
     IN  sstreams' = {st \in sstreams : ~(st.kind = p.kind /\ st.ch = p.n)}
  /\ Responds("done", 0, Other)
  /\ UNCHANGED <<sroutes, owner>>

ServerRoutes ==
  /\ Takes("routes")
  /\ sroutes' = TRUE
  /\ Responds("done", 0, Other)
  /\ UNCHANGED <<sstreams, owner>>

\* Volume and the like.
ServerActs ==
  /\ Takes("own")
  /\ Responds("done", 0, Other)
  /\ UNCHANGED server

\* Everything else: an error, or a reply that may look like the one to a
\* stream's creation.
ServerReplies ==
  /\ Takes("plain")
  /\ Responds("reply", 0, Other) \/ Responds("error", 0, Other)
  /\ UNCHANGED server

ServerKills(st) ==
  /\ sstreams' = sstreams \ {st}
  /\ fromServer' = Append(fromServer, Response("killed", NoTag, st.kind, st.ch, 0, NoRec))
  /\ UNCHANGED <<filter, client, toServer, sroutes, owner>>

ClientPacket ==
  \E t \in Tag :
    \/ \E cmd \in Commands : TagInUse(cmd, t)
    \/ Auth(t) \/ CreatePlayback(t) \/ ClientRoutes(t) \/ NeverForwarded(t) \/ Plain(t)
    \/ \E r \in Rec, req \in plan.requests : CreateRecord(r, t, req)
    \/ \E k \in Kinds, ch \in Channel : Delete(t, k, ch)
    \/ \E k \in Kinds, i \in Index : OnStream(t, k, i)

RecordStep(r) ==
  \/ Classify(r) \/ Decide(r) \/ Refuse(r) \/ ForwardRecord(r)
  \/ SendError(r) \/ EndRecord(r)

FromServerStep == AuthReply \/ Reply \/ Killed

ServerStep ==
  \/ ServerAuth \/ ServerCreates \/ ServerDeletes \/ ServerRoutes
  \/ ServerActs \/ ServerReplies

AudioNext ==
  \/ ClientPacket \/ ForwardHeld
  \/ \E r \in Rec : RecordStep(r)
  \/ FromServerStep
  \/ ServerStep
  \/ \E st \in sstreams : ServerKills(st)
  \/ HangUp

AudioSpec == AudioInit /\ [][AudioNext]_avars

-----------------------------------------------------------------------------
Packets ==
  [cmd : Commands \ {"never"}, tag : Tag, kind : Kinds \cup {"none"}, n : Nat,
   rec : Rec \cup {NoRec}]

Threads == {"none", "busy", "classify", "decide", "forward", "error", "end", "ended"}
NoneRuns == {"none", "busy", "ended"}

\* Types; and self.recording counts the threads that await a decision, on
\* every way out.
AudioTypeOK ==
  /\ pending \in [Tag -> Kinds \cup {"none"}]
  /\ streams \subseteq [kind : Kinds, ch : Channel, index : Index]
  /\ recording = Cardinality({r \in Rec : thread[r] \notin NoneRuns})
  /\ recording <= PA_MAX_PENDING_RECORDS
  /\ client_routes \in BOOLEAN /\ open \in BOOLEAN /\ shared \in BOOLEAN
  /\ version \in {"none", "agreed", "wrong"}
  /\ auth_tag \in Tag \cup {NoTag}
  /\ held \in Packets \cup {NoPacket}
  /\ thread \in [Rec -> Threads]
  /\ kind \in [Rec -> {"none", "mic", "monitor", "device"}]
  /\ sstreams \subseteq [kind : Kinds, ch : Channel, index : Index, rec : Rec \cup {NoRec}]
  /\ sroutes \in BOOLEAN
  /\ owner \in [Index -> {"nobody", "client", "other"}]

\* What the server connects a recording to.
Hears(req, routes) ==
  IF req.bad \/ req.direct \/ req.index \/ req.name \in {"numbered", "monitor"}
     \/ routes \/ req.routes
  THEN "monitor"
  ELSE IF req.name = "device" THEN "device" ELSE "mic"

\* A recording that runs hears what the user was asked about: it never runs
\* with client properties the server got after, or before, the request was
\* classified without them.  For a client whose commands' tags stay apart
\* (Shares): the reply to another command, taken for the recording's, ends its
\* being pending, and properties pass.
RecordingAsAsked ==
  ~shared =>
    \A st \in sstreams :
      st.kind = "source-output" =>
        /\ thread[st.rec] \in {"end", "ended"}
        /\ kind[st.rec] \in {"monitor", Hears(request[st.rec], sroutes)}

\* Commands on a stream by its index reach the server only for streams it
\* made for this client, although replies of any command pass by, and tags are
\* used again: after their answers, and for whatever the filter lets through
\* meanwhile, but not as in Shares.
OnlyOwnStreams ==
  ~shared =>
    /\ \A i \in DOMAIN toServer :
         toServer[i].cmd = "own" => owner[toServer[i].n] = "client"
    /\ held.cmd = "own" => owner[held.n] = "client"

\* The filter has only the client's own streams as the client's, whatever tags
\* it uses: "another command can't share one still waiting (its reply could
\* pass for the stream's, with another client's index)".
StreamsAreOwn == \A st \in streams : owner[st.index] = "client"

\* Every record request of a standing connection is answered.
RecordAnswered ==
  \A r \in Rec : thread[r] # "none" ~> (r \in answered \/ ~open)
=============================================================================
