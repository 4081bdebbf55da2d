------------------------------- MODULE OpFill -------------------------------
(***************************************************************************)
(* op-broker serving fills (pkgs/op-broker/op_broker.py): the limits of a  *)
(* requester (Limiter), the watch for probing (ProbeWatch), the "until it  *)
(* stops" answers (Sessions), the cached list of logins (Op) and a request *)
(* from its line to its reply (Broker.handle, serve_conn).                 *)
(*                                                                         *)
(* Every connection is served by a thread of its own.  Each section under  *)
(* a lock, together with what the thread does alone up to its next wait    *)
(* (for op, for the dialog lock, for the user), is one step.  The clock    *)
(* runs in ticks; a fill costs one token and a tick brings REFILL.         *)
(***************************************************************************)
EXTENDS Integers, Sequences, FiniteSets, SequencesExt, FiniteSetsExt

CONSTANTS
  Client, Conn, Whose,  \* requesters, connections, whose each may be
  Item,                 \* the logins, numbered in the order of their titles
  Saved,                \* the saved origins of each login
  Line,                 \* the fill requests a client may send
  None, Refused,
  Mode, AllowHttp,      \* match.mode, match.allowHttp
  AllowSession, MaxCandidates,
  Burst, REFILL, PerHour, Hour, DenyLimit, DenyCooldown,
  Distinct, Window, Interval, ProbeBlock,
  SessionIdle, SessionMax, ListTtl,
  MaxTime               \* bound on the clock, for model checking

ASSUME FillAssumption ==
  /\ Whose \subseteq [Conn -> Client] /\ Item \subseteq Nat
  /\ \A i \in Item : \A u \in Saved[i] :
       u.scheme \in {"http", "https"} /\ u.host \in Seq(STRING)
  /\ None \notin Client \cup Conn \cup Item
  /\ IsFiniteSet(Item) /\ MaxCandidates \in Nat \ {0}
  /\ {Burst, REFILL, PerHour, Hour, DenyCooldown, Interval, Window, ProbeBlock,
      SessionIdle, SessionMax, ListTtl} \subseteq Nat
  /\ MaxTime \in [Whose -> Nat]
  /\ DenyLimit \in Nat \ {0} /\ Distinct \in Nat \ {0}

VARIABLES
  now,
  who,        \* whose socket each connection is on
  pc,         \* where each connection's thread is
  req,        \* the request it serves, parsed
  shown,      \* the candidates of the chooser, in its order
  chosen,     \* the login picked
  reply,      \* the last reply to anyone: [to, what], what a login or Refused
  inflight,   \* requesters with a fill in flight          (self.inflight)
  dialog,     \* the thread holding the dialog lock         (self.dialog)
  notice,     \* the requester a notice on screen is about  (notice_lock)
  lim,        \* each requester's limits                    (Limiter.state)
  seen, last, \* latest misses per origin, latest notice    (ProbeWatch)
  lastClose, grants,                                     \* (Sessions)
  cache       \* when op last gave the list                 (_list_cache)

fillVars == <<now, who, pc, req, shown, chosen, reply, inflight, dialog, notice, lim,
              seen, last, lastClose, grants, cache>>
limits == <<lim, seen, last, notice>>
rest == <<now, who>>

\* Before anything the clock can be compared with.
Never == 0 - (1 + Window + Interval + SessionIdle + ListTtl)
Serving == {"lookup", "queue", "choose", "prompt", "get"}
Origins == {l.origin : l \in Line}

(***************************************************************************)
(* Which logins fit a page, and how requests read                          *)
(***************************************************************************)

\* A subdomain of a saved host; a host of one label, an address included,
\* has none.
Subdomain(host, of) == Len(of) > 1 /\ IsStrictSuffix(of, host)

UrlMatches(o, u) ==
  /\ u.scheme = "https" => o.scheme = "https"
  /\ u.port = o.port
  /\ o.host = u.host \/ (Mode = "subdomain" /\ Subdomain(o.host, u.host))

\* The best match of a login's saved origins: 0 the page's own host, 1 a
\* parent of it.
MatchRank(o, i) == IF \E u \in Saved[i] : UrlMatches(o, u) /\ u.host = o.host
                   THEN 0 ELSE 1
Matching(o) == {i \in Item : \E u \in Saved[i] : UrlMatches(o, u)}

Ahead(o, i, j) == \/ MatchRank(o, i) < MatchRank(o, j)
                  \/ MatchRank(o, i) = MatchRank(o, j) /\ i < j

\* All that match, the best ones first: there is one such sequence.
Candidates(o) ==
  {s \in [1 .. Cardinality(Matching(o)) -> Matching(o)] :
     \A m, n \in DOMAIN s : m < n => Ahead(o, s[m], s[n])}

\* A page embedded in itself is not embedded; http pages are refused unless
\* the configuration allows them, as the page a form is in at least.
BadLine(l) == (l.origin.scheme = "http" /\ ~AllowHttp) \/ l.want = {}
ParseRequest(l) == [l EXCEPT !.top = IF @ = l.origin THEN None ELSE @]

ASSUME LineAssumption ==
  \A l \in Line : ParseRequest(l) # None /\ ParseRequest(l).origin.host \in Seq(STRING)

(***************************************************************************)
(* Limiter                                                                 *)
(***************************************************************************)
NewLimits == [tokens |-> Burst, at |-> 0, hour |-> <<>>, denials |-> 0, until |-> 0]

\* The fills of the last hour: older ones are dropped from the front.
LastHour(times) ==
  LET old == {n \in DOMAIN times : \A m \in 1 .. n : now - times[m] >= Hour}
  IN  SubSeq(times, Cardinality(old) + 1, Len(times))

Refilled(s) == [s EXCEPT !.tokens = Min({Burst, @ + (now - s.at) * REFILL}),
                         !.at = now, !.hour = LastHour(@)]

Take(s) ==
  IF now < s.until THEN [why |-> "cooldown", state |-> s]
  ELSE IF Refilled(s).tokens < 1 \/ Len(Refilled(s).hour) >= PerHour
       THEN [why |-> "rate-limited", state |-> Refilled(s)]
       ELSE [why |-> None, state |-> [Refilled(s) EXCEPT !.tokens = @ - 1,
                                                        !.hour = Append(@, now)]]

Denied(s) == IF s.denials + 1 >= DenyLimit
             THEN [s EXCEPT !.denials = 0, !.until = now + DenyCooldown]
             ELSE [s EXCEPT !.denials = @ + 1]

Block(s) == [s EXCEPT !.until = Max({@, now + ProbeBlock})]

(***************************************************************************)
(* ProbeWatch and the notice                                               *)
(***************************************************************************)
Recent(w) == {o \in Origins : now - seen[w][o] <= Window}

\* A notice at most every Interval; it is marked as shown whether or not
\* another one is on screen, in which case its thread gives up.
Notify(w, worth) ==
  LET due == worth /\ now - last[w] >= Interval
  IN  /\ last' = IF due THEN [last EXCEPT ![w] = now] ELSE last
      /\ notice' = IF due /\ notice = None THEN w ELSE notice

\* seen' is set already.
Miss(w, o) ==
  /\ seen' = [seen EXCEPT ![w][o] = now]
  /\ Notify(w, Cardinality(Recent(w) \cup {o}) >= Distinct)

(***************************************************************************)
(* Sessions                                                                *)
(***************************************************************************)
Open(w) == {c \in Conn : who[c] = w /\ pc[c] # "closed"}
Alive(w) == Open(w) # {} \/ now - lastClose[w] < SessionIdle

Key(w, i, r) == [who |-> w, item |-> i, origin |-> r.origin, top |-> r.top]
KeyOf(g) == [who |-> g.who, item |-> g.item, origin |-> g.origin, top |-> g.top]
InForce(g) == now - g.at < SessionMax
Grant(k, fields) ==
  [who |-> k.who, item |-> k.item, origin |-> k.origin, top |-> k.top,
   fields |-> fields, at |-> now]

\* A connection of the requester is open, so its session is alive.  Asking
\* after a grant past SessionMax drops it.
Covers(k, want) ==
  \E g \in grants : KeyOf(g) = k /\ InForce(g) /\ want \subseteq g.fields
Lookedup(ks) == {g \in grants : KeyOf(g) \in ks => InForce(g)}

\* Earlier fields are kept, as new as the ones just approved.
Granted(k, want) ==
  LET prev == {g \in grants : KeyOf(g) = k}
  IN  (grants \ prev)
        \cup {Grant(k, want \cup UNION {g.fields : g \in {h \in prev : InForce(h)}})}
-----------------------------------------------------------------------------
FillInit ==
  /\ now = 0
  /\ who \in Whose
  /\ pc = [c \in Conn |-> "closed"]
  /\ req = [c \in Conn |-> None]
  /\ shown = [c \in Conn |-> <<>>]
  /\ chosen = [c \in Conn |-> None]
  /\ reply = None
  /\ inflight = {}
  /\ dialog = None /\ notice = None
  /\ lim = [w \in Client |-> NewLimits]
  /\ seen = [w \in Client |-> [o \in Origins |-> Never]]
  /\ last = [w \in Client |-> Never]
  /\ lastClose = [w \in Client |-> Never]
  /\ grants = {}
  /\ cache = Never

\* Mutant: a reconnect finds the old grants.
Connect_KeepsGrants(c) ==
  /\ pc[c] = "closed"
  /\ pc' = [pc EXCEPT ![c] = "ready"]
  /\ UNCHANGED <<req, shown, chosen, reply, inflight, dialog, limits, rest, cache,
                 grants, lastClose>>

\* serve_conn begins.  A session that ended stays ended.
Connect(c) ==
  /\ pc[c] = "closed"
  /\ pc' = [pc EXCEPT ![c] = "ready"]
  /\ IF Alive(who[c])
     THEN UNCHANGED <<grants, lastClose>>
     ELSE /\ grants' = {g \in grants : g.who # who[c]}
          /\ lastClose' = [lastClose EXCEPT ![who[c]] = Never]
  /\ UNCHANGED <<req, shown, chosen, reply, inflight, dialog, limits, rest, cache>>

\* serve_conn ends, the client being gone or its line too long.
Disconnect(c) ==
  /\ pc[c] = "ready"
  /\ pc' = [pc EXCEPT ![c] = "closed"]
  /\ lastClose' = IF Open(who[c]) = {c} THEN [lastClose EXCEPT ![who[c]] = now]
                  ELSE lastClose
  /\ UNCHANGED <<req, shown, chosen, reply, inflight, dialog, limits, grants, rest,
                 cache>>

\* Mutant: a fill that ends any way but well stays in flight.
Answer_KeepsInflight(c, what) ==
  /\ pc' = [pc EXCEPT ![c] = "ready"]
  /\ reply' = [to |-> c, what |-> what]
  /\ req' = [req EXCEPT ![c] = None]
  /\ shown' = [shown EXCEPT ![c] = <<>>]
  /\ chosen' = [chosen EXCEPT ![c] = None]
  /\ inflight' = IF what = Refused THEN inflight ELSE inflight \ {who[c]}

\* The reply is sent; the thread reads the next line.
Answer(c, what) ==
  /\ pc' = [pc EXCEPT ![c] = "ready"]
  /\ reply' = [to |-> c, what |-> what]
  /\ req' = [req EXCEPT ![c] = None]
  /\ shown' = [shown EXCEPT ![c] = <<>>]
  /\ chosen' = [chosen EXCEPT ![c] = None]
  /\ inflight' = inflight \ {who[c]}

Go(c, to) == pc' = [pc EXCEPT ![c] = to]

\* A line that is no request, or comes while another fill of this
\* requester is in flight.
TurnAway(c, l) ==
  /\ pc[c] = "ready" /\ (BadLine(l) \/ who[c] \in inflight)
  /\ reply' = [to |-> c, what |-> Refused]
  /\ UNCHANGED <<pc, req, shown, chosen, inflight, dialog, limits, lastClose, grants,
                 rest, cache>>

\* A fill starts; a requester over its limits hears so, and the user may.
Fill(c, l) ==
  LET w == who[c]  t == Take(lim[w])
  IN  /\ pc[c] = "ready" /\ ~BadLine(l) /\ w \notin inflight
      /\ lim' = [lim EXCEPT ![w] = t.state]
      /\ IF t.why = None
         THEN /\ Go(c, "lookup")
              /\ req' = [req EXCEPT ![c] = ParseRequest(l)]
              /\ reply' = None
              /\ inflight' = inflight \cup {w}
              /\ UNCHANGED <<last, notice, shown, chosen>>
         ELSE Answer(c, Refused) /\ Notify(w, t.why = "rate-limited")
      /\ UNCHANGED <<seen, dialog, lastClose, grants, rest, cache>>

Fresh == now - cache < ListTtl

OpListFails(c) ==
  /\ pc[c] = "lookup" /\ ~Fresh
  /\ Answer(c, Refused)
  /\ UNCHANGED <<dialog, limits, lastClose, grants, rest, cache>>

\* The candidates: none (a probe, perhaps), one that a grant covers, or
\* those the user is asked about.
Lookup(c) ==
  LET w == who[c]  r == req[c]
      matching == Matching(r.origin)
      granted == {i \in matching : Covers(Key(w, i, r), r.want)}
  IN  /\ pc[c] = "lookup"
      /\ cache' = IF Fresh THEN cache ELSE now
      /\ grants' = Lookedup({Key(w, i, r) : i \in matching})
      /\ \/ /\ matching = {}
            /\ Miss(w, r.origin)
            /\ Answer(c, Refused)
         \/ /\ Cardinality(granted) = 1
            /\ Go(c, "get")
            /\ chosen' = [chosen EXCEPT ![c] = CHOOSE i \in granted : TRUE]
            /\ UNCHANGED <<req, shown, reply, inflight, seen, last, notice>>
         \/ /\ matching # {} /\ Cardinality(granted) # 1
            /\ Go(c, "queue")
            /\ \E cands \in Candidates(r.origin) : shown' = [shown EXCEPT ![c] = cands]
            /\ UNCHANGED <<req, chosen, reply, inflight, seen, last, notice>>
      /\ UNCHANGED <<dialog, lim, lastClose, rest>>

\* A login is picked: covered already (of several that are), which counts as
\* allowed, or asked about.
Pick(c, i, holder) ==
  LET k == Key(who[c], i, req[c])
  IN  /\ chosen' = [chosen EXCEPT ![c] = i]
      /\ shown' = [shown EXCEPT ![c] = <<>>]
      /\ grants' = Lookedup({k})
      /\ IF Covers(k, req[c].want)
         THEN /\ Go(c, "get") /\ dialog' = None
              /\ lim' = [lim EXCEPT ![who[c]].denials = 0]
         ELSE Go(c, "prompt") /\ dialog' = holder /\ UNCHANGED lim

\* The dialog lock is free.
TakeDialog(c) ==
  /\ pc[c] = "queue" /\ dialog = None
  /\ IF Len(shown[c]) = 1
     THEN Pick(c, shown[c][1], c)
     ELSE /\ Go(c, "choose")
          /\ dialog' = c
          /\ shown' = [shown EXCEPT ![c] =
                         SubSeq(@, 1, Min({MaxCandidates, Len(@)}))]
          /\ UNCHANGED <<chosen, lim, grants>>
  /\ UNCHANGED <<req, reply, inflight, seen, last, notice, lastClose, rest, cache>>

\* queue_wait has passed.
QueueTimeout(c) ==
  /\ pc[c] = "queue" /\ dialog # None
  /\ Answer(c, Refused)
  /\ UNCHANGED <<dialog, limits, lastClose, grants, rest, cache>>

Choose(c) ==
  /\ pc[c] = "choose"
  /\ \E i \in ToSet(shown[c]) : Pick(c, i, c)
  /\ UNCHANGED <<req, reply, inflight, seen, last, notice, lastClose, rest, cache>>

\* Mutant: a prompt that is never answered is not a denial.
Deny_ChooserOnly(c) ==
  /\ pc[c] = "choose"
  /\ dialog' = None
  /\ lim' = [lim EXCEPT ![who[c]] = Denied(@)]
  /\ Answer(c, Refused)
  /\ UNCHANGED <<seen, last, notice, lastClose, grants, rest, cache>>

\* Denied, not answered in time, or the chooser or prompt fails.
Deny(c) ==
  /\ pc[c] \in {"choose", "prompt"}
  /\ dialog' = None
  /\ lim' = [lim EXCEPT ![who[c]] = Denied(@)]
  /\ Answer(c, Refused)
  /\ UNCHANGED <<seen, last, notice, lastClose, grants, rest, cache>>

Allow(c, answer) ==
  /\ pc[c] = "prompt"
  /\ dialog' = None
  /\ lim' = [lim EXCEPT ![who[c]].denials = 0]
  /\ grants' = IF answer = "session" /\ AllowSession
               THEN Granted(Key(who[c], chosen[c], req[c]), req[c].want)
               ELSE grants
  /\ Go(c, "get")
  /\ UNCHANGED <<req, shown, chosen, reply, inflight, seen, last, notice, lastClose,
                 rest, cache>>

\* The secret is fetched, unless op fails or the login has gone since it
\* was listed.
Deliver(c) ==
  /\ pc[c] = "get"
  /\ \E what \in {chosen[c], Refused} : Answer(c, what)
  /\ UNCHANGED <<dialog, limits, lastClose, grants, rest, cache>>

\* The notice is answered, or closed.
NoticeEnds(block) ==
  /\ notice # None
  /\ notice' = None
  /\ lim' = IF block THEN [lim EXCEPT ![notice] = Block(@)] ELSE lim
  /\ UNCHANGED <<pc, req, shown, chosen, reply, inflight, dialog, seen, last, lastClose,
                 grants, rest, cache>>

Tick ==
  /\ now < MaxTime[who]
  /\ now' = now + 1
  /\ UNCHANGED <<who, pc, req, shown, chosen, reply, inflight, dialog, limits, lastClose,
                 grants, cache>>

\* The broker stops and is started anew (as 1Password is): nothing of its
\* state is on disk.
Restart ==
  /\ pc' = [c \in Conn |-> "closed"]
  /\ req' = [c \in Conn |-> None]
  /\ shown' = [c \in Conn |-> <<>>]
  /\ chosen' = [c \in Conn |-> None]
  /\ reply' = None
  /\ inflight' = {}
  /\ dialog' = None /\ notice' = None
  /\ lim' = [w \in Client |-> NewLimits]
  /\ seen' = [w \in Client |-> [o \in Origins |-> Never]]
  /\ last' = [w \in Client |-> Never]
  /\ lastClose' = [w \in Client |-> Never]
  /\ grants' = {} /\ cache' = Never
  /\ UNCHANGED rest

\* What a thread does of itself; the user may choose and allow.
ThreadStep(c) ==
  \/ OpListFails(c) \/ Lookup(c) \/ TakeDialog(c) \/ QueueTimeout(c)
  \/ Deny(c) \/ Deliver(c)

FillNext ==
  \/ \E c \in Conn :
       \/ Connect(c) \/ Disconnect(c) \/ ThreadStep(c)
       \/ \E l \in Line : TurnAway(c, l) \/ Fill(c, l)
       \/ Choose(c) \/ \E a \in {"once", "session"} : Allow(c, a)
  \/ \E b \in BOOLEAN : NoticeEnds(b)
  \/ Tick
  \/ Restart

FillSpec == FillInit /\ [][FillNext]_fillVars

\* op is killed after 30 seconds, a dialog after 75, which is a denial, and
\* queue_wait is 5 seconds: a thread goes on, whatever the user does.
FillFair == \A c \in Conn : WF_fillVars(ThreadStep(c))
-----------------------------------------------------------------------------
FillTypeOK ==
  /\ pc \in [Conn -> Serving \cup {"closed", "ready"}]
  /\ req \in [Conn -> {ParseRequest(l) : l \in Line} \cup {None}]
  /\ \A c \in Conn : shown[c] \in Seq(Item)
  /\ chosen \in [Conn -> Item \cup {None}]
  /\ reply = None \/ reply \in [to : Conn, what : Item \cup {Refused}]
  /\ inflight = {who[c] : c \in {d \in Conn : pc[d] \in Serving}}
  /\ dialog = None \/ pc[dialog] \in {"choose", "prompt"}
  /\ \A c \in Conn : pc[c] \in {"choose", "prompt"} => dialog = c
  /\ notice \in Client \cup {None}
  /\ \A w \in Client :
       /\ lim[w].tokens \in 0 .. Burst /\ Len(lim[w].hour) <= PerHour
       /\ lim[w].denials \in 0 .. DenyLimit - 1
  /\ \A g, h \in grants : KeyOf(g) = KeyOf(h) => g = h

\* What a page is entitled to, by the documentation: the saved host itself,
\* or a page below it; never a downgrade to http, never another port.
Entitled(i, o) ==
  \E u \in Saved[i] :
    /\ u.scheme = "http" \/ o.scheme = "https"
    /\ u.port = o.port
    /\ \/ o.host = u.host
       \/ /\ Mode = "subdomain" /\ Len(u.host) >= 2
          /\ \E n \in 1 .. Len(o.host) - 1 : SubSeq(o.host, n + 1, Len(o.host)) = u.host

\* The login a connection is about to be sent, and the permissions that hold.
Right == [c \in Conn |-> IF pc[c] = "get" THEN chosen[c] ELSE None]
Permissions(g) ==
  {[who |-> g.who, item |-> g.item, origin |-> g.origin, top |-> g.top, field |-> f] :
     f \in g.fields}
Holding == {g \in grants : Alive(g.who) /\ InForce(g)}
Standing == UNION {Permissions(g) : g \in Holding}

Service ==
  INSTANCE OpService WITH
    Request <- {ParseRequest(l) : l \in Line},
    Fits <- Entitled,
    asked <- req, right <- Right, standing <- Standing, told <- reply

\* op-broker keeps the promise of OpService: one question of a requester at
\* a time, one answer, and a login in it only where the user allowed this
\* login for this page and these fields, now or in a session of this
\* requester that has lasted until now; a grant of an ended session is never
\* used again, although the code only drops it when somebody looks.
FillService == Service!Spec

\* Every fill gets its reply, whoever holds the dialog lock and whatever
\* the user and op do.
FillAnswered == \A c \in Conn : pc[c] \in Serving ~> pc[c] \in {"ready", "closed"}

\* "block" on a notice refuses the requester for ProbeBlock: nothing lets it
\* ask earlier than that, short of a restart.
BlockHolds ==
  [][Restart \/ \A w \in Client : lim'[w].until >= lim[w].until]_fillVars
=============================================================================
