------------------------------ MODULE OpUplink ------------------------------
(***************************************************************************)
(* op-broker across the VM boundary (pkgs/op-broker/op_broker.py): the     *)
(* bridge on the host pairs each client's connection with an idle uplink,  *)
(* a connection the broker inside the 1Password VM keeps open to it, and   *)
(* tells it who the client is (run_bridge, splice, accept_loop); the       *)
(* broker serves it as that client and tops its idle uplinks up            *)
(* (run_uplink).  Either end may stop and start again at any time.         *)
(*                                                                         *)
(* A link is one uplink socket, with its end in the guest and its end on   *)
(* the host.  A worker of the guest is on a link, or dialing, or counts    *)
(* itself out; only its counters and its next top_up matter.               *)
(***************************************************************************)
EXTENDS Naturals, Sequences, FiniteSets

CONSTANTS
  UpClient, Configured,  \* the clients; those the guest's configuration has
  UpConn, UpWho,         \* connections on the host, and whose they are
  Link, NoLink,
  Pool, ConnsPerClient, MaxAdded,
  MaxOwed                \* bound, for model checking, on threads yet to top up

ASSUME UplinkAssumption ==
  /\ Configured \subseteq UpClient /\ IsFiniteSet(UpClient)
  /\ UpWho \in [UpConn -> UpClient] /\ NoLink \notin Link \cup UpClient
  /\ Pool \in Nat \ {0} /\ ConnsPerClient \in Nat \ {0} /\ MaxAdded \in Nat
  /\ MaxOwed \in Nat \ {0}

VARIABLES
  up,        \* the guest's broker runs
  clients,   \* its clients                      (broker.clients)
  total, idle, active, added,      \*            (run_uplink's counters)
  dialing,   \* workers between two sockets
  owed,      \* threads about to call top_up
  guest,     \* the guest's end of each link: "none", "wait" (idle), "serve",
             \*   "left" (closed, not counted out yet), "closed"
  serves,    \* the client a link is served as
  host,      \* the host's end: "none", "queued", "paired"
  queue,     \* the idle uplinks on the host     (run_bridge's idle)
  conn, on   \* each connection, and the link it is paired with

upVars == <<up, clients, total, idle, active, added, dialing, owed, guest, serves,
            host, queue, conn, on>>
counters == <<total, idle, active, added, clients>>
hostSide == <<queue, conn, on>>

Cap == Pool + ConnsPerClient * Cardinality(clients)
Bridged(w) == {c \in UpConn : UpWho[c] = w /\ conn[c] # "none"}

\* A link whose two ends are closed can be dialed anew.
CloseHost(s) ==
  /\ host' = [host EXCEPT ![s] = "none"]
  /\ guest' = [guest EXCEPT ![s] = IF @ = "closed" THEN "none" ELSE @]
CloseGuest(s) ==
  guest' = [guest EXCEPT ![s] = IF host[s] = "none" THEN "none" ELSE "closed"]

UpInit ==
  /\ up = FALSE /\ clients = Configured
  /\ total = 0 /\ idle = 0 /\ added = 0 /\ dialing = 0 /\ owed = 0
  /\ active = [w \in UpClient |-> 0]
  /\ guest = [s \in Link |-> "none"] /\ serves = [s \in Link |-> NoLink]
  /\ host = [s \in Link |-> "none"] /\ queue = <<>>
  /\ conn = [c \in UpConn |-> "none"] /\ on = [c \in UpConn |-> NoLink]
-----------------------------------------------------------------------------
(***************************************************************************)
(* The guest                                                               *)
(***************************************************************************)
Boot ==
  /\ ~up /\ up' = TRUE
  /\ owed' = 1
  /\ UNCHANGED <<counters, dialing, guest, serves, host, hostSide>>

\* The VM stops: the host finds its links closed.
Crash ==
  /\ up /\ up' = FALSE
  /\ clients' = Configured /\ added' = 0
  /\ total' = 0 /\ idle' = 0 /\ dialing' = 0 /\ owed' = 0
  /\ active' = [w \in UpClient |-> 0]
  /\ guest' = [s \in Link |-> IF host[s] = "none" THEN "none" ELSE "closed"]
  /\ serves' = [s \in Link |-> NoLink]
  /\ UNCHANGED <<host, hostSide>>

TopUp ==
  LET room == {n \in 0 .. Pool : idle + n <= Pool /\ total + n <= Cap}
      new == IF room = {} THEN 0 ELSE CHOOSE n \in room : \A m \in room : m <= n
  IN  /\ owed > 0 /\ owed' = owed - 1
      /\ idle' = idle + new /\ total' = total + new /\ dialing' = dialing + new
      /\ UNCHANGED <<up, clients, active, added, guest, serves, host, hostSide>>

\* A worker connects; the bridge takes the connection as an idle uplink.
Dial(s) ==
  /\ dialing > 0 /\ guest[s] = "none" /\ host[s] = "none"
  /\ dialing' = dialing - 1
  /\ guest' = [guest EXCEPT ![s] = "wait"]
  /\ host' = [host EXCEPT ![s] = "queued"]
  /\ queue' = Append(queue, s)
  /\ UNCHANGED <<up, counters, owed, serves, conn, on>>

\* The uplink is closed before a header came: dial again.
Redial(s) ==
  /\ guest[s] = "wait" /\ host[s] = "none"
  /\ guest' = [guest EXCEPT ![s] = "none"]
  /\ dialing' = dialing + 1
  /\ UNCHANGED <<up, counters, owed, serves, host, hostSide>>

\* Mutant: no new idle uplink until this one is done.
Header_NoTopUp(s, c) ==
  LET w == UpWho[c]
  IN  /\ guest[s] = "wait" /\ host[s] = "paired" /\ on[c] = s
      /\ w \in clients /\ active[w] < ConnsPerClient
      /\ guest' = [guest EXCEPT ![s] = "serve"]
      /\ serves' = [serves EXCEPT ![s] = w]
      /\ active' = [active EXCEPT ![w] = @ + 1]
      /\ idle' = idle - 1
      /\ UNCHANGED <<up, total, clients, added, dialing, owed, host, hostSide>>

\* Mutant: the client of another connection is taken.
Header_AnyClient(s, c) ==
  \E d \in UpConn :
  LET w == UpWho[d]
  IN  /\ guest[s] = "wait" /\ host[s] = "paired" /\ on[c] = s
      /\ w \in clients /\ active[w] < ConnsPerClient
      /\ guest' = [guest EXCEPT ![s] = "serve"]
      /\ serves' = [serves EXCEPT ![s] = w]
      /\ active' = [active EXCEPT ![w] = @ + 1]
      /\ idle' = idle - 1 /\ owed' = owed + 1
      /\ UNCHANGED <<up, total, clients, added, dialing, host, hostSide>>

\* The header has come, from the bridge: it says who the client is, one the
\* guest did not know when it started included.
Header(s, c) ==
  LET w == UpWho[c]
      new == w \notin clients
      full == active[w] >= ConnsPerClient
  IN  /\ guest[s] = "wait" /\ host[s] = "paired" /\ on[c] = s /\ owed < MaxOwed
      /\ ~(new /\ added >= MaxAdded)
      /\ clients' = clients \cup {w}
      /\ added' = IF new THEN added + 1 ELSE added
      /\ IF full
         THEN /\ CloseGuest(s) /\ dialing' = dialing + 1
              /\ UNCHANGED <<idle, active, owed, serves>>
         ELSE /\ guest' = [guest EXCEPT ![s] = "serve"]
              /\ serves' = [serves EXCEPT ![s] = w]
              /\ active' = [active EXCEPT ![w] = @ + 1]
              /\ idle' = idle - 1 /\ owed' = owed + 1
              /\ UNCHANGED dialing
      /\ UNCHANGED <<up, total, host, hostSide>>

HeaderRefused(s, c) ==
  /\ guest[s] = "wait" /\ host[s] = "paired" /\ on[c] = s
  /\ UpWho[c] \notin clients /\ added >= MaxAdded
  /\ CloseGuest(s) /\ dialing' = dialing + 1
  /\ UNCHANGED <<up, counters, owed, serves, host, hostSide>>

\* serve_conn returns: the client has gone, or sent what is no request.
ServeEnds(s) ==
  /\ guest[s] = "serve"
  /\ guest' = [guest EXCEPT ![s] = "left"]
  /\ UNCHANGED <<up, counters, dialing, owed, serves, host, hostSide>>

\* Mutant: only the active count is given back.
CountOut_KeepsTotal(s) ==
  /\ guest[s] = "left" /\ owed < MaxOwed
  /\ CloseGuest(s)
  /\ serves' = [serves EXCEPT ![s] = NoLink]
  /\ active' = [active EXCEPT ![serves[s]] = @ - 1]
  /\ owed' = owed + 1
  /\ UNCHANGED <<up, total, clients, idle, added, dialing, host, hostSide>>

\* The worker counts itself out, and will top up.
CountOut(s) ==
  /\ guest[s] = "left" /\ owed < MaxOwed
  /\ CloseGuest(s)
  /\ serves' = [serves EXCEPT ![s] = NoLink]
  /\ total' = total - 1
  /\ active' = [active EXCEPT ![serves[s]] = @ - 1]
  /\ owed' = owed + 1
  /\ UNCHANGED <<up, clients, idle, added, dialing, host, hostSide>>

\* An exception nobody catches (no socket for the next dial, say) ends a worker
\* that serves nobody.
WorkerFails ==
  /\ dialing > 0 /\ owed < MaxOwed
  /\ dialing' = dialing - 1
  /\ total' = total - 1 /\ idle' = idle - 1
  /\ owed' = owed + 1
  /\ UNCHANGED <<up, clients, active, added, guest, serves, host, hostSide>>
-----------------------------------------------------------------------------
(***************************************************************************)
(* The bridge                                                              *)
(***************************************************************************)
Accept(c) ==
  /\ conn[c] = "none" /\ Cardinality(Bridged(UpWho[c])) < ConnsPerClient
  /\ conn' = [conn EXCEPT ![c] = "want"]
  /\ UNCHANGED <<up, counters, dialing, owed, guest, serves, host, queue, on>>

\* take_uplink: the first of the queue, if the guest still holds it.
TakeUplink(c) ==
  LET s == Head(queue)
  IN  /\ conn[c] = "want" /\ queue # <<>>
      /\ queue' = Tail(queue)
      /\ IF guest[s] = "wait"
         THEN /\ host' = [host EXCEPT ![s] = "paired"]
              /\ conn' = [conn EXCEPT ![c] = "paired"]
              /\ on' = [on EXCEPT ![c] = s]
              /\ UNCHANGED guest
         ELSE CloseHost(s) /\ UNCHANGED <<conn, on>>
      /\ UNCHANGED <<up, counters, dialing, owed, serves>>

\* Nothing but dead uplinks for 5 seconds: the client hears "unavailable".
NoUplink(c) ==
  /\ conn[c] = "want"
  /\ queue # <<>> => guest[Head(queue)] # "wait"
  /\ conn' = [conn EXCEPT ![c] = "none"]
  /\ UNCHANGED <<up, counters, dialing, owed, guest, serves, host, queue, on>>

\* splice is over: the client has gone, and the guest's end has closed or a
\* reply could not be passed on.
SpliceEnds(c) ==
  /\ conn[c] = "paired"
  /\ conn' = [conn EXCEPT ![c] = "none"]
  /\ on' = [on EXCEPT ![c] = NoLink]
  /\ CloseHost(on[c])
  /\ UNCHANGED <<up, counters, dialing, owed, serves, queue>>

BridgeRestart ==
  /\ queue' = <<>>
  /\ conn' = [c \in UpConn |-> "none"] /\ on' = [c \in UpConn |-> NoLink]
  /\ host' = [s \in Link |-> "none"]
  /\ guest' = [s \in Link |-> IF guest[s] = "closed" THEN "none" ELSE guest[s]]
  /\ UNCHANGED <<up, counters, dialing, owed, serves>>

LinkStep(s) ==
  \/ Dial(s) \/ Redial(s) \/ CountOut(s)
  \/ \E c \in UpConn : Header(s, c) \/ HeaderRefused(s, c)
BridgeStep(c) == TakeUplink(c) \/ NoUplink(c)

UpNext ==
  \/ Boot \/ Crash \/ TopUp \/ WorkerFails \/ BridgeRestart
  \/ \E s \in Link : LinkStep(s) \/ ServeEnds(s)
  \/ \E c \in UpConn : Accept(c) \/ BridgeStep(c) \/ SpliceEnds(c)

UpSpec == UpInit /\ [][UpNext]_upVars

\* The workers and the bridge's threads are scheduled, and a worker doesn't fail
\* every time it could dial.  Nothing is assumed of the clients, nor that the VM
\* ever runs.
UpFair == /\ WF_upVars(TopUp) /\ WF_upVars(\E s \in Link : LinkStep(s))
          /\ SF_upVars(\E s \in Link : Dial(s))
          /\ \A c \in UpConn : WF_upVars(BridgeStep(c))
-----------------------------------------------------------------------------
LinksIn(where) == {s \in Link : guest[s] \in where}

UpTypeOK ==
  /\ clients \subseteq UpClient /\ added \in 0 .. MaxAdded
  /\ \A w \in UpClient : active[w] \in 0 .. ConnsPerClient
  /\ total \in 0 .. Cap /\ idle \in 0 .. Pool
  /\ dialing \in Nat /\ owed \in Nat
  /\ guest \in [Link -> {"none", "wait", "serve", "left", "closed"}]
  /\ host \in [Link -> {"none", "queued", "paired"}]
  /\ \A s \in Link : guest[s] \in {"serve", "left"} <=> serves[s] # NoLink
  /\ conn \in [UpConn -> {"none", "want", "paired"}]
  /\ on \in [UpConn -> Link \cup {NoLink}]

\* While the guest runs and no thread is about to top up, exactly Pool
\* uplinks are idle, whatever its clients do: a client at its own limit
\* does not take those the others need.  The counters are what the workers
\* do, on every way out of worker(), an exception nobody catches included; that
\* top_up can start its threads is assumed.
PoolKept ==
  /\ up /\ owed = 0 => idle = Pool
  /\ idle = dialing + Cardinality(LinksIn({"wait"}))
  /\ total = idle + Cardinality(LinksIn({"serve", "left"}))

\* A connection is served as the client whose socket it came in on, although
\* links are queued, die, and are dialed again while connections wait.
ServedAsItself ==
  \A c \in UpConn :
    /\ on[c] # NoLink => \A d \in UpConn : on[d] = on[c] => d = c
    /\ on[c] # NoLink /\ guest[on[c]] = "serve" => serves[on[c]] = UpWho[c]

\* As long as the guest runs, an uplink is on offer again and again (unless
\* dead ones the bridge has not looked at use up the sockets of the model).
UplinkOnOffer ==
  []<>(up /\ (\E s \in Link : guest[s] = "none" /\ host[s] = "none")
         => \E s \in Link : guest[s] = "wait" /\ host[s] = "queued")
=============================================================================
