------------------------------ MODULE OpService ------------------------------
(***************************************************************************)
(* What op-broker promises (pkgs/op-broker/op_broker.py), without its      *)
(* limits, caches, locks and dialogs: a requester has one question open at *)
(* a time, gets one answer to it, and that answer carries a login only     *)
(* after the user has allowed this login for this page and these fields,   *)
(* just now or in a session of this requester that has not ended.          *)
(* OpFill implements it.                                                   *)
(***************************************************************************)
EXTENDS Naturals

CONSTANTS
  Conn,          \* the connections
  Client,        \* the requesters
  Item,          \* the logins of the vault
  Request,       \* what may be asked: [origin, top, want]
  Fits(_, _),    \* whether a login may be offered to a page
  None, Refused

VARIABLES
  who,        \* the requester each connection belongs to
  asked,      \* the question each connection waits on, or None
  right,      \* the login it may be sent, or None
  standing,   \* allowed "until it stops": [who, item, origin, top, field]
  told        \* the last answer: to whom, and a login or Refused

vars == <<who, asked, right, standing, told>>

\* The permissions a request for a login needs.
Needs(w, i, r) ==
  {[who |-> w, item |-> i, origin |-> r.origin, top |-> r.top, field |-> f] :
     f \in r.want}

Init ==
  /\ who \in [Conn -> Client]
  /\ asked = [c \in Conn |-> None]
  /\ right = [c \in Conn |-> None]
  /\ standing = {}
  /\ told = None

Ask(c, r) ==
  /\ \A d \in Conn : who[d] = who[c] => asked[d] = None
  /\ asked' = [asked EXCEPT ![c] = r]
  /\ told' = None
  /\ UNCHANGED <<right, standing>>

\* Turned away at once: the requester has a question open already, or may
\* not ask now.
TurnAway(c) ==
  /\ asked[c] = None
  /\ told' = [to |-> c, what |-> Refused]
  /\ UNCHANGED <<asked, right, standing>>

Refuse(c) ==
  /\ asked[c] # None
  /\ asked' = [asked EXCEPT ![c] = None]
  /\ right' = [right EXCEPT ![c] = None]
  /\ told' = [to |-> c, what |-> Refused]
  /\ UNCHANGED standing

\* The user allows it: once, or for the session as well.
Allow(c, i) ==
  /\ asked[c] # None /\ right[c] = None
  /\ Fits(i, asked[c].origin)
  /\ right' = [right EXCEPT ![c] = i]
  /\ standing' \in {standing, standing \cup Needs(who[c], i, asked[c])}
  /\ UNCHANGED <<asked, told>>

\* Allowed earlier in this session.
Reuse(c, i) ==
  /\ asked[c] # None /\ right[c] = None
  /\ Fits(i, asked[c].origin)
  /\ Needs(who[c], i, asked[c]) \subseteq standing
  /\ right' = [right EXCEPT ![c] = i]
  /\ UNCHANGED <<asked, standing, told>>

Deliver(c) ==
  /\ right[c] # None
  /\ told' = [to |-> c, what |-> right[c]]
  /\ asked' = [asked EXCEPT ![c] = None]
  /\ right' = [right EXCEPT ![c] = None]
  /\ UNCHANGED standing

\* Sessions end, permissions expire; what has ended does not come back.
Forget ==
  /\ standing' \subseteq standing
  /\ UNCHANGED <<asked, right, told>>

\* The broker is started anew.
Restart ==
  /\ asked' = [c \in Conn |-> None]
  /\ right' = [c \in Conn |-> None]
  /\ told' = None
  /\ standing' = {}

Next ==
  /\ UNCHANGED who
  /\ \/ \E c \in Conn :
          \/ \E r \in Request : Ask(c, r)
          \/ TurnAway(c) \/ Refuse(c) \/ Deliver(c)
          \/ \E i \in Item : Allow(c, i) \/ Reuse(c, i)
     \/ Forget
     \/ Restart

Spec == Init /\ [][Next]_vars
=============================================================================
