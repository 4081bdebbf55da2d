---------------------------- MODULE BrokerDecide ----------------------------
(***************************************************************************)
(* sbx-broker's decisions (lib/broker/broker.py): the connection slots of  *)
(* Broker.serve and the whole of Broker.decide and Broker.ask.             *)
(*                                                                         *)
(* Every request is served by a thread of its own.  A thread takes a slot, *)
(* looks for a rule, then for an earlier answer, queues for its sandbox's  *)
(* turn, looks for an earlier answer again, asks the user, and leaves.     *)
(* Each section the code runs under self.lock is one step; between two     *)
(* such sections any other thread, the clock and the peers may run.        *)
(*                                                                         *)
(* Data: a key is everything decide() can tell two requests apart by (the  *)
(* operation, its arguments, the folder).  A rule's pattern is the set of  *)
(* keys it matches.  Times are ticks of an abstract clock.                 *)
(***************************************************************************)
EXTENDS Naturals, Sequences, FiniteSets

CONSTANTS
  Sandbox,       \* the sandboxes of the configuration
  Request,       \* the connections sandboxes ever make, one thread each
  Key,           \* what a request asks for, as decide() tells it
  SessionKey,    \* keys whose caller passes allow_session=True
  ConnKey,       \* keys whose caller passes its connection (conn=...)
  DenyKey,       \* the deny-all groups
  NoDeny,        \* deny_all=None
  DenyOf,        \* the group of each key, or NoDeny
  Rules,         \* each sandbox's rules, first match wins
  NoThread,      \* an unlocked turn
  MAX_CONNS,
  PROMPT_QUEUE,
  SESSION_TTL,
  MaxTime        \* bound on the clock, for model checking

Actions == {"allow", "deny", "prompt"}

ASSUME ConstantsAssumption ==
  /\ SessionKey \subseteq Key
  /\ ConnKey \subseteq Key
  /\ NoDeny \notin DenyKey
  /\ DenyOf \in [Key -> DenyKey \cup {NoDeny}]
  /\ Rules \in [Sandbox -> Seq([covers : SUBSET Key, action : Actions])]
  /\ NoThread \notin Request
  /\ IsFiniteSet(Request)
  /\ MAX_CONNS \in Nat
  /\ PROMPT_QUEUE \in Nat
  /\ SESSION_TTL \in Nat
  /\ MaxTime \in Nat

VARIABLES
  sandbox,   \* whose socket each request arrives on
  key,       \* what each request asks for
  pc,        \* where each request's thread is
  verdict,   \* why each request was allowed or refused
  conns,     \* open connections of each sandbox          (self.conns)
  approved,  \* expiry of each session approval, 0 if none (self.approved)
  denied,    \* expiry of each deny-all, 0 if none         (self.denied)
  turn,      \* the thread holding a sandbox's turn        (self.turns)
  waiting,   \* requests on screen or waiting their turn   (self.waiting)
  now,       \* time.time()
  at,        \* history: when each request was decided
  prior      \* history: the deny-alls already given when decide() was entered

inputs == <<sandbox, key>>
history == <<at, prior>>
vars == <<sandbox, key, pc, verdict, conns, approved, denied, turn,
          waiting, now, at, prior>>

PCs == {"new", "rule", "denied1", "approved1", "enqueue", "acquire",
        "denied2", "approved2", "peer", "ask", "asking", "release", "leave",
        "done", "closed"}

\* The reasons decide() gives with True ...
Allowing == {"rule_allow", "session_allow", "once", "session"}
\* ... and with False; "too_many" is serve()'s own refusal.
Refusing == {"rule_deny", "session_deny", "queue_full", "withdrawn",
             "not_asked", "deny", "deny_all", "too_many"}
Verdicts == {"none"} \cup Allowing \cup Refusing

Answers == {"once", "session", "deny", "deny-all"}

\* The thread counts in self.waiting; it holds the sandbox's turn.
InQueue == {"acquire", "denied2", "approved2", "peer", "ask", "asking",
            "release", "leave"}
Holding == {"denied2", "approved2", "peer", "ask", "asking", "release"}
HasSlot == PCs \ {"new", "closed"}

Init ==
  /\ sandbox \in [Request -> Sandbox]
  /\ key \in [Request -> Key]
  /\ pc = [r \in Request |-> "new"]
  /\ verdict = [r \in Request |-> "none"]
  /\ conns = [s \in Sandbox |-> 0]
  /\ approved = [s \in Sandbox |-> [k \in Key |-> 0]]
  /\ denied = [s \in Sandbox |-> [d \in DenyKey |-> 0]]
  /\ turn = [s \in Sandbox |-> NoThread]
  /\ waiting = [s \in Sandbox |-> 0]
  /\ now = 1
  /\ at = [r \in Request |-> 0]
  /\ prior = [r \in Request |-> {}]

(***************************************************************************)
(* Helpers                                                                 *)
(***************************************************************************)

\* rule_for: the action of the first rule that matches, None without one.
RuleFor(s, k) ==
  LET hits == {i \in DOMAIN Rules[s] : k \in Rules[s][i].covers}
  IN  IF hits = {} THEN "none"
      ELSE Rules[s][CHOOSE i \in hits : \A j \in hits : i <= j].action

\* Mutant: an approval never expires.
ApprovedBefore_NoExpiry(r) == approved[sandbox[r]][key[r]] # 0

ApprovedBefore(r) == approved[sandbox[r]][key[r]] > now

DeniedBefore(r) ==
  /\ DenyOf[key[r]] # NoDeny
  /\ denied[sandbox[r]][DenyOf[key[r]]] > now

\* What ask() makes of the prompt's answer: "session" only counts as such
\* where the caller allows it, and "deny-all" where it offers it.
Outcome(k, answer) ==
  CASE answer = "session" /\ k \in SessionKey -> "session"
    [] answer \in {"once", "session"} /\ ~(answer = "session" /\ k \in SessionKey) -> "once"
    [] answer = "deny-all" /\ DenyOf[k] # NoDeny -> "deny_all"
    [] OTHER -> "deny"

\* decide() has its result; a thread holding the turn has it to release.
Conclude(r, why) ==
  /\ verdict' = [verdict EXCEPT ![r] = why]
  /\ at' = [at EXCEPT ![r] = now]
  /\ pc' = [pc EXCEPT ![r] = IF pc[r] \in Holding THEN "release" ELSE "done"]

Goto(r, from, to) ==
  /\ pc[r] = from
  /\ pc' = [pc EXCEPT ![r] = to]

\* Mutant: one connection more than the limit.
Accept_OffByOne(r) ==
  /\ Goto(r, "new", "rule")
  /\ conns[sandbox[r]] <= MAX_CONNS
  /\ conns' = [conns EXCEPT ![sandbox[r]] = @ + 1]
  /\ UNCHANGED <<inputs, verdict, approved, denied, turn, waiting, now,
                 history>>

(***************************************************************************)
(* Broker.serve: a connection is accepted if the sandbox has a slot left.  *)
(***************************************************************************)
Accept(r) ==
  /\ Goto(r, "new", "rule")
  /\ conns[sandbox[r]] < MAX_CONNS
  /\ conns' = [conns EXCEPT ![sandbox[r]] = @ + 1]
  /\ UNCHANGED <<inputs, verdict, approved, denied, turn, waiting, now,
                 history>>

\* Mutant: a refused connection gives back a slot it never took.
TooMany_FreesSlot(r) ==
  /\ Goto(r, "new", "closed")
  /\ conns[sandbox[r]] >= MAX_CONNS
  /\ verdict' = [verdict EXCEPT ![r] = "too_many"]
  /\ conns' = [conns EXCEPT ![sandbox[r]] = @ - 1]
  /\ UNCHANGED <<inputs, approved, denied, turn, waiting, now, history>>

TooMany(r) ==
  /\ Goto(r, "new", "closed")
  /\ conns[sandbox[r]] >= MAX_CONNS
  /\ verdict' = [verdict EXCEPT ![r] = "too_many"]
  /\ UNCHANGED <<inputs, conns, approved, denied, turn, waiting, now,
                 history>>

(***************************************************************************)
(* Broker.decide                                                           *)
(***************************************************************************)
\* The deny-alls in force as decide() is entered (history only).
DenyAlls == {q \in Request : verdict[q] = "deny_all"}

\* Mutant: the approvals are looked at ahead of the denials.
Rule_ApprovedFirst(r) ==
  /\ Goto(r, "rule", "approved1")
  /\ prior' = [prior EXCEPT ![r] = DenyAlls]
  /\ UNCHANGED <<inputs, verdict, at, conns, approved, denied, turn, waiting,
                 now>>

Rule(r) ==
  /\ pc[r] = "rule"
  /\ prior' = [prior EXCEPT ![r] = DenyAlls]
  /\ \/ /\ RuleFor(sandbox[r], key[r]) = "allow"
        /\ Conclude(r, "rule_allow")
     \/ /\ RuleFor(sandbox[r], key[r]) = "deny"
        /\ Conclude(r, "rule_deny")
     \/ /\ RuleFor(sandbox[r], key[r]) \notin {"allow", "deny"}
        /\ Goto(r, "rule", "denied1")
        /\ UNCHANGED <<verdict, at>>
  /\ UNCHANGED <<inputs, conns, approved, denied, turn, waiting, now>>

\* denied_before, ahead of the queue and again with the turn.
CheckDenied(r) ==
  /\ pc[r] \in {"denied1", "denied2"}
  /\ \/ /\ DeniedBefore(r)
        /\ Conclude(r, "session_deny")
     \/ /\ ~DeniedBefore(r)
        /\ \/ Goto(r, "denied1", "approved1")
           \/ Goto(r, "denied2", "approved2")
        /\ UNCHANGED <<verdict, at>>
  /\ UNCHANGED <<inputs, conns, approved, denied, turn, waiting, now,
                 prior>>

\* approved_before, likewise.
CheckApproved(r) ==
  /\ pc[r] \in {"approved1", "approved2"}
  /\ \/ /\ ApprovedBefore(r)
        /\ Conclude(r, "session_allow")
     \/ /\ ~ApprovedBefore(r)
        /\ \/ Goto(r, "approved1", "enqueue")
           \/ Goto(r, "approved2", "peer")
        /\ UNCHANGED <<verdict, at>>
  /\ UNCHANGED <<inputs, conns, approved, denied, turn, waiting, now,
                 prior>>

\* Mutant: the request on screen is not counted in the limit.
Enqueue_OffByOne(r) ==
  /\ pc[r] = "enqueue"
  /\ waiting[sandbox[r]] <= PROMPT_QUEUE + 1
  /\ waiting' = [waiting EXCEPT ![sandbox[r]] = @ + 1]
  /\ Goto(r, "enqueue", "acquire")
  /\ UNCHANGED <<inputs, verdict, at, conns, approved, denied, turn, now,
                 prior>>

Enqueue(r) ==
  /\ pc[r] = "enqueue"
  /\ \/ /\ waiting[sandbox[r]] > PROMPT_QUEUE
        /\ Conclude(r, "queue_full")
        /\ UNCHANGED waiting
     \/ /\ ~(waiting[sandbox[r]] > PROMPT_QUEUE)
        /\ waiting' = [waiting EXCEPT ![sandbox[r]] = @ + 1]
        /\ Goto(r, "enqueue", "acquire")
        /\ UNCHANGED <<verdict, at>>
  /\ UNCHANGED <<inputs, conns, approved, denied, turn, now, prior>>

\* Mutant: every request gets a lock of its own (no setdefault).
AcquireTurn_OwnLock(r) ==
  /\ Goto(r, "acquire", "denied2")
  /\ turn' = [turn EXCEPT ![sandbox[r]] = r]
  /\ UNCHANGED <<inputs, verdict, conns, approved, denied, waiting, now,
                 history>>

\* Mutant: no second look at the answers given meanwhile.
AcquireTurn_NoRecheck(r) ==
  /\ Goto(r, "acquire", "peer")
  /\ turn[sandbox[r]] = NoThread
  /\ turn' = [turn EXCEPT ![sandbox[r]] = r]
  /\ UNCHANGED <<inputs, verdict, conns, approved, denied, waiting, now,
                 history>>

AcquireTurn(r) ==
  /\ Goto(r, "acquire", "denied2")
  /\ turn[sandbox[r]] = NoThread
  /\ turn' = [turn EXCEPT ![sandbox[r]] = r]
  /\ UNCHANGED <<inputs, verdict, conns, approved, denied, waiting, now,
                 history>>

\* peer_gone: a requester may have hung up by now, or not; it is looked at
\* only for callers that pass their connection, and only here.
CheckPeer(r) ==
  /\ pc[r] = "peer"
  /\ \/ /\ key[r] \in ConnKey
        /\ Conclude(r, "withdrawn")
     \/ /\ Goto(r, "peer", "ask")
        /\ UNCHANGED <<verdict, at>>
  /\ UNCHANGED <<inputs, conns, approved, denied, turn, waiting, now,
                 prior>>

\* ask(): the dialog goes up ...
ShowDialog(r) ==
  /\ Goto(r, "ask", "asking")
  /\ UNCHANGED <<inputs, verdict, conns, approved, denied, turn,
                 waiting, now, history>>

\* ... the user answers it, and what counts for the session is remembered ...
Answer(r, answer) ==
  /\ pc[r] = "asking"
  /\ LET out == Outcome(key[r], answer)
     IN  /\ Conclude(r, out)
         /\ approved' = IF out = "session"
                        THEN [approved EXCEPT ![sandbox[r]][key[r]] = now + SESSION_TTL]
                        ELSE approved
         /\ denied' = IF out = "deny_all"
                      THEN [denied EXCEPT ![sandbox[r]][DenyOf[key[r]]] = now + SESSION_TTL]
                      ELSE denied
  /\ UNCHANGED <<inputs, conns, turn, waiting, now, prior>>

\* ... or it can't be shown, or nobody answers before the timeout.
AskFails(r) ==
  /\ pc[r] \in {"ask", "asking"}
  /\ Conclude(r, "not_asked")
  /\ UNCHANGED <<inputs, conns, approved, denied, turn, waiting, now,
                 prior>>

\* Mutant: the turn stays locked.
ReleaseTurn_Forgets(r) ==
  /\ Goto(r, "release", "leave")
  /\ UNCHANGED <<inputs, verdict, conns, approved, denied, turn, waiting, now,
                 history>>

ReleaseTurn(r) ==
  /\ Goto(r, "release", "leave")
  /\ turn' = [turn EXCEPT ![sandbox[r]] = NoThread]
  /\ UNCHANGED <<inputs, verdict, conns, approved, denied, waiting, now,
                 history>>

Leave(r) ==
  /\ Goto(r, "leave", "done")
  /\ waiting' = [waiting EXCEPT ![sandbox[r]] = @ - 1]
  /\ UNCHANGED <<inputs, verdict, conns, approved, denied, turn, now,
                 history>>

\* The reply is sent, the connection closed and its slot given back.
Close(r) ==
  /\ Goto(r, "done", "closed")
  /\ conns' = [conns EXCEPT ![sandbox[r]] = @ - 1]
  /\ UNCHANGED <<inputs, verdict, approved, denied, turn, waiting, now,
                 history>>

\* Environment: time passes.
Tick ==
  /\ now < MaxTime
  /\ now' = now + 1
  /\ UNCHANGED <<inputs, pc, verdict, conns, approved, denied, turn,
                 waiting, history>>

Finished ==
  /\ \A r \in Request : pc[r] = "closed"
  /\ now = MaxTime
  /\ UNCHANGED vars

ThreadStep(r) ==
  \/ Accept(r) \/ TooMany(r)
  \/ Rule(r) \/ CheckDenied(r) \/ CheckApproved(r)
  \/ Enqueue(r) \/ AcquireTurn(r) \/ CheckPeer(r)
  \/ ShowDialog(r) \/ AskFails(r) \/ \E a \in Answers : Answer(r, a)
  \/ ReleaseTurn(r) \/ Leave(r) \/ Close(r)

Next ==
  \/ \E r \in Request : ThreadStep(r)
  \/ Tick
  \/ Finished

Spec == Init /\ [][Next]_vars

-----------------------------------------------------------------------------
TypeOK ==
  /\ sandbox \in [Request -> Sandbox]
  /\ key \in [Request -> Key]
  /\ pc \in [Request -> PCs]
  /\ verdict \in [Request -> Verdicts]
  /\ conns \in [Sandbox -> Nat]
  /\ approved \in [Sandbox -> [Key -> Nat]]
  /\ denied \in [Sandbox -> [DenyKey -> Nat]]
  /\ turn \in [Sandbox -> Request \cup {NoThread}]
  /\ waiting \in [Sandbox -> Nat]
  /\ now \in Nat
  /\ at \in [Request -> Nat]
  /\ prior \in [Request -> SUBSET Request]

\* One dialog per sandbox at a time, whatever its requests are for.
OneDialog ==
  \A q, r \in Request :
    /\ pc[q] = "asking" /\ pc[r] = "asking"
    /\ sandbox[q] = sandbox[r]
    => q = r

\* The user is never asked what an answer still in force covers, although
\* that answer may have come while the request stood in line: nothing is
\* granted or refused for the session behind a dialog on screen.
DialogNeeded ==
  \A r \in Request :
    pc[r] = "asking" => ~ApprovedBefore(r) /\ ~DeniedBefore(r)

\* The threads of a sandbox that are somewhere in a region of the code.
ThreadsIn(s, region) == {r \in Request : sandbox[r] = s /\ pc[r] \in region}

\* self.waiting counts exactly the threads between their two visits to it,
\* on every way out of decide(), and one more than PROMPT_QUEUE at most.
QueueBound ==
  \A s \in Sandbox :
    /\ waiting[s] = Cardinality(ThreadsIn(s, InQueue))
    /\ waiting[s] <= PROMPT_QUEUE + 1

\* A slot is held for exactly as long as a connection is served.
SlotBound ==
  \A s \in Sandbox :
    /\ conns[s] = Cardinality(ThreadsIn(s, HasSlot))
    /\ conns[s] <= MAX_CONNS

\* A request let through by "an earlier answer" has one: the user allowed
\* the same key of the same sandbox for the session, by a dialog that offers
\* that, less than SESSION_TTL before.
SessionGrantBacked ==
  \A r \in Request :
    verdict[r] = "session_allow" =>
      /\ key[r] \in SessionKey
      /\ \E q \in Request :
           /\ verdict[q] = "session"
           /\ sandbox[q] = sandbox[r]
           /\ key[q] = key[r]
           /\ at[q] <= at[r]
           /\ at[r] < at[q] + SESSION_TTL

\* A deny-all the user gave before a request came in holds for it, ahead of
\* any approval for the session, until it expires; only a rule is stronger.
DenyAllHolds ==
  \A r \in Request : \A q \in prior[r] :
    /\ sandbox[q] = sandbox[r]
    /\ DenyOf[key[q]] = DenyOf[key[r]]
    /\ verdict[r] \in Allowing \ {"rule_allow"}
    => at[r] >= at[q] + SESSION_TTL
=============================================================================
