------------------------ MODULE BrokerDecideProofs ------------------------
(***************************************************************************)
(* Proofs about BrokerDecide, for any sandboxes, requests, keys, rules and *)
(* limits.                                                                 *)
(***************************************************************************)
EXTENDS BrokerDecide, FiniteSetTheorems, TLAPS

\* The variables whose types no arithmetic is needed for, and the counters
\* as integers: that they stay above zero takes the counting below.
BaseType ==
  /\ sandbox \in [Request -> Sandbox]
  /\ key \in [Request -> Key]
  /\ pc \in [Request -> PCs]
  /\ verdict \in [Request -> Verdicts]
  /\ approved \in [Sandbox -> [Key -> Nat]]
  /\ denied \in [Sandbox -> [DenyKey -> Nat]]
  /\ turn \in [Sandbox -> Request \cup {NoThread}]
  /\ now \in Nat
  /\ at \in [Request -> Nat]
  /\ prior \in [Request -> SUBSET Request]

\* Every answer ask() gives is one of decide()'s reasons.
LEMMA OutcomeType ==
  ASSUME NEW k, NEW a
  PROVE  /\ Outcome(k, a) \in {"session", "once", "deny_all", "deny"}
         /\ Outcome(k, a) = "session" => k \in SessionKey
         /\ Outcome(k, a) = "deny_all" => DenyOf[k] # NoDeny
  BY DEF Outcome

\* Conclude ends a decision: it keeps the types and moves the thread on.
LEMMA ConcludeType ==
  ASSUME BaseType, NEW r \in Request, NEW why \in Verdicts, Conclude(r, why)
  PROVE  /\ pc' \in [Request -> PCs]
         /\ verdict' \in [Request -> Verdicts]
         /\ at' \in [Request -> Nat]
  BY DEF BaseType, Conclude, PCs

LEMMA BaseTypeStep == BaseType /\ [Next]_vars => BaseType'
<1> SUFFICES ASSUME BaseType, [Next]_vars PROVE BaseType'
  OBVIOUS
<1> USE DEF inputs, history
<1>1. ASSUME NEW r \in Request, ThreadStep(r) PROVE BaseType'
  <2>1. CASE Accept(r)
    BY <2>1 DEF BaseType, Accept, Goto, PCs
  <2>2. CASE TooMany(r)
    BY <2>2 DEF BaseType, TooMany, Goto, PCs, Verdicts, Refusing
  <2>3. CASE Rule(r)
    <3>1. "rule_allow" \in Verdicts /\ "rule_deny" \in Verdicts
      BY DEF Verdicts, Allowing, Refusing
    <3>2. pc' \in [Request -> PCs] /\ verdict' \in [Request -> Verdicts]
          /\ at' \in [Request -> Nat]
      BY <2>3, <3>1, ConcludeType DEF Rule, Goto, BaseType, PCs
    <3>3. prior' \in [Request -> SUBSET Request]
      BY <2>3 DEF Rule, BaseType, DenyAlls
    <3> QED BY <2>3, <3>2, <3>3 DEF Rule, BaseType
  <2>4. CASE CheckDenied(r)
    <3>1. "session_deny" \in Verdicts
      BY DEF Verdicts, Refusing
    <3>2. pc' \in [Request -> PCs] /\ verdict' \in [Request -> Verdicts]
          /\ at' \in [Request -> Nat]
      BY <2>4, <3>1, ConcludeType DEF CheckDenied, Goto, BaseType, PCs
    <3> QED BY <2>4, <3>2 DEF CheckDenied, BaseType
  <2>5. CASE CheckApproved(r)
    <3>1. "session_allow" \in Verdicts
      BY DEF Verdicts, Allowing
    <3>2. pc' \in [Request -> PCs] /\ verdict' \in [Request -> Verdicts]
          /\ at' \in [Request -> Nat]
      BY <2>5, <3>1, ConcludeType DEF CheckApproved, Goto, BaseType, PCs
    <3> QED BY <2>5, <3>2 DEF CheckApproved, BaseType
  <2>6. CASE Enqueue(r)
    <3>1. "queue_full" \in Verdicts
      BY DEF Verdicts, Refusing
    <3>2. pc' \in [Request -> PCs] /\ verdict' \in [Request -> Verdicts]
          /\ at' \in [Request -> Nat]
      BY <2>6, <3>1, ConcludeType DEF Enqueue, Goto, BaseType, PCs
    <3> QED BY <2>6, <3>2 DEF Enqueue, BaseType
  <2>7. CASE AcquireTurn(r)
    BY <2>7 DEF BaseType, AcquireTurn, Goto, PCs
  <2>8. CASE CheckPeer(r)
    <3>1. "withdrawn" \in Verdicts
      BY DEF Verdicts, Refusing
    <3>2. pc' \in [Request -> PCs] /\ verdict' \in [Request -> Verdicts]
          /\ at' \in [Request -> Nat]
      BY <2>8, <3>1, ConcludeType DEF CheckPeer, Goto, BaseType, PCs
    <3> QED BY <2>8, <3>2 DEF CheckPeer, BaseType
  <2>9. CASE ShowDialog(r)
    BY <2>9 DEF BaseType, ShowDialog, Goto, PCs
  <2>10. CASE AskFails(r)
    <3>1. "not_asked" \in Verdicts
      BY DEF Verdicts, Refusing
    <3>2. pc' \in [Request -> PCs] /\ verdict' \in [Request -> Verdicts]
          /\ at' \in [Request -> Nat]
      BY <2>10, <3>1, ConcludeType DEF AskFails
    <3> QED BY <2>10, <3>2 DEF AskFails, BaseType
  <2>11. CASE \E a \in Answers : Answer(r, a)
    <3>1. PICK a \in Answers : Answer(r, a)
      BY <2>11
    <3>2. Outcome(key[r], a) \in Verdicts
      BY OutcomeType DEF Verdicts, Allowing, Refusing
    <3>3. pc' \in [Request -> PCs] /\ verdict' \in [Request -> Verdicts]
          /\ at' \in [Request -> Nat]
      BY <3>1, <3>2, ConcludeType DEF Answer
    <3>4. approved' \in [Sandbox -> [Key -> Nat]]
      BY <3>1, ConstantsAssumption DEF Answer, BaseType
    <3>5. denied' \in [Sandbox -> [DenyKey -> Nat]]
      BY <3>1, OutcomeType, ConstantsAssumption DEF Answer, BaseType
    <3> QED BY <3>1, <3>3, <3>4, <3>5 DEF Answer, BaseType
  <2>12. CASE ReleaseTurn(r)
    BY <2>12 DEF BaseType, ReleaseTurn, Goto, PCs
  <2>13. CASE Leave(r)
    BY <2>13 DEF BaseType, Leave, Goto, PCs
  <2>14. CASE Close(r)
    BY <2>14 DEF BaseType, Close, Goto, PCs
  <2> QED BY <1>1, <2>1, <2>2, <2>3, <2>4, <2>5, <2>6, <2>7, <2>8, <2>9,
             <2>10, <2>11, <2>12, <2>13, <2>14 DEF ThreadStep
<1>2. CASE Tick
  BY <1>2 DEF BaseType, Tick
<1>3. CASE UNCHANGED vars
  BY <1>3 DEF BaseType, vars
<1> QED BY <1>1, <1>2, <1>3 DEF Next, Finished

-----------------------------------------------------------------------------
(***************************************************************************)
(* The turn.  TurnInv ties the lock's holder to the threads' positions: it *)
(* is what makes OneDialog inductive, and it makes a thread between        *)
(* AcquireTurn and ReleaseTurn the only one of its sandbox that can write  *)
(* an answer.                                                              *)
(***************************************************************************)
TurnInv ==
  \A r \in Request, s \in Sandbox :
    turn[s] = r <=> sandbox[r] = s /\ pc[r] \in Holding

\* A step that neither takes nor gives back the turn of its thread.
LEMMA TurnKept ==
  ASSUME BaseType, TurnInv, NEW r \in Request,
         UNCHANGED <<sandbox, turn>>,
         NEW to, pc' = [pc EXCEPT ![r] = to],
         pc[r] \in Holding <=> to \in Holding
  PROVE  TurnInv'
  BY DEF BaseType, TurnInv, Holding

\* How Conclude and Goto move a thread.
LEMMA ConcludeMoves ==
  ASSUME BaseType, NEW r \in Request, NEW why, Conclude(r, why)
  PROVE  /\ pc' = [pc EXCEPT ![r] = pc'[r]]
         /\ pc[r] \in Holding => pc'[r] = "release"
         /\ pc[r] \notin Holding => pc'[r] = "done"
         /\ verdict' = [verdict EXCEPT ![r] = why]
         /\ at' = [at EXCEPT ![r] = now]
  BY DEF Conclude, BaseType

LEMMA GotoMoves ==
  ASSUME BaseType, NEW r \in Request, NEW from, NEW to, Goto(r, from, to)
  PROVE  /\ pc[r] = from
         /\ pc'[r] = to
         /\ pc' = [pc EXCEPT ![r] = pc'[r]]
  BY DEF Goto, BaseType

LEMMA TurnInvStep == BaseType /\ TurnInv /\ [Next]_vars => TurnInv'
<1> SUFFICES ASSUME BaseType, TurnInv, [Next]_vars PROVE TurnInv'
  OBVIOUS
<1> USE DEF inputs, history
<1>1. ASSUME NEW r \in Request, ThreadStep(r) PROVE TurnInv'
  <2>1. CASE Accept(r) \/ TooMany(r)
    BY <2>1, GotoMoves, TurnKept DEF Accept, TooMany, Holding
  <2>2. CASE Rule(r)
    BY <2>2, GotoMoves, ConcludeMoves, TurnKept DEF Rule, Holding
  <2>3. CASE CheckDenied(r)
    BY <2>3, GotoMoves, ConcludeMoves, TurnKept DEF CheckDenied, Holding
  <2>4. CASE CheckApproved(r)
    BY <2>4, GotoMoves, ConcludeMoves, TurnKept DEF CheckApproved, Holding
  <2>5. CASE Enqueue(r)
    BY <2>5, GotoMoves, ConcludeMoves, TurnKept DEF Enqueue, Holding
  <2>6. CASE AcquireTurn(r)
    BY <2>6, ConstantsAssumption DEF AcquireTurn, Goto, TurnInv, BaseType, Holding
  <2>7. CASE CheckPeer(r)
    BY <2>7, GotoMoves, ConcludeMoves, TurnKept DEF CheckPeer, Holding
  <2>8. CASE ShowDialog(r)
    BY <2>8, GotoMoves, TurnKept DEF ShowDialog, Holding
  <2>9. CASE AskFails(r)
    BY <2>9, ConcludeMoves, TurnKept DEF AskFails, Holding
  <2>10. CASE \E a \in Answers : Answer(r, a)
    BY <2>10, ConcludeMoves, TurnKept DEF Answer, Holding
  <2>11. CASE ReleaseTurn(r)
    BY <2>11, ConstantsAssumption DEF ReleaseTurn, Goto, TurnInv, BaseType, Holding
  <2>12. CASE Leave(r) \/ Close(r)
    BY <2>12, GotoMoves, TurnKept DEF Leave, Close, Holding
  <2> QED BY <1>1, <2>1, <2>2, <2>3, <2>4, <2>5, <2>6, <2>7, <2>8, <2>9,
             <2>10, <2>11, <2>12 DEF ThreadStep
<1>2. CASE Tick
  BY <1>2 DEF TurnInv, Tick
<1>3. CASE UNCHANGED vars
  BY <1>3 DEF TurnInv, vars
<1> QED BY <1>1, <1>2, <1>3 DEF Next, Finished

LEMMA InitBase == Init => BaseType /\ TurnInv
<1> SUFFICES ASSUME Init PROVE BaseType /\ TurnInv
  OBVIOUS
<1>1. BaseType
  BY DEF Init, BaseType, PCs, Verdicts
<1>2. TurnInv
  BY ConstantsAssumption DEF Init, TurnInv, Holding
<1> QED BY <1>1, <1>2

\* One dialog per sandbox at a time: the turn is a lock (broker.py decide).
THEOREM OneDialogAlways == Spec => []OneDialog
<1>1. BaseType /\ TurnInv => OneDialog
  BY DEF BaseType, TurnInv, OneDialog, Holding
<1> QED BY <1>1, InitBase, BaseTypeStep, TurnInvStep, PTL DEF Spec

-----------------------------------------------------------------------------
(***************************************************************************)
(* Answers behind a dialog.  Once a thread holding the turn has found no   *)
(* answer for its request, there is none until it asks: answers are only   *)
(* written with the turn, and time only makes them expire.                 *)
(***************************************************************************)
CoverInv ==
  \A r \in Request :
    /\ pc[r] \in {"approved2", "peer", "ask", "asking"} => ~DeniedBefore(r)
    /\ pc[r] \in {"peer", "ask", "asking"} => ~ApprovedBefore(r)

\* A step that changes no answer and moves no thread past a check.
LEMMA CoverKept ==
  ASSUME BaseType, CoverInv, NEW r \in Request, NEW to,
         UNCHANGED <<sandbox, key, approved, denied, now>>,
         pc' = [pc EXCEPT ![r] = to],
         to \in {"approved2", "peer", "ask", "asking"} => ~DeniedBefore(r),
         to \in {"peer", "ask", "asking"} => ~ApprovedBefore(r)
  PROVE  CoverInv'
  BY DEF BaseType, CoverInv, DeniedBefore, ApprovedBefore

LEMMA CoverInvStep ==
  BaseType /\ TurnInv /\ CoverInv /\ [Next]_vars => CoverInv'
<1> SUFFICES ASSUME BaseType, TurnInv, CoverInv, [Next]_vars PROVE CoverInv'
  OBVIOUS
<1> USE DEF inputs, history
<1>1. ASSUME NEW r \in Request, ThreadStep(r) PROVE CoverInv'
  <2>1. CASE Accept(r) \/ TooMany(r)
    BY <2>1, GotoMoves, CoverKept DEF Accept, TooMany
  <2>2. CASE Rule(r)
    BY <2>2, GotoMoves, ConcludeMoves, CoverKept DEF Rule
  <2>3. CASE CheckDenied(r)
    BY <2>3, GotoMoves, ConcludeMoves, CoverKept DEF CheckDenied
  <2>4. CASE CheckApproved(r)
    BY <2>4, GotoMoves, ConcludeMoves, CoverKept DEF CheckApproved, CoverInv
  <2>5. CASE Enqueue(r)
    BY <2>5, GotoMoves, ConcludeMoves, CoverKept DEF Enqueue
  <2>6. CASE AcquireTurn(r)
    BY <2>6, GotoMoves, CoverKept DEF AcquireTurn
  <2>7. CASE CheckPeer(r)
    BY <2>7, GotoMoves, ConcludeMoves, CoverKept DEF CheckPeer, CoverInv
  <2>8. CASE ShowDialog(r)
    BY <2>8, GotoMoves, CoverKept DEF ShowDialog, CoverInv
  <2>9. CASE AskFails(r)
    BY <2>9, ConcludeMoves, CoverKept DEF AskFails
  <2>10. ASSUME NEW a \in Answers, Answer(r, a) PROVE CoverInv'
    \* Only the holder of the turn writes, and only its sandbox's answers.
    <3>1. /\ pc[r] = "asking"
          /\ pc' = [pc EXCEPT ![r] = "release"]
          /\ UNCHANGED <<sandbox, key, now>>
      BY <2>10, ConcludeMoves DEF Answer, Holding
    <3>2. ASSUME NEW q \in Request, q # r,
                 pc[q] \in {"approved2", "peer", "ask", "asking"}
          PROVE  sandbox[q] # sandbox[r]
      BY <3>1, <3>2 DEF TurnInv, BaseType, Holding
    <3>3. ASSUME NEW s \in Sandbox, s # sandbox[r]
          PROVE  approved'[s] = approved[s] /\ denied'[s] = denied[s]
      BY <2>10, <3>3 DEF Answer, BaseType
    <3> QED BY <3>1, <3>2, <3>3 DEF CoverInv, DeniedBefore, ApprovedBefore, BaseType
  <2>11. CASE ReleaseTurn(r)
    BY <2>11, GotoMoves, CoverKept DEF ReleaseTurn
  <2>12. CASE Leave(r) \/ Close(r)
    BY <2>12, GotoMoves, CoverKept DEF Leave, Close
  <2> QED BY <1>1, <2>1, <2>2, <2>3, <2>4, <2>5, <2>6, <2>7, <2>8, <2>9,
             <2>10, <2>11, <2>12 DEF ThreadStep
<1>2. CASE Tick
  <2>1. ASSUME NEW r \in Request
        PROVE  /\ ~DeniedBefore(r) => ~DeniedBefore(r)'
               /\ ~ApprovedBefore(r) => ~ApprovedBefore(r)'
    BY <1>2, ConstantsAssumption
       DEF Tick, BaseType, DeniedBefore, ApprovedBefore
  <2> QED BY <1>2, <2>1 DEF Tick, CoverInv
<1>3. CASE UNCHANGED vars
  BY <1>3 DEF CoverInv, vars, DeniedBefore, ApprovedBefore
<1> QED BY <1>1, <1>2, <1>3 DEF Next, Finished

\* The user is never asked what an answer in force covers, for any number of
\* requests racing for the turn (the second look of broker.py decide).
THEOREM DialogNeededAlways == Spec => []DialogNeeded
<1>1. Init => CoverInv
  BY DEF Init, CoverInv
<1>2. CoverInv => DialogNeeded
  BY DEF CoverInv, DialogNeeded
<1> QED BY <1>1, <1>2, InitBase, BaseTypeStep, TurnInvStep, CoverInvStep, PTL
           DEF Spec

-----------------------------------------------------------------------------
(***************************************************************************)
(* The counters.  self.waiting and self.conns are changed in one place and *)
(* changed back in another; that they never drift is a statement about     *)
(* every path between the two, so it is proved about the set of threads in *)
(* the region a counter stands for.                                        *)
(***************************************************************************)
LEMMA RegionFinite ==
  ASSUME NEW s, NEW R
  PROVE  /\ IsFiniteSet(ThreadsIn(s, R))
         /\ Cardinality(ThreadsIn(s, R)) \in Nat
<1>1. ThreadsIn(s, R) \subseteq Request
  BY DEF ThreadsIn
<1> QED BY <1>1, ConstantsAssumption, FS_Subset, FS_CardinalityType

\* A thread's move adds it to the region of its sandbox, takes it out, or
\* leaves every region alone.
LEMMA RegionMoves ==
  ASSUME BaseType, NEW CONSTANT R, NEW s \in Sandbox, NEW r \in Request, NEW to,
         UNCHANGED sandbox, pc' = [pc EXCEPT ![r] = to]
  PROVE  /\ (pc[r] \in R <=> to \in R) \/ s # sandbox[r]
               => ThreadsIn(s, R)' = ThreadsIn(s, R)
         /\ s = sandbox[r] /\ pc[r] \notin R /\ to \in R
               => Cardinality(ThreadsIn(s, R)') = Cardinality(ThreadsIn(s, R)) + 1
         /\ s = sandbox[r] /\ pc[r] \in R /\ to \notin R
               => Cardinality(ThreadsIn(s, R)') = Cardinality(ThreadsIn(s, R)) - 1
<1>1. ASSUME (pc[r] \in R <=> to \in R) \/ s # sandbox[r]
      PROVE  ThreadsIn(s, R)' = ThreadsIn(s, R)
  BY <1>1 DEF ThreadsIn, BaseType
<1>2. ASSUME s = sandbox[r], pc[r] \notin R, to \in R
      PROVE  Cardinality(ThreadsIn(s, R)') = Cardinality(ThreadsIn(s, R)) + 1
  <2>1. ThreadsIn(s, R)' = ThreadsIn(s, R) \cup {r} /\ r \notin ThreadsIn(s, R)
    BY <1>2 DEF ThreadsIn, BaseType
  <2> QED BY <2>1, RegionFinite, FS_AddElement
<1>3. ASSUME s = sandbox[r], pc[r] \in R, to \notin R
      PROVE  Cardinality(ThreadsIn(s, R)') = Cardinality(ThreadsIn(s, R)) - 1
  <2>1. ThreadsIn(s, R)' = ThreadsIn(s, R) \ {r} /\ r \in ThreadsIn(s, R)
    BY <1>3 DEF ThreadsIn, BaseType
  <2> QED BY <2>1, RegionFinite, FS_RemoveElement
<1> QED BY <1>1, <1>2, <1>3

CountInv ==
  /\ waiting \in [Sandbox -> Int]
  /\ conns \in [Sandbox -> Int]
  /\ QueueBound
  /\ SlotBound

\* A step that leaves both counters alone moves no thread over either border.
LEMMA CountKept ==
  ASSUME BaseType, CountInv, NEW r \in Request, NEW to,
         UNCHANGED <<sandbox, waiting, conns>>,
         pc' = [pc EXCEPT ![r] = to],
         pc[r] \in InQueue <=> to \in InQueue,
         pc[r] \in HasSlot <=> to \in HasSlot
  PROVE  CountInv'
<1>1. \A s \in Sandbox : /\ ThreadsIn(s, InQueue)' = ThreadsIn(s, InQueue)
                         /\ ThreadsIn(s, HasSlot)' = ThreadsIn(s, HasSlot)
  BY RegionMoves
<1> QED BY <1>1 DEF CountInv, QueueBound, SlotBound

\* A step that moves a thread over one border moves that counter with it.
LEMMA EnterRegion ==
  ASSUME BaseType, NEW CONSTANT R, NEW r \in Request, NEW to,
         UNCHANGED sandbox, pc' = [pc EXCEPT ![r] = to],
         pc[r] \notin R, to \in R,
         NEW f \in [Sandbox -> Int],
         \A s \in Sandbox : f[s] = Cardinality(ThreadsIn(s, R)),
         NEW s \in Sandbox
  PROVE  [f EXCEPT ![sandbox[r]] = @ + 1][s] = Cardinality(ThreadsIn(s, R)')
<1>1. CASE s = sandbox[r]
  BY <1>1, RegionMoves
<1>2. CASE s # sandbox[r]
  BY <1>2, RegionMoves
<1> QED BY <1>1, <1>2

LEMMA LeaveRegion ==
  ASSUME BaseType, NEW CONSTANT R, NEW r \in Request, NEW to,
         UNCHANGED sandbox, pc' = [pc EXCEPT ![r] = to],
         pc[r] \in R, to \notin R,
         NEW f \in [Sandbox -> Int],
         \A s \in Sandbox : f[s] = Cardinality(ThreadsIn(s, R)),
         NEW s \in Sandbox
  PROVE  [f EXCEPT ![sandbox[r]] = @ - 1][s] = Cardinality(ThreadsIn(s, R)')
<1>1. CASE s = sandbox[r]
  BY <1>1, RegionMoves
<1>2. CASE s # sandbox[r]
  BY <1>2, RegionMoves
<1> QED BY <1>1, <1>2

LEMMA CountInvStep == BaseType /\ CountInv /\ [Next]_vars => CountInv'
<1> SUFFICES ASSUME BaseType, CountInv, [Next]_vars PROVE CountInv'
  OBVIOUS
<1> USE DEF inputs, history
<1>1. ASSUME NEW r \in Request, ThreadStep(r) PROVE CountInv'
  <2>1. CASE Accept(r)
    <3>1. /\ pc[r] \notin HasSlot /\ "rule" \in HasSlot
          /\ pc[r] \in InQueue <=> "rule" \in InQueue
          /\ pc' = [pc EXCEPT ![r] = "rule"]
          /\ UNCHANGED <<sandbox, waiting>>
          /\ conns' = [conns EXCEPT ![sandbox[r]] = @ + 1]
      BY <2>1 DEF Accept, Goto, InQueue, HasSlot, PCs
    <3>2. \A s \in Sandbox : conns'[s] = Cardinality(ThreadsIn(s, HasSlot)')
      BY <3>1, EnterRegion DEF CountInv, QueueBound, SlotBound
    <3>3. \A s \in Sandbox : ThreadsIn(s, InQueue)' = ThreadsIn(s, InQueue)
      BY <3>1, RegionMoves
    <3> QED BY <2>1, <3>1, <3>2, <3>3, ConstantsAssumption
            DEF Accept, CountInv, QueueBound, SlotBound, BaseType
  <2>2. CASE TooMany(r)
    BY <2>2, CountKept DEF TooMany, Goto, InQueue, HasSlot,
         PCs, Holding
  <2>3. CASE Rule(r)
    BY <2>3, GotoMoves, ConcludeMoves, CountKept DEF Rule, InQueue, HasSlot,
         PCs, Holding
  <2>4. CASE CheckDenied(r)
    BY <2>4, GotoMoves, ConcludeMoves, CountKept DEF CheckDenied, InQueue, HasSlot,
         PCs, Holding
  <2>5. CASE CheckApproved(r)
    BY <2>5, GotoMoves, ConcludeMoves, CountKept DEF CheckApproved, InQueue, HasSlot,
         PCs, Holding
  <2>6. CASE Enqueue(r)
    <3>1. CASE Conclude(r, "queue_full") /\ UNCHANGED waiting
      <4>1. pc[r] = "enqueue" /\ pc' = [pc EXCEPT ![r] = "done"]
        BY <2>6, <3>1 DEF Enqueue, Conclude, Holding
      <4> QED BY <2>6, <3>1, <4>1, CountKept
              DEF Enqueue, InQueue, HasSlot, PCs
    <3>2. CASE /\ ~(waiting[sandbox[r]] > PROMPT_QUEUE)
               /\ waiting' = [waiting EXCEPT ![sandbox[r]] = @ + 1]
               /\ Goto(r, "enqueue", "acquire")
      <4>1. /\ pc[r] \notin InQueue /\ "acquire" \in InQueue
            /\ pc[r] \in HasSlot <=> "acquire" \in HasSlot
            /\ pc' = [pc EXCEPT ![r] = "acquire"]
            /\ UNCHANGED <<sandbox, conns>>
            /\ waiting' = [waiting EXCEPT ![sandbox[r]] = @ + 1]
        BY <2>6, <3>2 DEF Enqueue, Goto, InQueue, HasSlot, PCs
      <4>2. \A s \in Sandbox : waiting'[s] = Cardinality(ThreadsIn(s, InQueue)')
        BY <4>1, EnterRegion DEF CountInv, QueueBound, SlotBound
      <4>3. \A s \in Sandbox : ThreadsIn(s, HasSlot)' = ThreadsIn(s, HasSlot)
        BY <4>1, RegionMoves
      <4> QED BY <2>6, <3>2, <4>1, <4>2, <4>3, ConstantsAssumption
              DEF Enqueue, CountInv, QueueBound, SlotBound, BaseType
    <3> QED BY <2>6, <3>1, <3>2 DEF Enqueue
  <2>7. CASE AcquireTurn(r)
    BY <2>7, CountKept DEF AcquireTurn, Goto, InQueue, HasSlot,
         PCs, Holding
  <2>8. CASE CheckPeer(r)
    BY <2>8, GotoMoves, ConcludeMoves, CountKept DEF CheckPeer, InQueue, HasSlot,
         PCs, Holding
  <2>9. CASE ShowDialog(r)
    BY <2>9, CountKept DEF ShowDialog, Goto, InQueue, HasSlot,
         PCs, Holding
  <2>10. CASE AskFails(r)
    BY <2>10, ConcludeMoves, CountKept DEF AskFails, InQueue, HasSlot,
         PCs, Holding
  <2>11. CASE \E a \in Answers : Answer(r, a)
    BY <2>11, ConcludeMoves, CountKept DEF Answer, InQueue, HasSlot,
         PCs, Holding
  <2>12. CASE ReleaseTurn(r)
    BY <2>12, CountKept DEF ReleaseTurn, Goto, InQueue, HasSlot,
         PCs, Holding
  <2>13. CASE Leave(r)
    <3>1. /\ pc[r] \in InQueue /\ "done" \notin InQueue
          /\ pc[r] \in HasSlot <=> "done" \in HasSlot
          /\ pc' = [pc EXCEPT ![r] = "done"]
          /\ UNCHANGED <<sandbox, conns>>
          /\ waiting' = [waiting EXCEPT ![sandbox[r]] = @ - 1]
      BY <2>13 DEF Leave, Goto, InQueue, HasSlot, PCs
    <3>2. \A s \in Sandbox : waiting'[s] = Cardinality(ThreadsIn(s, InQueue)')
      BY <3>1, LeaveRegion DEF CountInv, QueueBound, SlotBound
    <3>3. \A s \in Sandbox : ThreadsIn(s, HasSlot)' = ThreadsIn(s, HasSlot)
      BY <3>1, RegionMoves
    <3> QED BY <2>13, <3>1, <3>2, <3>3, ConstantsAssumption
            DEF Leave, CountInv, QueueBound, SlotBound, BaseType
  <2>14. CASE Close(r)
    <3>1. /\ pc[r] \in HasSlot /\ "closed" \notin HasSlot
          /\ pc[r] \in InQueue <=> "closed" \in InQueue
          /\ pc' = [pc EXCEPT ![r] = "closed"]
          /\ UNCHANGED <<sandbox, waiting>>
          /\ conns' = [conns EXCEPT ![sandbox[r]] = @ - 1]
      BY <2>14 DEF Close, Goto, InQueue, HasSlot, PCs
    <3>2. \A s \in Sandbox : conns'[s] = Cardinality(ThreadsIn(s, HasSlot)')
      BY <3>1, LeaveRegion DEF CountInv, QueueBound, SlotBound
    <3>3. \A s \in Sandbox : ThreadsIn(s, InQueue)' = ThreadsIn(s, InQueue)
      BY <3>1, RegionMoves
    <3> QED BY <2>14, <3>1, <3>2, <3>3, ConstantsAssumption
            DEF Close, CountInv, QueueBound, SlotBound, BaseType
  <2> QED BY <1>1, <2>1, <2>2, <2>3, <2>4, <2>5, <2>6, <2>7, <2>8, <2>9,
             <2>10, <2>11, <2>12, <2>13, <2>14 DEF ThreadStep
<1>2. CASE Tick
  BY <1>2 DEF CountInv, QueueBound, SlotBound, ThreadsIn, Tick
<1>3. CASE UNCHANGED vars
  BY <1>3 DEF CountInv, QueueBound, SlotBound, ThreadsIn, vars
<1> QED BY <1>1, <1>2, <1>3 DEF Next, Finished

LEMMA InitCount == Init => CountInv
<1> SUFFICES ASSUME Init PROVE CountInv
  OBVIOUS
<1>1. \A s \in Sandbox : ThreadsIn(s, InQueue) = {} /\ ThreadsIn(s, HasSlot) = {}
  BY DEF Init, ThreadsIn, InQueue, HasSlot
<1>2. \A s \in Sandbox : /\ Cardinality(ThreadsIn(s, InQueue)) = 0
                         /\ Cardinality(ThreadsIn(s, HasSlot)) = 0
  BY <1>1, FS_EmptySet
<1>3. \A s \in Sandbox : waiting[s] = 0 /\ conns[s] = 0
  BY DEF Init
<1>4. waiting \in [Sandbox -> Int] /\ conns \in [Sandbox -> Int]
  BY DEF Init
<1> QED BY <1>2, <1>3, <1>4, ConstantsAssumption
        DEF CountInv, QueueBound, SlotBound

\* At most PROMPT_QUEUE + 1 requests of a sandbox are on screen or waiting, and
\* self.waiting is their exact number on every way through decide().
THEOREM QueueBoundAlways == Spec => []QueueBound
<1>1. CountInv => QueueBound
  BY DEF CountInv
<1> QED BY <1>1, InitBase, InitCount, BaseTypeStep, CountInvStep, PTL DEF Spec

\* A sandbox never has more than MAX_CONNS connections served, and every slot
\* taken is given back exactly once.
THEOREM SlotBoundAlways == Spec => []SlotBound
<1>1. CountInv => SlotBound
  BY DEF CountInv
<1> QED BY <1>1, InitBase, InitCount, BaseTypeStep, CountInvStep, PTL DEF Spec

\* Type correctness; the counters are natural numbers because they count.
THEOREM TypeCorrect == Spec => []TypeOK
<1>1. BaseType /\ CountInv => TypeOK
  <2> SUFFICES ASSUME BaseType, CountInv PROVE TypeOK
    OBVIOUS
  <2>1. \A s \in Sandbox : waiting[s] \in Nat /\ conns[s] \in Nat
    BY RegionFinite DEF CountInv, QueueBound, SlotBound
  <2>2. waiting \in [Sandbox -> Nat] /\ conns \in [Sandbox -> Nat]
    BY <2>1 DEF CountInv
  <2> QED BY <2>2 DEF BaseType, TypeOK
<1> QED BY <1>1, InitBase, InitCount, BaseTypeStep, CountInvStep, PTL DEF Spec

-----------------------------------------------------------------------------
(***************************************************************************)
(* Session answers.  ApprovalInv says where every entry of self.approved   *)
(* comes from; with it, an entry found alive proves the grant it is used   *)
(* for.                                                                    *)
(***************************************************************************)
Decided == {"release", "leave", "done", "closed"}

HistInv ==
  \A r \in Request :
    /\ at[r] <= now
    /\ verdict[r] # "none" => pc[r] \in Decided

\* The approval of key k for sandbox s is the session answer to request q.
Backs(q, s, k) ==
  /\ verdict[q] = "session"
  /\ sandbox[q] = s
  /\ key[q] = k
  /\ approved[s][k] = at[q] + SESSION_TTL

ApprovalInv ==
  \A s \in Sandbox, k \in Key :
    approved[s][k] > 0 => k \in SessionKey /\ \E q \in Request : Backs(q, s, k)

\* What a decided thread was told, and when, is never changed again.
LEMMA FinalVerdict ==
  ASSUME BaseType, HistInv, NEW r \in Request, ThreadStep(r),
         NEW q \in Request, verdict[q] # "none"
  PROVE  verdict'[q] = verdict[q] /\ at'[q] = at[q]
<1> USE DEF inputs, history, BaseType, HistInv, Decided
<1>1. CASE Accept(r) \/ AcquireTurn(r) \/ ShowDialog(r) \/ ReleaseTurn(r)
           \/ Leave(r) \/ Close(r)
  BY <1>1 DEF Accept, AcquireTurn, ShowDialog, ReleaseTurn, Leave, Close
<1>2. CASE TooMany(r)
  BY <1>2 DEF TooMany, Goto
<1>3. CASE Rule(r)
  BY <1>3 DEF Rule, Conclude
<1>4. CASE CheckDenied(r)
  BY <1>4 DEF CheckDenied, Conclude
<1>5. CASE CheckApproved(r)
  BY <1>5 DEF CheckApproved, Conclude
<1>6. CASE Enqueue(r)
  BY <1>6 DEF Enqueue, Conclude
<1>7. CASE CheckPeer(r)
  BY <1>7 DEF CheckPeer, Conclude
<1>8. CASE AskFails(r)
  BY <1>8 DEF AskFails, Conclude
<1>9. CASE \E a \in Answers : Answer(r, a)
  BY <1>9 DEF Answer, Conclude
<1> QED BY <1>1, <1>2, <1>3, <1>4, <1>5, <1>6, <1>7, <1>8, <1>9 DEF ThreadStep

LEMMA ConcludeHist ==
  ASSUME BaseType, HistInv, NEW r \in Request, NEW why, Conclude(r, why), now' = now
  PROVE  HistInv'
  BY ConcludeMoves DEF BaseType, HistInv, Decided

\* A thread moves on without being decided; a decided one stays so.
LEMMA GotoHist ==
  ASSUME BaseType, HistInv, NEW r \in Request, NEW from, NEW to,
         Goto(r, from, to), UNCHANGED <<verdict, at, now>>,
         from \in Decided => to \in Decided
  PROVE  HistInv'
<1>1. pc[r] = from /\ pc'[r] = to /\ \A q \in Request : q # r => pc'[q] = pc[q]
  BY GotoMoves DEF BaseType
<1>2. \A q \in Request : at'[q] <= now' /\ verdict'[q] = verdict[q]
  BY DEF HistInv
<1>3. \A q \in Request : verdict[q] # "none" => pc'[q] \in Decided
  BY <1>1 DEF HistInv
<1> QED BY <1>2, <1>3 DEF HistInv

\* Every step of a thread moves it, and only a deciding one gives it a verdict.
LEMMA HistInvStep == BaseType /\ HistInv /\ [Next]_vars => HistInv'
<1> SUFFICES ASSUME BaseType, HistInv, [Next]_vars PROVE HistInv'
  OBVIOUS
<1> USE DEF inputs, history
<1>1. ASSUME NEW r \in Request, ThreadStep(r) PROVE HistInv'
  <2>1. CASE Accept(r) \/ AcquireTurn(r) \/ ShowDialog(r)
    BY <2>1, GotoHist DEF Accept, AcquireTurn, ShowDialog, Decided
  <2>2. CASE ReleaseTurn(r) \/ Leave(r) \/ Close(r)
    BY <2>2, GotoHist DEF ReleaseTurn, Leave, Close, Decided
  <2>3. CASE TooMany(r)
    BY <2>3 DEF TooMany, Goto, BaseType, HistInv, Decided
  <2>4. CASE Rule(r)
    BY <2>4, GotoHist, ConcludeHist DEF Rule, Decided
  <2>5. CASE CheckDenied(r)
    BY <2>5, GotoHist, ConcludeHist DEF CheckDenied, Decided
  <2>6. CASE CheckApproved(r)
    BY <2>6, GotoHist, ConcludeHist DEF CheckApproved, Decided
  <2>7. CASE Enqueue(r)
    BY <2>7, GotoHist, ConcludeHist DEF Enqueue, Decided
  <2>8. CASE CheckPeer(r)
    BY <2>8, GotoHist, ConcludeHist DEF CheckPeer, Decided
  <2>9. CASE AskFails(r)
    BY <2>9, GotoHist, ConcludeHist DEF AskFails, Decided
  <2>10. CASE \E a \in Answers : Answer(r, a)
    BY <2>10, ConcludeHist DEF Answer
  <2> QED BY <1>1, <2>1, <2>2, <2>3, <2>4, <2>5, <2>6, <2>7, <2>8, <2>9,
             <2>10 DEF ThreadStep
<1>2. CASE Tick
  BY <1>2 DEF Tick, BaseType, HistInv
<1>3. CASE UNCHANGED vars
  BY <1>3 DEF vars, HistInv
<1> QED BY <1>1, <1>2, <1>3 DEF Next, Finished

\* Only an answer to a dialog writes the two tables.
LEMMA TablesKept ==
  ASSUME NEW r \in Request, ThreadStep(r), ~ \E a \in Answers : Answer(r, a)
  PROVE  UNCHANGED <<sandbox, key, now, approved, denied>>
  BY DEF ThreadStep, Accept, TooMany, Rule, CheckDenied, CheckApproved, Enqueue,
         AcquireTurn, CheckPeer, ShowDialog, AskFails, ReleaseTurn, Leave, Close,
         inputs

LEMMA ApprovalInvStep ==
  BaseType /\ HistInv /\ ApprovalInv /\ [Next]_vars => ApprovalInv'
<1> SUFFICES ASSUME BaseType, HistInv, ApprovalInv, [Next]_vars PROVE ApprovalInv'
  OBVIOUS
<1>1. ASSUME NEW r \in Request, ThreadStep(r) PROVE ApprovalInv'
  <2>1. CASE \E a \in Answers : Answer(r, a)
    <3>1. PICK a \in Answers : Answer(r, a)
      BY <2>1
    <3> DEFINE out == Outcome(key[r], a)
    <3>2. /\ UNCHANGED <<sandbox, key, now>>
          /\ verdict'[r] = out /\ at'[r] = now
          /\ out = "session" => key[r] \in SessionKey
          /\ approved' = IF out = "session"
                         THEN [approved EXCEPT ![sandbox[r]][key[r]] = now + SESSION_TTL]
                         ELSE approved
      BY <3>1, OutcomeType DEF Answer, Conclude, inputs, BaseType
    <3> HIDE DEF out
    <3>3. SUFFICES ASSUME NEW s \in Sandbox, NEW k \in Key, approved'[s][k] > 0
                   PROVE  k \in SessionKey /\ \E q \in Request : Backs(q, s, k)'
      BY <3>2 DEF ApprovalInv
    <3>4. CASE out = "session" /\ s = sandbox[r] /\ k = key[r]
      <4>1. Backs(r, s, k)'
        BY <3>2, <3>4 DEF Backs, BaseType
      <4> QED BY <3>2, <3>4, <4>1
    <3>5. CASE ~(out = "session" /\ s = sandbox[r] /\ k = key[r])
      <4>1. approved'[s][k] = approved[s][k]
        BY <3>2, <3>5 DEF BaseType
      <4>2. k \in SessionKey /\ \E q \in Request : Backs(q, s, k)
        BY <3>3, <4>1 DEF ApprovalInv
      <4>3. PICK q \in Request : Backs(q, s, k)
        BY <4>2
      <4>4. Backs(q, s, k)'
        BY <3>2, <4>1, <4>3, <1>1, FinalVerdict DEF Backs
      <4> QED BY <4>2, <4>4
    <3> QED BY <3>4, <3>5
  <2>2. CASE ~ \E a \in Answers : Answer(r, a)
    <3>1. UNCHANGED <<sandbox, key, now, approved, denied>>
      BY <1>1, <2>2, TablesKept
    <3>2. ASSUME NEW s \in Sandbox, NEW k \in Key, NEW q \in Request, Backs(q, s, k)
          PROVE  Backs(q, s, k)'
      BY <1>1, <3>1, <3>2, FinalVerdict DEF Backs
    <3> QED BY <3>1, <3>2 DEF ApprovalInv
  <2> QED BY <2>1, <2>2
<1>2. CASE Tick
  BY <1>2 DEF Tick, ApprovalInv, Backs, inputs, history
<1>3. CASE UNCHANGED vars
  BY <1>3 DEF vars, ApprovalInv, Backs
<1> QED BY <1>1, <1>2, <1>3 DEF Next, Finished

\* A thread's step decides nobody else's request.
LEMMA OwnVerdict ==
  ASSUME BaseType, NEW r \in Request, ThreadStep(r), NEW p \in Request, p # r
  PROVE  verdict'[p] = verdict[p] /\ at'[p] = at[p]
<1> USE DEF inputs, history, BaseType
<1>1. CASE Accept(r) \/ AcquireTurn(r) \/ ShowDialog(r) \/ ReleaseTurn(r)
           \/ Leave(r) \/ Close(r) \/ TooMany(r)
  BY <1>1 DEF Accept, AcquireTurn, ShowDialog, ReleaseTurn, Leave, Close, TooMany
<1>2. CASE Rule(r) \/ CheckDenied(r) \/ CheckApproved(r)
  BY <1>2, ConcludeMoves DEF Rule, CheckDenied, CheckApproved
<1>3. CASE Enqueue(r) \/ CheckPeer(r) \/ AskFails(r)
  BY <1>3, ConcludeMoves DEF Enqueue, CheckPeer, AskFails
<1>4. CASE \E a \in Answers : Answer(r, a)
  BY <1>4, ConcludeMoves DEF Answer
<1> QED BY <1>1, <1>2, <1>3, <1>4 DEF ThreadStep

\* The only way to be allowed by an earlier answer is to find one alive.
LEMMA SessionAllowStep ==
  ASSUME BaseType, NEW r \in Request, ThreadStep(r), verdict[r] = "none",
         verdict'[r] = "session_allow"
  PROVE  ApprovedBefore(r) /\ at'[r] = now
<1> USE DEF inputs, history, BaseType
<1>1. CASE Accept(r) \/ AcquireTurn(r) \/ ShowDialog(r) \/ ReleaseTurn(r)
           \/ Leave(r) \/ Close(r) \/ TooMany(r)
  BY <1>1 DEF Accept, AcquireTurn, ShowDialog, ReleaseTurn, Leave, Close, TooMany
<1>2. CASE Rule(r) \/ CheckDenied(r)
  BY <1>2, ConcludeMoves DEF Rule, CheckDenied
<1>3. CASE CheckApproved(r)
  BY <1>3, ConcludeMoves DEF CheckApproved
<1>4. CASE Enqueue(r) \/ CheckPeer(r) \/ AskFails(r)
  BY <1>4, ConcludeMoves DEF Enqueue, CheckPeer, AskFails
<1>5. CASE \E a \in Answers : Answer(r, a)
  BY <1>5, ConcludeMoves, OutcomeType DEF Answer
<1> QED BY <1>1, <1>2, <1>3, <1>4, <1>5 DEF ThreadStep

LEMMA SessionGrantStep ==
  BaseType /\ HistInv /\ ApprovalInv /\ SessionGrantBacked /\ [Next]_vars
    => SessionGrantBacked'
<1> SUFFICES ASSUME BaseType, HistInv, ApprovalInv, SessionGrantBacked, [Next]_vars
             PROVE  SessionGrantBacked'
  OBVIOUS
<1>1. ASSUME NEW r \in Request, ThreadStep(r) PROVE SessionGrantBacked'
  <2>1. UNCHANGED <<sandbox, key, now>>
    <3>1. CASE \E a \in Answers : Answer(r, a)
      BY <3>1 DEF Answer, inputs
    <3> QED BY <1>1, <3>1, TablesKept
  <2>2. SUFFICES ASSUME NEW p \in Request, verdict'[p] = "session_allow"
                 PROVE  /\ key[p] \in SessionKey
                        /\ \E q \in Request :
                             /\ verdict'[q] = "session"
                             /\ sandbox[q] = sandbox[p] /\ key[q] = key[p]
                             /\ at'[q] <= at'[p] /\ at'[p] < at'[q] + SESSION_TTL
    BY <2>1 DEF SessionGrantBacked
  <2>3. CASE verdict[p] # "none"
    <3>1. verdict[p] = "session_allow" /\ at'[p] = at[p]
      BY <1>1, <2>2, <2>3, FinalVerdict
    <3>2. PICK q \in Request :
             /\ verdict[q] = "session"
             /\ sandbox[q] = sandbox[p] /\ key[q] = key[p]
             /\ at[q] <= at[p] /\ at[p] < at[q] + SESSION_TTL
      BY <3>1 DEF SessionGrantBacked
    <3>3. verdict'[q] = "session" /\ at'[q] = at[q]
      BY <1>1, <3>2, FinalVerdict
    <3>4. key[p] \in SessionKey
      BY <3>1 DEF SessionGrantBacked
    <3> QED BY <3>1, <3>2, <3>3, <3>4
  <2>4. CASE verdict[p] = "none"
    <3>1. p = r
      BY <1>1, <2>2, <2>4, OwnVerdict
    <3>2. ApprovedBefore(p) /\ at'[p] = now
      BY <1>1, <2>2, <2>4, <3>1, SessionAllowStep
    <3>3. sandbox[p] \in Sandbox /\ key[p] \in Key /\ now \in Nat
          /\ approved[sandbox[p]][key[p]] \in Nat
      BY DEF BaseType
    <3>4. key[p] \in SessionKey
          /\ \E q \in Request : Backs(q, sandbox[p], key[p])
      BY <3>2, <3>3 DEF ApprovalInv, ApprovedBefore
    <3>5. PICK q \in Request : Backs(q, sandbox[p], key[p])
      BY <3>4
    <3>6. verdict'[q] = "session" /\ at'[q] = at[q]
      BY <1>1, <3>5, FinalVerdict DEF Backs
    <3>7. at[q] <= now /\ now < at[q] + SESSION_TTL
      BY <3>2, <3>5 DEF HistInv, Backs, ApprovedBefore
    <3> QED BY <3>2, <3>4, <3>5, <3>6, <3>7 DEF Backs
  <2> QED BY <2>3, <2>4 DEF BaseType
<1>2. CASE Tick
  BY <1>2 DEF Tick, SessionGrantBacked, inputs, history
<1>3. CASE UNCHANGED vars
  BY <1>3 DEF vars, SessionGrantBacked
<1> QED BY <1>1, <1>2, <1>3 DEF Next, Finished

\* Whatever the rules, the requests and their timing: a request let through
\* unasked has a live session answer for its own sandbox and key behind it.
THEOREM SessionGrantAlways == Spec => []SessionGrantBacked
<1>1. Init => HistInv /\ ApprovalInv /\ SessionGrantBacked
  BY DEF Init, HistInv, ApprovalInv, SessionGrantBacked
<1> QED BY <1>1, InitBase, BaseTypeStep, HistInvStep, ApprovalInvStep,
           SessionGrantStep, PTL DEF Spec

-----------------------------------------------------------------------------
(***************************************************************************)
(* Deny-alls.  A thread past its first look at self.denied knows that the  *)
(* deny-alls given before it came in have expired.                         *)
(***************************************************************************)
PastDenied == {"approved1", "enqueue", "acquire", "denied2", "approved2",
               "peer", "ask", "asking"}

SameGroup(q, r) ==
  sandbox[q] = sandbox[r] /\ DenyOf[key[q]] = DenyOf[key[r]]

DenyRecorded ==
  \A q \in Request :
    verdict[q] = "deny_all" =>
      /\ DenyOf[key[q]] \in DenyKey
      /\ denied[sandbox[q]][DenyOf[key[q]]] >= at[q] + SESSION_TTL

PriorDenied == \A r \in Request : \A q \in prior[r] : verdict[q] = "deny_all"

DenyExpired ==
  \A r \in Request : \A q \in prior[r] :
    pc[r] \in PastDenied /\ SameGroup(q, r) => now >= at[q] + SESSION_TTL

\* No step but the answer to a dialog ends in a deny-all.
LEMMA DenyAllStep ==
  ASSUME BaseType, NEW r \in Request, ThreadStep(r),
         ~ \E a \in Answers : Answer(r, a), verdict'[r] = "deny_all"
  PROVE  verdict[r] = "deny_all"
<1> USE DEF inputs, history, BaseType
<1>1. CASE Accept(r) \/ AcquireTurn(r) \/ ShowDialog(r) \/ ReleaseTurn(r)
           \/ Leave(r) \/ Close(r) \/ TooMany(r)
  BY <1>1 DEF Accept, AcquireTurn, ShowDialog, ReleaseTurn, Leave, Close, TooMany
<1>2. CASE Rule(r) \/ CheckDenied(r) \/ CheckApproved(r)
  BY <1>2, ConcludeMoves DEF Rule, CheckDenied, CheckApproved
<1>3. CASE Enqueue(r) \/ CheckPeer(r) \/ AskFails(r)
  BY <1>3, ConcludeMoves DEF Enqueue, CheckPeer, AskFails
<1> QED BY <1>1, <1>2, <1>3 DEF ThreadStep

LEMMA DenyRecordedStep ==
  BaseType /\ HistInv /\ DenyRecorded /\ [Next]_vars => DenyRecorded'
<1> SUFFICES ASSUME BaseType, HistInv, DenyRecorded, [Next]_vars PROVE DenyRecorded'
  OBVIOUS
<1>1. ASSUME NEW r \in Request, ThreadStep(r) PROVE DenyRecorded'
  <2>1. ASSUME NEW a \in Answers, Answer(r, a) PROVE DenyRecorded'
    <3> DEFINE out == Outcome(key[r], a)
    <3>1. /\ UNCHANGED <<sandbox, key, now>>
          /\ verdict' = [verdict EXCEPT ![r] = out]
          /\ at' = [at EXCEPT ![r] = now]
          /\ denied' = IF out = "deny_all"
                       THEN [denied EXCEPT ![sandbox[r]][DenyOf[key[r]]] = now + SESSION_TTL]
                       ELSE denied
      BY <2>1 DEF Answer, Conclude, inputs
    <3>2. out = "deny_all" => DenyOf[key[r]] \in DenyKey
      BY OutcomeType, ConstantsAssumption DEF BaseType
    <3> HIDE DEF out
    <3>3. SUFFICES ASSUME NEW q \in Request, verdict'[q] = "deny_all"
                   PROVE  /\ DenyOf[key[q]] \in DenyKey
                          /\ denied'[sandbox[q]][DenyOf[key[q]]] >= at'[q] + SESSION_TTL
      BY <3>1 DEF DenyRecorded
    <3>4. CASE q = r
      BY <3>1, <3>2, <3>3, <3>4, ConstantsAssumption DEF BaseType
    <3>5. CASE q # r
      <4>1. verdict[q] = "deny_all" /\ at'[q] = at[q] /\ at[q] <= now
        BY <3>1, <3>3, <3>5 DEF BaseType, HistInv
      <4>2. DenyOf[key[q]] \in DenyKey
            /\ denied[sandbox[q]][DenyOf[key[q]]] >= at[q] + SESSION_TTL
        BY <4>1 DEF DenyRecorded
      <4>3. denied'[sandbox[q]][DenyOf[key[q]]]
              \in {denied[sandbox[q]][DenyOf[key[q]]], now + SESSION_TTL}
        BY <3>1, <3>2, <4>2 DEF BaseType
      <4> QED BY <4>1, <4>2, <4>3, ConstantsAssumption DEF BaseType
    <3> QED BY <3>4, <3>5
  <2>2. CASE ~ \E a \in Answers : Answer(r, a)
    <3>1. UNCHANGED <<sandbox, key, now, approved, denied>>
      BY <1>1, <2>2, TablesKept
    <3>2. ASSUME NEW q \in Request, verdict'[q] = "deny_all"
          PROVE  verdict[q] = "deny_all" /\ at'[q] = at[q]
      BY <1>1, <2>2, <3>2, DenyAllStep, OwnVerdict, FinalVerdict
    <3> QED BY <3>1, <3>2 DEF DenyRecorded
  <2> QED BY <2>1, <2>2
<1>2. CASE Tick
  BY <1>2 DEF Tick, DenyRecorded, inputs, history
<1>3. CASE UNCHANGED vars
  BY <1>3 DEF vars, DenyRecorded
<1> QED BY <1>1, <1>2, <1>3 DEF Next, Finished

\* Only entering decide() takes the history snapshot.
LEMMA PriorKept ==
  ASSUME NEW r \in Request, ThreadStep(r), ~Rule(r)
  PROVE  prior' = prior
  BY DEF ThreadStep, Accept, TooMany, CheckDenied, CheckApproved, Enqueue,
         AcquireTurn, CheckPeer, ShowDialog, AskFails, Answer, ReleaseTurn,
         Leave, Close, history

LEMMA PriorDeniedStep ==
  BaseType /\ HistInv /\ PriorDenied /\ [Next]_vars => PriorDenied'
<1> SUFFICES ASSUME BaseType, HistInv, PriorDenied, [Next]_vars PROVE PriorDenied'
  OBVIOUS
<1>1. ASSUME NEW r \in Request, ThreadStep(r) PROVE PriorDenied'
  <2>1. ASSUME NEW q \in Request, verdict[q] = "deny_all"
        PROVE  verdict'[q] = "deny_all"
    BY <1>1, <2>1, FinalVerdict
  <2>2. ASSUME NEW p \in Request, NEW q \in prior'[p]
        PROVE  q \in Request /\ verdict[q] = "deny_all"
    <3>1. CASE Rule(r)
      BY <3>1, <2>2 DEF Rule, DenyAlls, PriorDenied, BaseType
    <3>2. CASE ~Rule(r)
      BY <1>1, <3>2, <2>2, PriorKept DEF PriorDenied, BaseType
    <3> QED BY <3>1, <3>2
  <2> QED BY <2>1, <2>2 DEF PriorDenied
<1>2. CASE Tick
  BY <1>2 DEF Tick, PriorDenied, history
<1>3. CASE UNCHANGED vars
  BY <1>3 DEF vars, PriorDenied
<1> QED BY <1>1, <1>2, <1>3 DEF Next, Finished

\* Past the first look: either it already was, or it just found no deny-all.
LEMMA PastDeniedStep ==
  ASSUME BaseType, NEW r \in Request, ThreadStep(r), NEW p \in Request,
         pc'[p] \in PastDenied
  PROVE  /\ ~(Rule(r) /\ p = r)
         /\ pc[p] \in PastDenied \/ (p = r /\ ~DeniedBefore(r))
<1> USE DEF BaseType, PastDenied, Holding
<1>1. CASE p # r
  <2>1. CASE Accept(r) \/ AcquireTurn(r) \/ ShowDialog(r) \/ ReleaseTurn(r)
             \/ Leave(r) \/ Close(r) \/ TooMany(r)
    BY <1>1, <2>1 DEF Accept, AcquireTurn, ShowDialog, ReleaseTurn, Leave,
                      Close, TooMany, Goto
  <2>2. CASE Rule(r) \/ CheckDenied(r) \/ CheckApproved(r)
    BY <1>1, <2>2 DEF Rule, CheckDenied, CheckApproved, Goto, Conclude
  <2>3. CASE Enqueue(r) \/ CheckPeer(r) \/ AskFails(r) \/ \E a \in Answers : Answer(r, a)
    BY <1>1, <2>3 DEF Enqueue, CheckPeer, AskFails, Answer, Goto, Conclude
  <2> QED BY <1>1, <2>1, <2>2, <2>3 DEF ThreadStep
<1>2. CASE p = r
  <2>1. CASE Accept(r) \/ AcquireTurn(r) \/ ShowDialog(r) \/ ReleaseTurn(r)
             \/ Leave(r) \/ Close(r) \/ TooMany(r)
    <3>1. ~Rule(r)
      BY <2>1 DEF Accept, AcquireTurn, ShowDialog, ReleaseTurn, Leave,
                  Close, TooMany, Goto, Rule
    <3> QED BY <1>2, <2>1, <3>1 DEF Accept, AcquireTurn, ShowDialog, ReleaseTurn,
                                    Leave, Close, TooMany, Goto
  <2>2. CASE Rule(r)
    <3>1. pc[r] = "rule"
      BY <2>2 DEF Rule
    <3>2. pc'[r] \in {"denied1", "done"}
      BY <2>2, <3>1, GotoMoves, ConcludeMoves DEF Rule
    <3> QED BY <1>2, <3>2
  <2>3. CASE CheckDenied(r)
    BY <1>2, <2>3, GotoMoves, ConcludeMoves DEF CheckDenied, Rule
  <2>4. CASE CheckApproved(r)
    BY <1>2, <2>4, GotoMoves, ConcludeMoves DEF CheckApproved, Rule
  <2>5. CASE Enqueue(r)
    BY <1>2, <2>5, GotoMoves, ConcludeMoves DEF Enqueue, Rule
  <2>6. CASE CheckPeer(r)
    BY <1>2, <2>6, GotoMoves, ConcludeMoves DEF CheckPeer, Rule
  <2>7. CASE AskFails(r) \/ \E a \in Answers : Answer(r, a)
    BY <1>2, <2>7, ConcludeMoves DEF AskFails, Answer, Rule
  <2> QED BY <2>1, <2>2, <2>3, <2>4, <2>5, <2>6, <2>7 DEF ThreadStep
<1> QED BY <1>1, <1>2

\* A request allowed otherwise than by a rule was past its first look.
LEMMA AllowingStep ==
  ASSUME BaseType, NEW r \in Request, ThreadStep(r), verdict[r] = "none",
         verdict'[r] \in Allowing \ {"rule_allow"}
  PROVE  pc[r] \in PastDenied /\ at'[r] = now /\ ~Rule(r)
<1> USE DEF inputs, history, BaseType, Allowing
<1>1. CASE Accept(r) \/ AcquireTurn(r) \/ ShowDialog(r) \/ ReleaseTurn(r)
           \/ Leave(r) \/ Close(r) \/ TooMany(r)
  BY <1>1 DEF Accept, AcquireTurn, ShowDialog, ReleaseTurn, Leave, Close, TooMany
<1>2. CASE Rule(r) \/ CheckDenied(r)
  BY <1>2, ConcludeMoves DEF Rule, CheckDenied
<1>3. CASE CheckApproved(r)
  BY <1>3, ConcludeMoves DEF CheckApproved, PastDenied, Rule
<1>4. CASE Enqueue(r) \/ CheckPeer(r) \/ AskFails(r)
  BY <1>4, ConcludeMoves DEF Enqueue, CheckPeer, AskFails
<1>5. CASE \E a \in Answers : Answer(r, a)
  BY <1>5, ConcludeMoves DEF Answer, PastDenied, Rule
<1> QED BY <1>1, <1>2, <1>3, <1>4, <1>5 DEF ThreadStep

\* A thread's step moves neither the clock nor who asks for what.
LEMMA InputsKept ==
  ASSUME NEW r \in Request, ThreadStep(r)
  PROVE  UNCHANGED <<sandbox, key, now>>
<1>1. CASE \E a \in Answers : Answer(r, a)
  BY <1>1 DEF Answer, inputs
<1> QED BY <1>1, TablesKept

\* A live deny-all is found by the look at self.denied.
LEMMA DenyFound ==
  ASSUME BaseType, DenyRecorded, NEW r \in Request, ~DeniedBefore(r),
         NEW q \in Request, verdict[q] = "deny_all", SameGroup(q, r)
  PROVE  now >= at[q] + SESSION_TTL
<1>1. /\ DenyOf[key[r]] \in DenyKey
      /\ denied[sandbox[r]][DenyOf[key[r]]] >= at[q] + SESSION_TTL
  BY DEF DenyRecorded, SameGroup
<1>2. ~(denied[sandbox[r]][DenyOf[key[r]]] > now)
  BY <1>1, ConstantsAssumption DEF DeniedBefore
<1>3. /\ denied[sandbox[r]][DenyOf[key[r]]] \in Nat /\ now \in Nat
      /\ at[q] + SESSION_TTL \in Nat
  BY <1>1, ConstantsAssumption DEF BaseType
<1> QED BY <1>1, <1>2, <1>3

LEMMA DenyExpiredStep ==
  BaseType /\ HistInv /\ DenyRecorded /\ PriorDenied /\ DenyExpired /\ [Next]_vars
    => DenyExpired'
<1> SUFFICES ASSUME BaseType, HistInv, DenyRecorded, PriorDenied, DenyExpired,
                    [Next]_vars
             PROVE  DenyExpired'
  OBVIOUS
<1>1. ASSUME NEW r \in Request, ThreadStep(r) PROVE DenyExpired'
  <2>1. UNCHANGED <<sandbox, key, now>>
    BY <1>1, InputsKept
  <2>2. SUFFICES ASSUME NEW p \in Request, NEW q \in prior'[p],
                        pc'[p] \in PastDenied, SameGroup(q, p)
                 PROVE  now >= at'[q] + SESSION_TTL
    BY <2>1 DEF DenyExpired, SameGroup
  <2>3. /\ ~(Rule(r) /\ p = r)
        /\ pc[p] \in PastDenied \/ (p = r /\ ~DeniedBefore(r))
    BY <1>1, <2>2, PastDeniedStep
  <2>4. prior'[p] = prior[p]
    <3>1. CASE Rule(r)
      BY <2>3, <3>1 DEF Rule, BaseType
    <3> QED BY <1>1, <3>1, PriorKept
  <2>5. q \in Request /\ verdict[q] = "deny_all"
    BY <2>2, <2>4 DEF PriorDenied, BaseType
  <2>6. at'[q] = at[q]
    BY <1>1, <2>5, FinalVerdict
  <2>7. now >= at[q] + SESSION_TTL
    BY <2>2, <2>3, <2>4, <2>5, DenyFound DEF DenyExpired
  <2> QED BY <2>6, <2>7
<1>2. CASE Tick
  <2>1. now' >= now /\ UNCHANGED <<sandbox, key, pc, at, prior>> /\ now \in Nat
    BY <1>2 DEF Tick, inputs, history, BaseType
  <2>2. ASSUME NEW p \in Request, NEW q \in prior[p] PROVE at[q] + SESSION_TTL \in Nat
    BY <2>2, ConstantsAssumption DEF BaseType
  <2>3. now' \in Nat
    BY <1>2 DEF Tick, BaseType
  <2> QED BY <2>1, <2>2, <2>3 DEF DenyExpired, SameGroup
<1>3. CASE UNCHANGED vars
  BY <1>3 DEF vars, DenyExpired, SameGroup
<1> QED BY <1>1, <1>2, <1>3 DEF Next, Finished

LEMMA DenyAllHoldsStep ==
  BaseType /\ HistInv /\ PriorDenied /\ DenyExpired /\ DenyAllHolds
    /\ [Next]_vars
    => DenyAllHolds'
<1> SUFFICES ASSUME BaseType, HistInv, PriorDenied, DenyExpired, DenyAllHolds,
                    [Next]_vars
             PROVE  DenyAllHolds'
  OBVIOUS
<1>1. ASSUME NEW r \in Request, ThreadStep(r) PROVE DenyAllHolds'
  <2>1. UNCHANGED <<sandbox, key, now>>
    BY <1>1, InputsKept
  <2>2. SUFFICES ASSUME NEW p \in Request, NEW q \in prior'[p], SameGroup(q, p),
                        verdict'[p] \in Allowing \ {"rule_allow"}
                 PROVE  at'[p] >= at'[q] + SESSION_TTL
    BY <2>1 DEF DenyAllHolds, SameGroup
  <2>3. ~(Rule(r) /\ p = r)
    <3>1. ASSUME Rule(r), p = r PROVE FALSE
      <4>1. verdict[p] = "none"
        BY <3>1 DEF HistInv, Rule, Decided, BaseType
      <4> QED BY <1>1, <2>2, <3>1, <4>1, AllowingStep
    <3> QED BY <3>1
  <2>4. prior'[p] = prior[p]
    <3>1. CASE Rule(r)
      BY <2>3, <3>1 DEF Rule, BaseType
    <3> QED BY <1>1, <3>1, PriorKept
  <2>5. q \in Request /\ verdict[q] = "deny_all" /\ at'[q] = at[q]
    BY <1>1, <2>2, <2>4, FinalVerdict DEF PriorDenied, BaseType
  <2>6. CASE verdict[p] # "none"
    <3>1. verdict'[p] = verdict[p] /\ at'[p] = at[p]
      BY <1>1, <2>6, FinalVerdict
    <3> QED BY <2>2, <2>4, <2>5, <3>1 DEF DenyAllHolds, SameGroup
  <2>7. CASE verdict[p] = "none"
    <3>1. p = r
      BY <1>1, <2>2, <2>7, OwnVerdict DEF Allowing
    <3>2. pc[p] \in PastDenied /\ at'[p] = now
      BY <1>1, <2>2, <2>7, <3>1, AllowingStep
    <3> QED BY <2>2, <2>4, <2>5, <3>2 DEF DenyExpired
  <2> QED BY <2>6, <2>7
<1>2. CASE Tick
  BY <1>2 DEF Tick, DenyAllHolds, inputs, history
<1>3. CASE UNCHANGED vars
  BY <1>3 DEF vars, DenyAllHolds
<1> QED BY <1>1, <1>2, <1>3 DEF Next, Finished

\* Whatever the rules and the timing: a deny-all given before a request came
\* in is in force for it until it expires, whoever approved what meanwhile.
THEOREM DenyAllHoldsAlways == Spec => []DenyAllHolds
<1>1. Init => HistInv /\ DenyRecorded /\ PriorDenied /\ DenyExpired /\ DenyAllHolds
  BY DEF Init, HistInv, DenyRecorded, PriorDenied, DenyExpired, DenyAllHolds
<1> QED BY <1>1, InitBase, BaseTypeStep, HistInvStep, DenyRecordedStep,
           PriorDeniedStep, DenyExpiredStep, DenyAllHoldsStep, PTL DEF Spec
=============================================================================
