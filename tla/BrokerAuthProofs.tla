-------------------------- MODULE BrokerAuthProofs --------------------------
(***************************************************************************)
(* Proofs about BrokerAuth, for every number of sandboxes, requests and    *)
(* failures; and about PolkitAgent, whose VM's agent it answers.           *)
(***************************************************************************)
EXTENDS PolkitAgent, TLAPS

LEMMA TypeInit == Init => TypeOK
  BY AuthAssumption DEF Init, TypeOK, PCs, NoFails

LEMMA ResultType ==
  ASSUME TypeOK, NEW r \in Request, NEW result \in BOOLEAN, Result(r, result)
  PROVE  TypeOK'
<1> DEFINE s == sandbox[r]
           n == inarow[s] + 1
<1>1. /\ s \in Sandbox /\ inarow[s] \in 0 .. AUTH_FAILS - 1 /\ now \in Nat
      /\ AUTH_FAILS \in Nat \ {0}
  BY AuthAssumption DEF TypeOK
<1>2. inarow' = [inarow EXCEPT ![s] = IF result \/ n = AUTH_FAILS THEN 0 ELSE n]
  BY DEF Result
<1>3. (IF result \/ n = AUTH_FAILS THEN 0 ELSE n) \in 0 .. AUTH_FAILS - 1
  BY <1>1
<1> HIDE DEF n
<1>4. inarow' \in [Sandbox -> 0 .. AUTH_FAILS - 1]
  BY <1>1, <1>2, <1>3 DEF TypeOK
<1>5. limit' \in [Sandbox -> Nat]
  BY <1>1 DEF Result, TypeOK
<1>6. pc' \in [Request -> PCs] /\ ok' \in [Request -> BOOLEAN]
  BY DEF Result, Goto, TypeOK, PCs
<1> QED BY <1>4, <1>5, <1>6 DEF Result, TypeOK

LEMMA TypeStep == TypeOK /\ [Next]_vars => TypeOK'
<1> SUFFICES ASSUME TypeOK, [Next]_vars PROVE TypeOK'
  OBVIOUS
<1> USE AuthAssumption DEF locals, history
<1>1. ASSUME NEW r \in Request, Begin(r) PROVE TypeOK'
  BY <1>1 DEF Begin, Goto, TypeOK, PCs
<1>2. ASSUME NEW r \in Request, Gate(r) PROVE TypeOK'
  <2>1. sandbox[r] \in Sandbox /\ auth_fails[sandbox[r]].fails \in 0 .. AUTH_FAILS - 1
    BY DEF TypeOK
  <2>2. seen' \in [Request -> 0 .. AUTH_FAILS - 1] /\ auth_busy' \subseteq Sandbox
    BY <1>2, <2>1 DEF Gate, TypeOK
  <2>3. pc' \in [Request -> PCs]
    BY <1>2 DEF Gate, Goto, TypeOK, PCs
  <2> QED BY <1>2, <2>2, <2>3 DEF Gate, TypeOK
<1>3. ASSUME NEW r \in Request, GiveUp(r) \/ PkcheckEnds(r) PROVE TypeOK'
  BY <1>3, ResultType DEF GiveUp, PkcheckEnds
<1>4. ASSUME NEW r \in Request, Free(r) PROVE TypeOK'
  BY <1>4 DEF Free, Goto, TypeOK, PCs
<1>5. ASSUME NEW r \in Request, Count(r) PROVE TypeOK'
  <2> DEFINE new == IF ok[r] THEN NoFails
                    ELSE IF seen[r] + 1 >= AUTH_FAILS
                    THEN [fails |-> 0, until |-> now + AUTH_PAUSE]
                    ELSE [fails |-> seen[r] + 1, until |-> 0]
  <2>1. new \in [fails : 0 .. AUTH_FAILS - 1, until : Nat]
    BY DEF TypeOK, NoFails
  <2>2. auth_fails' = [auth_fails EXCEPT ![sandbox[r]] = new]
    BY <1>5 DEF Count
  <2> HIDE DEF new
  <2> QED BY <1>5, <2>1, <2>2 DEF Count, Goto, TypeOK, PCs
<1>6. CASE Tick
  BY <1>6 DEF Tick, TypeOK
<1>7. CASE UNCHANGED vars
  BY <1>7 DEF vars, TypeOK
<1> QED BY <1>1, <1>2, <1>3, <1>4, <1>5, <1>6, <1>7 DEF Next, OwnStep, Finished

\* Type correctness of op_authenticate's state; in particular the failures
\* counted stay below AUTH_FAILS, whoever counts them from which reading.
THEOREM AuthTypeCorrect == Spec => []TypeOK
  BY TypeInit, TypeStep, PTL DEF Spec

-----------------------------------------------------------------------------
\* OneAuthOnScreen, spelled out.
Screen == {"run", "free"}

BusyInv ==
  /\ \A q, r \in Request :
       pc[q] \in Screen /\ pc[r] \in Screen /\ sandbox[q] = sandbox[r] => q = r
  /\ \A r \in Request : pc[r] \in Screen => sandbox[r] \in auth_busy
  /\ \A s \in auth_busy : \E r \in Request : sandbox[r] = s /\ pc[r] \in Screen

LEMMA BusyStep == TypeOK /\ BusyInv /\ [Next]_vars => BusyInv'
<1> SUFFICES ASSUME TypeOK, BusyInv, [Next]_vars PROVE BusyInv'
  OBVIOUS
<1> USE DEF locals, history, TypeOK, Screen
<1>1. ASSUME NEW r \in Request, Begin(r) \/ Count(r) PROVE BusyInv'
  <2>1. /\ pc[r] \in {"new", "count"} /\ UNCHANGED <<sandbox, auth_busy>>
        /\ pc' = [pc EXCEPT ![r] = "gate"] \/ pc' = [pc EXCEPT ![r] = "done"]
    <3>1. CASE Begin(r)
      BY <3>1 DEF Begin, Goto
    <3>2. CASE Count(r)
      BY <3>2 DEF Count, Goto
    <3> QED BY <1>1, <3>1, <3>2
  <2>2. \A q \in Request : pc'[q] \in Screen <=> pc[q] \in Screen
    BY <2>1
  <2> QED BY <2>1, <2>2 DEF BusyInv
<1>2. ASSUME NEW r \in Request, Gate(r) PROVE BusyInv'
  <2>1. CASE pc'[r] = "done"
    <3>1. /\ pc[r] = "gate" /\ pc' = [pc EXCEPT ![r] = "done"]
          /\ UNCHANGED <<sandbox, auth_busy>>
      BY <1>2, <2>1 DEF Gate, Goto
    <3>2. \A q \in Request : pc'[q] \in Screen <=> pc[q] \in Screen
      BY <3>1
    <3> QED BY <3>1, <3>2 DEF BusyInv
  <2>2. CASE pc'[r] # "done"
    <3>1. /\ sandbox[r] \notin auth_busy
          /\ auth_busy' = auth_busy \cup {sandbox[r]}
          /\ pc' = [pc EXCEPT ![r] = "run"]
          /\ sandbox' = sandbox
      BY <1>2, <2>2 DEF Gate, Goto
    <3>2. \A q \in Request : sandbox[q] = sandbox[r] => pc[q] \notin Screen
      BY <3>1 DEF BusyInv
    <3> QED BY <3>1, <3>2 DEF BusyInv
  <2> QED BY <2>1, <2>2
<1>3. ASSUME NEW r \in Request, GiveUp(r) \/ PkcheckEnds(r) PROVE BusyInv'
  <2>1. pc[r] = "run" /\ pc' = [pc EXCEPT ![r] = "free"]
        /\ UNCHANGED <<sandbox, auth_busy>>
    BY <1>3 DEF GiveUp, PkcheckEnds, Result, Goto
  <2> QED BY <2>1 DEF BusyInv
<1>4. ASSUME NEW r \in Request, Free(r) PROVE BusyInv'
  <2>1. /\ pc[r] = "free" /\ pc' = [pc EXCEPT ![r] = "count"]
        /\ auth_busy' = auth_busy \ {sandbox[r]} /\ sandbox' = sandbox
    BY <1>4 DEF Free, Goto
  <2>2. \A q \in Request : q # r /\ pc[q] \in Screen => sandbox[q] # sandbox[r]
    BY <2>1 DEF BusyInv
  <2> QED BY <2>1, <2>2 DEF BusyInv
<1>5. CASE Tick
  BY <1>5 DEF Tick, BusyInv
<1>6. CASE UNCHANGED vars
  BY <1>6 DEF vars, BusyInv
<1> QED BY <1>1, <1>2, <1>3, <1>4, <1>5, <1>6 DEF Next, OwnStep, Finished

\* However many requests a sandbox makes at once, one of the user's password
\* dialogs is on screen for it at most, and it is busy exactly while one is.
THEOREM OneAuthAlways == Spec => []OneAuthOnScreen
<1>1. Init => BusyInv
  BY DEF Init, BusyInv, Screen
<1>2. TypeOK /\ BusyInv => OneAuthOnScreen
  BY DEF TypeOK, BusyInv, OneAuthOnScreen, Screen
<1> QED BY <1>1, <1>2, TypeInit, TypeStep, BusyStep, PTL DEF Spec

-----------------------------------------------------------------------------
(***************************************************************************)
(* The pause, for sandboxes that ask one authentication at a time.  The    *)
(* invariant ties the count in self.auth_fails to the failures in a row as *)
(* they ended: they agree unless a thread is between the end of its        *)
(* pkcheck and its counting, which then makes them agree.                  *)
(***************************************************************************)
Active(r) == pc[r] \notin {"new", "done"}

Serial(r) == sandbox[r] \notin overlap

OneAtATime ==
  \A q, r \in Request :
    sandbox[q] = sandbox[r] /\ Serial(r) /\ Active(q) /\ Active(r) => q = r

Uncounted(r) == pc[r] \in {"free", "count"}

Over(s) == limit[s] > 0 => now >= limit[s] + AUTH_PAUSE

\* The sandbox's count is up to date, and a pause that is due is in force.
Settled(s) ==
  /\ auth_fails[s].fails = inarow[s]
  /\ Over(s) \/ auth_fails[s].until >= limit[s] + AUTH_PAUSE
  /\ auth_fails[s].until > now => limit[s] > 0

\* What counting the thread's result will do.
Due(r) ==
  LET s == sandbox[r]
  IN  /\ auth_fails[s].until <= now
      /\ ok[r] => inarow[s] = 0 /\ limit[s] = 0
      /\ ~ok[r] /\ seen[r] + 1 >= AUTH_FAILS => inarow[s] = 0 /\ limit[s] > 0
      /\ ~ok[r] /\ ~(seen[r] + 1 >= AUTH_FAILS) => inarow[s] = seen[r] + 1 /\ Over(s)

PauseInv ==
  /\ \A s \in Sandbox : limit[s] <= now
  /\ now > 0
  /\ \A r \in Request : clock[r] <= now
  /\ \A s \in Sandbox \ overlap :
       (\A r \in Request : sandbox[r] = s => ~Uncounted(r)) => Settled(s)
  /\ \A r \in Request : Serial(r) /\ pc[r] = "run" =>
       /\ seen[r] = inarow[sandbox[r]]
       /\ Over(sandbox[r])
       /\ auth_fails[sandbox[r]].until <= now
  /\ \A r \in Request : Serial(r) /\ Uncounted(r) => Due(r)

LEMMA OneAtATimeStep ==
  ASSUME TypeOK, OneAtATime, [Next]_vars
  PROVE  OneAtATime'
<1> USE DEF locals, history
<1>1. ASSUME NEW r \in Request, Begin(r) PROVE OneAtATime'
  <2>1. /\ pc[r] = "new" /\ pc' = [pc EXCEPT ![r] = "gate"] /\ sandbox' = sandbox
        /\ overlap \subseteq overlap'
        /\ Served(sandbox[r]) # {} => sandbox[r] \in overlap'
    BY <1>1 DEF Begin, Goto
  <2>2. \A q \in Request :
          sandbox[q] = sandbox[r] /\ sandbox[r] \notin overlap' => ~Active(q)
    BY <2>1 DEF Served, Active
  <2> QED BY <2>1, <2>2 DEF OneAtATime, Active, Serial, TypeOK
<1>2. ASSUME NEW r \in Request, Gate(r) \/ GiveUp(r) \/ PkcheckEnds(r) \/ Free(r) \/ Count(r)
      PROVE  OneAtATime'
  <2>1. /\ Active(r) /\ sandbox' = sandbox /\ overlap' = overlap
        /\ \E to \in PCs : pc' = [pc EXCEPT ![r] = to]
    BY <1>2 DEF Gate, GiveUp, PkcheckEnds, Result, Free, Count, Goto, Active, PCs
  <2>2. \A q \in Request : Active(q)' => Active(q)
    BY <2>1 DEF Active, TypeOK
  <2> QED BY <2>1, <2>2 DEF OneAtATime, Serial
<1>3. CASE Tick
  BY <1>3 DEF Tick, OneAtATime, Active, Serial
<1>4. CASE UNCHANGED vars
  BY <1>4 DEF vars, OneAtATime, Active, Serial
<1> QED BY <1>1, <1>2, <1>3, <1>4 DEF Next, OwnStep, Finished

\* A step that leaves the tables of the failures alone.
LEMMA TablesKeptInv ==
  ASSUME TypeOK, PauseInv, UNCHANGED <<sandbox, ok, auth_fails, now, inarow, limit>>,
         NEW r \in Request, NEW to, pc' = [pc EXCEPT ![r] = to],
         \A q \in Request : q # r => seen'[q] = seen[q],
         \A q \in Request : clock'[q] <= now,
         Uncounted(r)' <=> Uncounted(r),
         Uncounted(r) => seen'[r] = seen[r],
         overlap \subseteq overlap',
         pc'[r] = "run" /\ Serial(r) => /\ seen'[r] = inarow[sandbox[r]]
                                        /\ Over(sandbox[r])
                                        /\ auth_fails[sandbox[r]].until <= now
  PROVE  PauseInv'
<1>1. \A q \in Request : q # r => pc'[q] = pc[q]
  BY DEF TypeOK
<1>2. \A q \in Request : Uncounted(q)' <=> Uncounted(q)
  BY <1>1 DEF Uncounted
<1>3. \A s \in Sandbox : (Settled(s)' <=> Settled(s)) /\ (Over(s)' <=> Over(s))
  BY DEF Settled, Over
<1>4. \A q \in Request : Serial(q)' => Serial(q)
  BY DEF Serial
<1>5. \A q \in Request : Serial(q) /\ Uncounted(q) => Due(q)'
  BY DEF PauseInv, Due, Over
<1>6. \A s \in Sandbox \ overlap' :
        (\A q \in Request : sandbox'[q] = s => ~Uncounted(q)') => Settled(s)'
  BY <1>2, <1>3 DEF PauseInv
<1>7. \A q \in Request : Serial(q)' /\ pc'[q] = "run" =>
        /\ seen'[q] = inarow'[sandbox'[q]]
        /\ Over(sandbox[q])'
        /\ auth_fails'[sandbox'[q]].until <= now'
  BY <1>1, <1>3, <1>4 DEF PauseInv, TypeOK
<1> QED BY <1>2, <1>4, <1>5, <1>6, <1>7 DEF PauseInv

LEMMA ResultInv ==
  ASSUME TypeOK, OneAtATime, PauseInv,
         NEW r \in Request, NEW result \in BOOLEAN, Result(r, result)
  PROVE  PauseInv'
<1> DEFINE s == sandbox[r]
<1>1. /\ s \in Sandbox /\ now \in Nat /\ AUTH_FAILS \in Nat \ {0} /\ AUTH_PAUSE \in Nat
      /\ inarow[s] \in 0 .. AUTH_FAILS - 1 /\ limit[s] \in Nat
      /\ seen[r] \in 0 .. AUTH_FAILS - 1 /\ auth_fails[s].until \in Nat
  BY AuthAssumption DEF TypeOK
<1>2. /\ pc[r] = "run" /\ pc'[r] = "free" /\ ok'[r] = result
      /\ \A q \in Request : q # r => pc'[q] = pc[q] /\ ok'[q] = ok[q]
      /\ UNCHANGED <<sandbox, clock, seen, auth_fails, now, overlap>>
  BY DEF Result, Goto, TypeOK
<1>3. /\ inarow'[s] = IF result \/ inarow[s] + 1 = AUTH_FAILS THEN 0 ELSE inarow[s] + 1
      /\ limit'[s] = IF result THEN 0
                     ELSE IF inarow[s] + 1 = AUTH_FAILS THEN now ELSE limit[s]
      /\ \A x \in Sandbox : x # s => inarow'[x] = inarow[x] /\ limit'[x] = limit[x]
  BY <1>1 DEF Result, TypeOK
<1>4. \A q \in Request : q # r /\ Serial(q) /\ Active(q) => sandbox[q] # s
  BY <1>2 DEF OneAtATime, Active, Serial
<1>5. /\ limit[s] <= now /\ now > 0
      /\ Serial(r) => seen[r] = inarow[s] /\ Over(s) /\ auth_fails[s].until <= now
  BY <1>1, <1>2 DEF PauseInv
<1>6. \A x \in Sandbox : limit'[x] <= now'
  BY <1>1, <1>2, <1>3, <1>5 DEF PauseInv
<1>7. Serial(r) => Due(r)'
  BY <1>1, <1>2, <1>3, <1>5 DEF Due, Over
<1>8. \A x \in Sandbox : x # s => (Over(x)' <=> Over(x)) /\ (Settled(x)' <=> Settled(x))
  BY <1>2, <1>3 DEF Over, Settled
<1>9. \A x \in Sandbox \ overlap' :
        (\A q \in Request : sandbox'[q] = x => ~Uncounted(q)') => Settled(x)'
  <2> SUFFICES ASSUME NEW x \in Sandbox \ overlap',
                      \A q \in Request : sandbox'[q] = x => ~Uncounted(q)'
               PROVE  Settled(x)'
    OBVIOUS
  <2>1. x # s
    BY <1>2 DEF Uncounted
  <2>2. \A q \in Request : sandbox[q] = x => ~Uncounted(q)
    BY <1>2, <2>1 DEF Uncounted
  <2> QED BY <1>2, <1>8, <2>1, <2>2 DEF PauseInv
<1>10. \A q \in Request : Serial(q)' /\ pc'[q] = "run" =>
         /\ seen'[q] = inarow'[sandbox'[q]]
         /\ Over(sandbox[q])'
         /\ auth_fails'[sandbox'[q]].until <= now'
  <2> SUFFICES ASSUME NEW q \in Request, Serial(q)', pc'[q] = "run"
               PROVE  /\ seen'[q] = inarow'[sandbox'[q]]
                      /\ Over(sandbox[q])'
                      /\ auth_fails'[sandbox'[q]].until <= now'
    OBVIOUS
  <2>1. q # r /\ Serial(q) /\ pc[q] = "run" /\ sandbox[q] \in Sandbox
    BY <1>2 DEF TypeOK, Serial
  <2>2. sandbox[q] # s
    BY <1>4, <2>1 DEF Active
  <2>3. /\ seen[q] = inarow[sandbox[q]] /\ Over(sandbox[q])
        /\ auth_fails[sandbox[q]].until <= now
    BY <2>1 DEF PauseInv
  <2>4. inarow'[sandbox[q]] = inarow[sandbox[q]] /\ limit'[sandbox[q]] = limit[sandbox[q]]
    BY <1>3, <2>1, <2>2
  <2> QED BY <1>2, <2>3, <2>4 DEF Over
<1>11. \A q \in Request : Serial(q)' /\ Uncounted(q)' => Due(q)'
  <2> SUFFICES ASSUME NEW q \in Request, Serial(q)', Uncounted(q)', q # r PROVE Due(q)'
    BY <1>2, <1>7 DEF Serial
  <2>1. Serial(q) /\ Uncounted(q) /\ sandbox[q] \in Sandbox
    BY <1>2 DEF TypeOK, Uncounted, Serial
  <2>2. sandbox[q] # s
    BY <1>4, <2>1 DEF Active, Uncounted
  <2>3. inarow'[sandbox[q]] = inarow[sandbox[q]] /\ limit'[sandbox[q]] = limit[sandbox[q]]
    BY <1>3, <2>1, <2>2
  <2>4. Due(q)
    BY <2>1 DEF PauseInv
  <2> QED BY <1>2, <2>3, <2>4 DEF Due, Over
<1> QED BY <1>2, <1>6, <1>9, <1>10, <1>11 DEF PauseInv

LEMMA CountInv ==
  ASSUME TypeOK, OneAtATime, PauseInv, NEW r \in Request, Count(r)
  PROVE  PauseInv'
<1> DEFINE s == sandbox[r]
<1>1. /\ s \in Sandbox /\ now \in Nat /\ AUTH_FAILS \in Nat \ {0} /\ AUTH_PAUSE \in Nat
      /\ inarow[s] \in Nat /\ limit[s] \in Nat
      /\ seen[r] \in 0 .. AUTH_FAILS - 1 /\ ok[r] \in BOOLEAN
  BY AuthAssumption DEF TypeOK
<1>2. /\ pc[r] = "count" /\ pc'[r] = "done"
      /\ \A q \in Request : q # r => pc'[q] = pc[q]
      /\ UNCHANGED <<sandbox, clock, seen, ok, now, inarow, limit, overlap>>
  BY DEF Count, Goto, TypeOK, locals, history
<1>3. /\ auth_fails'[s] = IF ok[r] THEN [fails |-> 0, until |-> 0]
                          ELSE IF seen[r] + 1 >= AUTH_FAILS
                          THEN [fails |-> 0, until |-> now + AUTH_PAUSE]
                          ELSE [fails |-> seen[r] + 1, until |-> 0]
      /\ \A x \in Sandbox : x # s => auth_fails'[x] = auth_fails[x]
  BY <1>1 DEF Count, TypeOK, NoFails
<1>4. \A q \in Request : q # r /\ Serial(q) /\ Active(q) => sandbox[q] # s
  BY <1>2 DEF OneAtATime, Active, Serial
<1>5. (Serial(r) => Due(r)) /\ limit[s] <= now
  BY <1>1, <1>2 DEF PauseInv, Uncounted
<1>6. ASSUME Serial(r) PROVE Settled(s)'
  <2>1. CASE ok[r]
    BY <1>1, <1>2, <1>3, <1>5, <1>6, <2>1 DEF Due, Settled, Over
  <2>2. CASE ~ok[r] /\ seen[r] + 1 >= AUTH_FAILS
    BY <1>1, <1>2, <1>3, <1>5, <1>6, <2>2 DEF Due, Settled, Over
  <2>3. CASE ~ok[r] /\ ~(seen[r] + 1 >= AUTH_FAILS)
    BY <1>1, <1>2, <1>3, <1>5, <1>6, <2>3 DEF Due, Settled, Over
  <2> QED BY <2>1, <2>2, <2>3
<1>7. \A x \in Sandbox \ overlap' :
        (\A q \in Request : sandbox'[q] = x => ~Uncounted(q)') => Settled(x)'
  <2> SUFFICES ASSUME NEW x \in Sandbox \ overlap', x # s,
                      \A q \in Request : sandbox'[q] = x => ~Uncounted(q)'
               PROVE  Settled(x)'
    BY <1>2, <1>6 DEF Settled, Over, Serial
  <2>1. \A q \in Request : sandbox[q] = x => ~Uncounted(q)
    <3> SUFFICES ASSUME NEW q \in Request, sandbox[q] = x PROVE ~Uncounted(q)
      OBVIOUS
    <3>1. q # r /\ ~Uncounted(q)'
      BY <1>2
    <3> QED BY <1>2, <3>1 DEF Uncounted
  <2>2. Settled(x)
    BY <1>2, <2>1 DEF PauseInv
  <2> QED BY <1>2, <1>3, <2>2 DEF Settled, Over
<1>8. \A q \in Request : Serial(q) /\ Active(q)' /\ q # r
        => auth_fails'[sandbox[q]] = auth_fails[sandbox[q]]
  <2> SUFFICES ASSUME NEW q \in Request, Serial(q), Active(q)', q # r
               PROVE  auth_fails'[sandbox[q]] = auth_fails[sandbox[q]]
    OBVIOUS
  <2>1. Active(q) /\ sandbox[q] \in Sandbox
    BY <1>2 DEF Active, TypeOK
  <2> QED BY <1>3, <1>4, <2>1
<1>9. \A q \in Request : Serial(q)' /\ pc'[q] = "run" =>
        /\ seen'[q] = inarow'[sandbox'[q]]
        /\ Over(sandbox[q])'
        /\ auth_fails'[sandbox'[q]].until <= now'
  BY <1>2, <1>8 DEF PauseInv, Over, Active, Serial
<1>10. \A q \in Request : Serial(q)' /\ Uncounted(q)' => Due(q)'
  <2> SUFFICES ASSUME NEW q \in Request, Serial(q)', Uncounted(q)' PROVE Due(q)'
    OBVIOUS
  <2>1. q # r /\ Serial(q) /\ Active(q)' /\ Uncounted(q)
    BY <1>2 DEF Uncounted, Active, Serial
  <2>2. auth_fails'[sandbox[q]] = auth_fails[sandbox[q]] /\ Due(q)
    BY <1>8, <2>1 DEF PauseInv
  <2> QED BY <1>2, <2>2 DEF Due, Over
<1> QED BY <1>2, <1>7, <1>9, <1>10 DEF PauseInv

LEMMA GateInv ==
  ASSUME TypeOK, OneAtATime, PauseInv, NEW r \in Request, Gate(r)
  PROVE  PauseInv' /\ (Serial(r) /\ pc'[r] = "run" => Over(sandbox[r]))
<1> DEFINE s == sandbox[r]
<1>1. /\ s \in Sandbox /\ now \in Nat /\ AUTH_PAUSE \in Nat /\ limit[s] \in Nat
      /\ clock[r] \in Nat /\ auth_fails[s].until \in Nat
  BY AuthAssumption DEF TypeOK
<1>2. /\ pc[r] = "gate"
      /\ UNCHANGED <<sandbox, clock, ok, auth_fails, now, inarow, limit, overlap>>
  BY DEF Gate, history
<1>3. clock[r] <= now /\ \A q \in Request : clock'[q] <= now
  BY <1>2 DEF PauseInv
<1>4. Serial(r) => Settled(s)
  <2> SUFFICES ASSUME Serial(r) PROVE Settled(s)
    OBVIOUS
  <2>1. \A q \in Request : sandbox[q] = s => ~Uncounted(q)
    BY <1>2 DEF OneAtATime, Active, Uncounted
  <2> QED BY <1>1, <2>1 DEF PauseInv, Serial
<1>5. CASE pc'[r] = "done"
  <2>1. pc' = [pc EXCEPT ![r] = "done"] /\ seen' = seen
    BY <1>5 DEF Gate, Goto, TypeOK
  <2>2. ~Uncounted(r)' /\ ~Uncounted(r) /\ pc'[r] # "run"
    BY <1>2, <1>5 DEF Uncounted
  <2> QED BY <1>2, <1>3, <2>1, <2>2, TablesKeptInv
<1>6. CASE pc'[r] # "done"
  <2>1. /\ pc' = [pc EXCEPT ![r] = "run"]
        /\ seen' = [seen EXCEPT ![r] = auth_fails[s].fails]
        /\ ~(clock[r] < auth_fails[s].until)
    BY <1>6 DEF Gate, Goto, TypeOK
  <2>2. auth_fails[s].until <= now
    BY <1>1, <1>3, <2>1
  <2>3. Serial(r) => Over(s)
    BY <1>1, <1>4, <2>2 DEF Settled, Over
  <2>4. pc'[r] = "run" /\ (Serial(r) => seen'[r] = inarow[s]) /\ \A q \in Request : q # r => seen'[q] = seen[q]
    BY <1>4, <2>1 DEF Settled, TypeOK
  <2>5. ~Uncounted(r)' /\ ~Uncounted(r)
    BY <1>2, <2>4 DEF Uncounted
  <2> QED BY <1>2, <1>3, <2>1, <2>2, <2>3, <2>4, <2>5, TablesKeptInv
<1> QED BY <1>5, <1>6

LEMMA TickInv ==
  ASSUME TypeOK, PauseInv, Tick
  PROVE  PauseInv'
<1>1. /\ now \in Nat /\ now' = now + 1 /\ AUTH_PAUSE \in Nat
      /\ UNCHANGED <<sandbox, pc, clock, seen, ok, auth_fails, inarow, limit, overlap>>
  BY AuthAssumption DEF Tick, TypeOK, locals, history
<1>2. /\ \A s \in Sandbox : limit[s] \in Nat /\ auth_fails[s].until \in Nat
      /\ \A r \in Request : sandbox[r] \in Sandbox /\ clock[r] \in Nat
  BY DEF TypeOK
<1>3. \A s \in Sandbox : (Over(s) => Over(s)') /\ (Settled(s) => Settled(s)')
  BY <1>1, <1>2 DEF Over, Settled
<1>4. \A r \in Request : (Uncounted(r)' <=> Uncounted(r)) /\ (Serial(r)' <=> Serial(r))
  BY <1>1 DEF Uncounted, Serial
<1>5. \A r \in Request : Due(r) => Due(r)'
  BY <1>1, <1>2 DEF Due, Over
<1>6. /\ \A s \in Sandbox : limit'[s] <= now'
      /\ now' > 0
      /\ \A r \in Request : clock'[r] <= now'
  BY <1>1, <1>2 DEF PauseInv
<1>7. \A s \in Sandbox \ overlap' :
        (\A r \in Request : sandbox'[r] = s => ~Uncounted(r)') => Settled(s)'
  BY <1>1, <1>3, <1>4 DEF PauseInv
<1>8. \A r \in Request : Serial(r)' /\ pc'[r] = "run" =>
        /\ seen'[r] = inarow'[sandbox'[r]]
        /\ Over(sandbox[r])'
        /\ auth_fails'[sandbox'[r]].until <= now'
  BY <1>1, <1>2, <1>3, <1>4 DEF PauseInv
<1>9. \A r \in Request : Serial(r)' /\ Uncounted(r)' => Due(r)'
  BY <1>4, <1>5 DEF PauseInv
<1> QED BY <1>1, <1>6, <1>7, <1>8, <1>9 DEF PauseInv

LEMMA PauseInvStep ==
  ASSUME TypeOK, OneAtATime, PauseInv, [Next]_vars
  PROVE  /\ PauseInv'
         /\ \A r \in Request :
              Serial(r) /\ pc[r] = "gate" /\ pc'[r] = "run" => Over(sandbox[r])
<1> DEFINE Shown == \A r \in Request :
                      Serial(r) /\ pc[r] = "gate" /\ pc'[r] = "run" => Over(sandbox[r])
<1> USE DEF locals, history
<1>1. ASSUME NEW r \in Request, Begin(r) PROVE PauseInv' /\ Shown
  <2>1. /\ pc[r] = "new" /\ pc' = [pc EXCEPT ![r] = "gate"]
        /\ UNCHANGED <<sandbox, seen, ok, auth_fails, now, inarow, limit>>
        /\ overlap \subseteq overlap'
        /\ clock' = [clock EXCEPT ![r] = now]
    BY <1>1 DEF Begin, Goto
  <2>2. /\ pc'[r] = "gate"
        /\ \A q \in Request : clock'[q] <= now /\ (q # r => pc'[q] = pc[q])
    BY <2>1 DEF PauseInv, TypeOK
  <2>3. ~Uncounted(r)' /\ ~Uncounted(r)
    BY <2>1, <2>2 DEF Uncounted
  <2> QED BY <2>1, <2>2, <2>3, TablesKeptInv
<1>2. ASSUME NEW r \in Request, Gate(r) PROVE PauseInv' /\ Shown
  <2>1. \A q \in Request : q # r => pc'[q] = pc[q]
    BY <1>2 DEF Gate, Goto, TypeOK
  <2> QED BY <1>2, <2>1, GateInv
<1>3. ASSUME NEW r \in Request, GiveUp(r) \/ PkcheckEnds(r) PROVE PauseInv' /\ Shown
  <2>1. PICK result \in BOOLEAN : Result(r, result)
    BY <1>3 DEF GiveUp, PkcheckEnds
  <2>2. Shown
    BY <2>1 DEF Result, Goto, TypeOK
  <2> QED BY <2>1, <2>2, ResultInv
<1>4. ASSUME NEW r \in Request, Free(r) PROVE PauseInv' /\ Shown
  <2>1. /\ pc[r] = "free" /\ pc' = [pc EXCEPT ![r] = "count"]
        /\ UNCHANGED <<sandbox, clock, seen, ok, auth_fails, now, inarow, limit, overlap>>
    BY <1>4 DEF Free, Goto
  <2>2. /\ pc'[r] = "count"
        /\ \A q \in Request : clock'[q] <= now /\ (q # r => pc'[q] = pc[q])
    BY <2>1 DEF PauseInv, TypeOK
  <2>3. Uncounted(r)' /\ Uncounted(r)
    BY <2>1, <2>2 DEF Uncounted
  <2> QED BY <2>1, <2>2, <2>3, TablesKeptInv
<1>5. ASSUME NEW r \in Request, Count(r) PROVE PauseInv' /\ Shown
  <2>1. Shown
    BY <1>5 DEF Count, Goto, TypeOK
  <2> QED BY <1>5, <2>1, CountInv
<1>6. CASE Tick
  BY <1>6, TickInv DEF Tick
<1>7. CASE UNCHANGED vars
  <2>1. UNCHANGED <<sandbox, pc, clock, seen, ok, auth_fails, now, inarow, limit, overlap>>
    BY <1>7 DEF vars
  <2> QED BY <2>1 DEF PauseInv, Settled, Over, Due, Uncounted, Serial
<1> QED BY <1>1, <1>2, <1>3, <1>4, <1>5, <1>6, <1>7 DEF Next, OwnStep, Finished

LEMMA PauseInit == Init => OneAtATime /\ PauseInv
<1> SUFFICES ASSUME Init PROVE OneAtATime /\ PauseInv
  OBVIOUS
<1>1. OneAtATime /\ \A r \in Request : ~Uncounted(r) /\ pc[r] # "run"
  BY DEF Init, OneAtATime, Active, Uncounted
<1>2. \A s \in Sandbox : Settled(s)
  BY DEF Init, Settled, Over, NoFails
<1> QED BY <1>1, <1>2 DEF Init, PauseInv

\* For a sandbox that asks one authentication at a time the pause holds: after
\* AUTH_FAILS failures in a row none comes on screen for AUTH_PAUSE.  The run
\* auth_pause_race shows that two requests at once break it.
THEOREM PauseHoldsSeriallyAlways == Spec => PauseHoldsSerially
<1> DEFINE Shown == \A r \in Request : sandbox[r] \notin overlap => ShownAfterPause(r)
           Inv == TypeOK /\ OneAtATime /\ PauseInv
<1>1. Init => Inv
  BY TypeInit, PauseInit
<1>2. Inv /\ [Next]_vars => Inv'
  BY TypeStep, OneAtATimeStep, PauseInvStep
<1>3. Inv /\ [Next]_vars => [Shown]_vars
  BY PauseInvStep DEF Over, Serial, ShownAfterPause
<1> QED BY <1>1, <1>2, <1>3, PTL DEF Spec, PauseHoldsSerially

\* A pause in force on such a sandbox always has AUTH_FAILS failures in a row
\* behind it, with no success since.
THEOREM PauseEarnedAlways == Spec => []PauseEarned
<1> DEFINE Inv == TypeOK /\ OneAtATime /\ PauseInv
<1>1. Init => Inv
  BY TypeInit, PauseInit
<1>2. Inv /\ [Next]_vars => Inv'
  BY TypeStep, OneAtATimeStep, PauseInvStep
<1>3. Inv => PauseEarned
  <2> SUFFICES ASSUME Inv, NEW s \in Sandbox \ overlap, auth_fails[s].until > now
               PROVE  limit[s] > 0
    BY DEF PauseEarned
  <2>1. CASE \A r \in Request : sandbox[r] = s => ~Uncounted(r)
    BY <2>1 DEF PauseInv, Settled
  <2>2. CASE \E r \in Request : sandbox[r] = s /\ Uncounted(r)
    <3>1. auth_fails[s].until <= now
      BY <2>2 DEF PauseInv, Due, Serial
    <3> QED BY <3>1 DEF TypeOK
  <2> QED BY <2>1, <2>2
<1> QED BY <1>1, <1>2, <1>3, PTL DEF Spec

-----------------------------------------------------------------------------
(* The agent in the VM                                                     *)

LEMMA AgentAsksAuth == PSpec => Spec
<1>1. PInit => Init
  BY DEF PInit
<1>2. [PNext]_pvars => [Next]_vars
  <2> SUFFICES ASSUME [PNext]_pvars PROVE [Next]_vars
    OBVIOUS
  <2>1. ASSUME NEW a \in App, AppStarts(a) \/ AppDies(a) \/ AgentStep(a) PROVE UNCHANGED vars
    BY <2>1 DEF AppStarts, AppDies, AgentStep, Register, FailureForgotten, CloseEvents,
                CloseBus, Serve
  <2>2. ASSUME NEW r \in Request,
               BeginAuthentication(r) \/ CancelAuthentication(r) \/ Refuse(r) \/ ThreadStep(r)
        PROVE  Begin(r) \/ UNCHANGED vars
    BY <2>2 DEF BeginAuthentication, CancelAuthentication, Refuse, ThreadStep, Store, Ask,
                AskFails, Hear, HangUp, Respond, RespondDenied
  <2>3. ASSUME NEW r \in Request, BrokerStep(r) \/ UserStep(r)
        PROVE  OwnStep(r) \/ PkcheckEnds(r)
    BY <2>3 DEF BrokerStep, UserStep, BeginOther, GateStep, PkcheckKilled, FreeStep, CountStep,
                OwnStep
  <2>4. ASSUME TickStep PROVE Tick
    BY <2>4 DEF TickStep
  <2>5. ASSUME Idle \/ UNCHANGED pvars PROVE UNCHANGED vars
    BY <2>5 DEF Idle, pvars
  <2> QED BY <2>1, <2>2, <2>3, <2>4, <2>5 DEF PNext, Next, OwnStep, Guest
<1> QED BY <1>1, <1>2, PTL DEF PSpec, Spec

\* The user of the host authenticated for the request.
Agreed(r) == pc[r] = "done" /\ ok[r]

AgreedInv ==
  /\ gpc \in [Request -> {"none", "queued", "begun", "stored", "asking", "granted",
                          "denied", "replied"}]
  /\ session \in [Request -> {"none", "open", "gone", "authorized"}]
  /\ \A r \in Request : gpc[r] = "granted" => Agreed(r)
  /\ \A r \in Request : session[r] = "authorized" => Agreed(r)

\* An answer of the broker stands.
LEMMA AgreedStands ==
  ASSUME TypeOK, [Next]_vars, NEW r \in Request, Agreed(r)
  PROVE  Agreed(r)'
<1> USE DEF Agreed, TypeOK, locals, history
<1>1. ASSUME NEW q \in Request, OwnStep(q) \/ PkcheckEnds(q)
      PROVE  /\ pc[q] # "done" /\ pc' = [pc EXCEPT ![q] = pc'[q]]
             /\ \E b \in BOOLEAN : ok' = ok \/ ok' = [ok EXCEPT ![q] = b]
  <2>1. CASE Begin(q)
    BY <2>1 DEF Begin, Goto
  <2>2. CASE Gate(q)
    BY <2>2 DEF Gate, Goto
  <2>3. CASE GiveUp(q) \/ PkcheckEnds(q)
    BY <2>3 DEF GiveUp, PkcheckEnds, Result, Goto
  <2>4. CASE Free(q)
    BY <2>4 DEF Free, Goto
  <2>5. CASE Count(q)
    BY <2>5 DEF Count, Goto
  <2> QED BY <1>1, <2>1, <2>2, <2>3, <2>4, <2>5 DEF OwnStep
<1>2. ASSUME NEW q \in Request, OwnStep(q) \/ PkcheckEnds(q) PROVE Agreed(r)'
  BY <1>1, <1>2
<1>3. CASE Tick \/ Finished \/ UNCHANGED vars
  BY <1>3 DEF Tick, Finished, vars
<1> QED BY <1>2, <1>3 DEF Next

LEMMA AgreedStep ==
  ASSUME TypeOK, AgreedInv, [PNext]_pvars, [Next]_vars
  PROVE  AgreedInv'
<1> USE DEF AgreedInv, GoGuest
<1>1. \A r \in Request : Agreed(r) => Agreed(r)'
  BY AgreedStands
<1>2. ASSUME NEW a \in App, AppStarts(a) \/ AppDies(a) \/ AgentStep(a) PROVE AgreedInv'
  <2>1. CASE CloseBus(a)
    BY <1>1, <2>1 DEF CloseBus
  <2>2. CASE Serve(a)
    <3>1. session' = session
          /\ (gpc' = gpc \/ \E r : gpc[r] = "queued" /\ gpc' = [gpc EXCEPT ![r] = "begun"])
      BY <2>2 DEF Serve
    <3> QED BY <1>1, <3>1
  <2>3. CASE AppStarts(a) \/ AppDies(a) \/ Register(a) \/ FailureForgotten(a) \/ CloseEvents(a)
    <3>1. UNCHANGED <<gpc, session>>
      BY <2>3 DEF AppStarts, AppDies, Register, FailureForgotten, CloseEvents, calls
    <3> QED BY <1>1, <3>1
  <2> QED BY <1>2, <2>1, <2>2, <2>3 DEF AgentStep
<1>3. ASSUME NEW r \in Request, BeginAuthentication(r) \/ CancelAuthentication(r) PROVE AgreedInv'
  BY <1>1, <1>3 DEF BeginAuthentication, CancelAuthentication
<1>4. ASSUME NEW r \in Request, Refuse(r) \/ Respond(r) \/ RespondDenied(r) PROVE AgreedInv'
  <2>1. CASE Respond(r)
    BY <1>1, <2>1 DEF Respond, Reply
  <2>2. CASE Refuse(r) \/ RespondDenied(r)
    BY <1>1, <2>2 DEF Refuse, RespondDenied, Reply
  <2> QED BY <1>4, <2>1, <2>2
<1>5. ASSUME NEW r \in Request, Hear(r) PROVE AgreedInv'
  <2>1. UNCHANGED session /\ pc[r] = "done"
        /\ gpc' = [gpc EXCEPT ![r] = IF ok[r] THEN "granted" ELSE "denied"]
    BY <1>5 DEF Hear
  <2>2. gpc'[r] = "granted" => Agreed(r)
    BY <2>1 DEF Agreed, TypeOK
  <2> QED BY <1>1, <2>1, <2>2
<1>6. ASSUME NEW r \in Request, Store(r) \/ Ask(r) \/ AskFails(r) \/ HangUp(r) PROVE AgreedInv'
  BY <1>1, <1>6 DEF Store, Ask, AskFails, HangUp
<1>7. ASSUME UNCHANGED <<gpc, session>> PROVE AgreedInv'
  BY <1>1, <1>7
<1>8. ASSUME NEW r \in Request, BrokerStep(r) \/ UserStep(r) PROVE UNCHANGED <<gpc, session>>
  BY <1>8 DEF BrokerStep, UserStep, BeginOther, GateStep, PkcheckKilled, FreeStep, CountStep,
              guest, calls
<1>9. ASSUME TickStep \/ Idle \/ UNCHANGED pvars PROVE UNCHANGED <<gpc, session>>
  BY <1>9 DEF TickStep, Idle, pvars, guest, calls
<1> QED BY <1>2, <1>3, <1>4, <1>5, <1>6, <1>7, <1>8, <1>9 DEF PNext, ThreadStep, Guest

\* polkitd authorizes a process of the VM only after the host's user
\* authenticated for that very request: whatever the order of begin(), its
\* reply, the cancel behind it and the agent's end, and with any number of
\* agents and requests.
THEOREM AuthorizedByUserAlways == PSpec => []AuthorizedByUser
<1> DEFINE Inv == TypeOK /\ AgreedInv
<1>1. PInit => Inv
  BY TypeInit DEF PInit, AgreedInv
<1>2. Inv /\ [PNext]_pvars /\ [Next]_vars => Inv'
  BY TypeStep, AgreedStep
<1>3. Inv => AuthorizedByUser
  BY DEF AgreedInv, AuthorizedByUser, Agreed
<1> QED BY <1>1, <1>2, <1>3, AgentAsksAuth, PTL DEF PSpec, Spec

\* The calls polkitd queues for an agent, and the end of its bus connection.
CallsOf(a) == [kind : {"begin", "cancel"}, request : OfApp(a)] \cup {Stop}

Underway == {r \in Request : gpc[r] \in {"stored", "asking", "granted", "denied"}}

AgentInv ==
  /\ mix \in Mix
  /\ app \in [App -> {"new", "live", "dead"}]
  /\ agent \in [App -> {"none", "open", "closing", "closed"}]
  /\ failed \subseteq App
  /\ DOMAIN queue = App /\ queue = [a \in App |-> queue[a]]
  /\ \A a \in App : queue[a] \in Seq(CallsOf(a))
  /\ cancel = Underway
  /\ event \subseteq Request
  /\ early \subseteq Request

\* One agent's queue changes, to calls of its own.
LEMMA QueueKeeps ==
  ASSUME AgentInv, mix' = mix, NEW a \in App, NEW q \in Seq(CallsOf(a)),
         queue' = [queue EXCEPT ![a] = q]
  PROVE  /\ DOMAIN queue' = App /\ queue' = [b \in App |-> queue'[b]]
         /\ \A b \in App : queue'[b] \in Seq(CallsOf(b)')
<1>1. \A b \in App : CallsOf(b)' = CallsOf(b)
  BY DEF CallsOf, OfApp, Guest, Stop
<1> HIDE DEF CallsOf
<1>2. DOMAIN queue = App /\ \A b \in App : queue[b] \in Seq(CallsOf(b))
  BY DEF AgentInv
<1>3. DOMAIN queue' = App /\ queue' = [b \in App |-> queue'[b]]
  BY <1>2
<1>4. \A b \in App : queue'[b] = IF b = a THEN q ELSE queue[b]
  BY <1>2
<1> QED BY <1>1, <1>2, <1>3, <1>4

\* A request's thread goes from one place to another, and its event is stored
\* from Store to the reply.
LEMMA UnderwayMoves ==
  ASSUME AgreedInv, NEW r \in Request, NEW from, NEW to, GoGuest(r, from, to)
  PROVE  Underway' = IF to \in {"stored", "asking", "granted", "denied"}
                     THEN Underway \cup {r} ELSE Underway \ {r}
  BY DEF AgreedInv, GoGuest, Underway

LEMMA AgentWatches ==
  ASSUME AgreedInv, AgentInv, NEW a \in App, AppStarts(a) \/ AppDies(a) \/ AgentStep(a)
  PROVE  AgentInv'
<1> USE DEF calls
<1>1. UNCHANGED mix /\ \A b \in App : CallsOf(b)' = CallsOf(b)
  BY DEF AppStarts, AppDies, AgentStep, Register, FailureForgotten, CloseEvents, CloseBus, Serve,
         CallsOf, OfApp, Guest, Stop
<1>2. CASE AppStarts(a) \/ AppDies(a) \/ Register(a) \/ FailureForgotten(a)
  <2>1. UNCHANGED <<queue, cancel, event, early, gpc>>
    BY <1>2 DEF AppStarts, AppDies, Register, FailureForgotten
  <2>2. /\ app' \in [App -> {"new", "live", "dead"}]
        /\ agent' \in [App -> {"none", "open", "closing", "closed"}]
        /\ failed' \subseteq App
    BY <1>2 DEF AppStarts, AppDies, Register, FailureForgotten, AgentInv
  <2> QED BY <1>1, <2>1, <2>2 DEF AgentInv, Underway
<1>3. CASE CloseEvents(a)
  <2>1. UNCHANGED <<app, failed, queue, gpc, cancel>>
    BY <1>3 DEF CloseEvents
  <2>2. /\ agent' \in [App -> {"none", "open", "closing", "closed"}]
        /\ event' \subseteq Request /\ early' \subseteq Request
    BY <1>3 DEF CloseEvents, AgentInv, OfApp, Guest
  <2> QED BY <1>1, <2>1, <2>2 DEF AgentInv, Underway
<1>4. CASE CloseBus(a)
  <2>1. UNCHANGED <<app, failed, gpc, cancel, event>>
    BY <1>4 DEF CloseBus
  <2>2. agent' \in [App -> {"none", "open", "closing", "closed"}] /\ early' \subseteq Request
    BY <1>4 DEF CloseBus, AgentInv, OfApp, Guest
  <2>3. queue' = [queue EXCEPT ![a] = Append(queue[a], Stop)]
    BY <1>4 DEF CloseBus
  <2>4. queue[a] \in Seq(CallsOf(a)) /\ Stop \in CallsOf(a)
    BY DEF AgentInv, CallsOf
  <2>5. Append(queue[a], Stop) \in Seq(CallsOf(a))
    BY <2>4
  <2>6. /\ DOMAIN queue' = App /\ queue' = [b \in App |-> queue'[b]]
        /\ \A b \in App : queue'[b] \in Seq(CallsOf(b)')
    BY <1>1, <2>3, <2>5, QueueKeeps
  <2> QED BY <1>1, <2>1, <2>2, <2>6 DEF AgentInv, Underway
<1>5. CASE Serve(a)
  <2> DEFINE call == Head(queue[a])
             rest == IF call = Stop THEN <<>> ELSE Tail(queue[a])
  <2>1. UNCHANGED <<app, agent, failed, cancel>> /\ queue' = [queue EXCEPT ![a] = rest]
    BY <1>5 DEF Serve, watcher
  <2>2. queue[a] \in Seq(CallsOf(a)) /\ queue[a] # <<>>
    BY <1>5 DEF AgentInv, Serve
  <2>3. call \in CallsOf(a) /\ rest \in Seq(CallsOf(a))
    BY <2>2
  <2>4. /\ DOMAIN queue' = App /\ queue' = [b \in App |-> queue'[b]]
        /\ \A b \in App : queue'[b] \in Seq(CallsOf(b)')
    BY <1>1, <2>1, <2>3, QueueKeeps
  <2>5. call.kind \in {"begin", "cancel"} => call.request \in Request
    BY <2>3 DEF CallsOf, OfApp, Guest, Stop
  <2>6. event' \subseteq Request /\ early' \subseteq Request
    BY <1>5, <2>5 DEF Serve, AgentInv
  <2>7. Underway' = Underway
    <3>1. CASE gpc' = gpc
      BY <3>1 DEF Underway
    <3>2. CASE gpc' # gpc
      <4>1. call.request \in Request /\ GoGuest(call.request, "queued", "begun")
        BY <1>5, <2>5, <3>2 DEF Serve
      <4>2. call.request \notin Underway
        BY <4>1 DEF GoGuest, Underway
      <4> QED BY <4>1, <4>2, UnderwayMoves
    <3> QED BY <3>1, <3>2
  <2> QED BY <1>1, <2>1, <2>4, <2>6, <2>7 DEF AgentInv
<1> QED BY <1>2, <1>3, <1>4, <1>5 DEF AgentStep

LEMMA AgentCalled ==
  ASSUME AgreedInv, AgentInv, NEW r \in Guest, BeginAuthentication(r) \/ CancelAuthentication(r)
  PROVE  AgentInv'
<1> DEFINE a == AppOf[r]
<1>1. r \in Request /\ a \in App /\ r \in OfApp(a)
  BY PolkitAssumption DEF Guest, OfApp
<1>2. /\ UNCHANGED <<mix, app, agent, failed, cancel, event, early>>
      /\ \A b \in App : CallsOf(b)' = CallsOf(b)
  BY DEF BeginAuthentication, CancelAuthentication, watcher, CallsOf, OfApp, Guest, Stop
<1>3. PICK kind \in {"begin", "cancel"} : queue' = [queue EXCEPT ![a] = Append(queue[a], Call(kind, r))]
  BY DEF BeginAuthentication, CancelAuthentication
<1>4. Call(kind, r) \in CallsOf(a) /\ queue[a] \in Seq(CallsOf(a))
  BY <1>1, <1>3 DEF Call, CallsOf, AgentInv
<1>5. Append(queue[a], Call(kind, r)) \in Seq(CallsOf(a))
  BY <1>4
<1>6. /\ DOMAIN queue' = App /\ queue' = [b \in App |-> queue'[b]]
      /\ \A b \in App : queue'[b] \in Seq(CallsOf(b)')
  BY <1>1, <1>2, <1>3, <1>5, QueueKeeps
<1>7. Underway' = Underway
  <2>1. CASE BeginAuthentication(r)
    BY <1>1, <2>1, UnderwayMoves DEF BeginAuthentication, GoGuest, Underway
  <2>2. CASE CancelAuthentication(r)
    BY <2>2 DEF CancelAuthentication, Underway
  <2> QED BY <2>1, <2>2
<1> QED BY <1>2, <1>6, <1>7 DEF AgentInv

LEMMA AgentThread ==
  ASSUME AgreedInv, AgentInv, NEW r \in Guest, Refuse(r) \/ ThreadStep(r)
  PROVE  AgentInv'
<1>1. r \in Request
  BY DEF Guest
<1>2. /\ UNCHANGED <<mix, app, agent, failed, queue, event, early>>
      /\ \A b \in App : CallsOf(b)' = CallsOf(b)
  BY DEF Refuse, ThreadStep, Store, Ask, AskFails, Hear, HangUp, Respond, RespondDenied, watcher,
         CallsOf, OfApp, Guest, Stop
<1>3. cancel' = Underway'
  <2>1. cancel = Underway
    BY DEF AgentInv
  <2>2. CASE Refuse(r) \/ Respond(r) \/ RespondDenied(r)
    <3>1. PICK from : GoGuest(r, from, "replied") /\ cancel' = cancel \ {r}
      BY <2>2 DEF Refuse, Respond, RespondDenied, Reply
    <3> QED BY <1>1, <2>1, <3>1, UnderwayMoves
  <2>3. CASE Store(r)
    BY <1>1, <2>1, <2>3, UnderwayMoves DEF Store
  <2>4. CASE Ask(r) \/ AskFails(r) \/ Hear(r) \/ HangUp(r)
    <3>1. PICK from \in {"stored", "asking"}, to \in {"asking", "granted", "denied"} :
            GoGuest(r, from, to) /\ cancel' = cancel
      BY <2>4 DEF Ask, AskFails, Hear, HangUp
    <3>2. r \in Underway
      BY <1>1, <3>1 DEF GoGuest, Underway
    <3> QED BY <1>1, <2>1, <3>1, <3>2, UnderwayMoves
  <2> QED BY <2>2, <2>3, <2>4 DEF ThreadStep
<1> QED BY <1>2, <1>3 DEF AgentInv

LEMMA AgentInvStep ==
  ASSUME AgreedInv, AgentInv, [PNext]_pvars
  PROVE  AgentInv'
<1>1. ASSUME UNCHANGED guest PROVE AgentInv'
  <2>1. UNCHANGED <<mix, app, agent, failed, queue, event, early, cancel, gpc>>
    BY <1>1 DEF guest, watcher, calls
  <2>2. \A a \in App : CallsOf(a)' = CallsOf(a)
    BY <2>1 DEF CallsOf, OfApp, Guest, Stop
  <2>3. Underway' = Underway
    BY <2>1 DEF Underway
  <2> QED BY <2>1, <2>2, <2>3 DEF AgentInv
<1>2. ASSUME NEW r \in Request, BrokerStep(r) \/ UserStep(r) PROVE UNCHANGED guest
  BY <1>2 DEF BrokerStep, UserStep, BeginOther, GateStep, PkcheckKilled, FreeStep, CountStep
<1>3. ASSUME TickStep \/ Idle \/ UNCHANGED pvars PROVE UNCHANGED guest
  BY <1>3 DEF TickStep, Idle, pvars
<1> QED BY <1>1, <1>2, <1>3, AgentWatches, AgentCalled, AgentThread DEF PNext

\* The agent's state and the broker's keep their types: an agent's queue holds
\* only calls about its own process, and an event is stored for exactly the
\* requests between begin()'s storing it and its reply, however they end.
THEOREM PolkitTypeCorrect == PSpec => []PolkitTypeOK
<1> DEFINE Inv == TypeOK /\ AgreedInv /\ AgentInv
<1>1. PInit => Inv
  <2> SUFFICES ASSUME PInit PROVE AgentInv /\ AgreedInv
    BY TypeInit DEF PInit
  <2>1. \A a \in App : <<>> \in Seq(CallsOf(a))
    OBVIOUS
  <2>2. AgreedInv
    BY DEF PInit, AgreedInv
  <2> QED BY <2>1, <2>2 DEF PInit, AgentInv, Underway
<1>2. Inv /\ [PNext]_pvars /\ [Next]_vars => Inv'
  BY TypeStep, AgreedStep, AgentInvStep
<1>3. Inv => PolkitTypeOK
  BY DEF AgreedInv, AgentInv, Underway, CallsOf, PolkitTypeOK
<1> QED BY <1>1, <1>2, <1>3, AgentAsksAuth, PTL DEF PSpec, Spec

\* The agent asks the broker as any program does, so what holds of the
\* broker's authentications holds with it: one password dialog of a sandbox,
\* and for those that ask one at a time a pause that holds and is earned.
THEOREM AgentAuthSafe == PSpec => [](OneAuthOnScreen /\ PauseEarned) /\ PauseHoldsSerially
  BY AgentAsksAuth, OneAuthAlways, PauseEarnedAlways, PauseHoldsSeriallyAlways, PTL
=============================================================================
