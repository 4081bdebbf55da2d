----------------------------- MODULE BrokerAuth -----------------------------
(***************************************************************************)
(* sbx-broker's system authentication (lib/broker/broker.py):              *)
(* Broker.op_authenticate and Broker.run_pkcheck.                          *)
(*                                                                         *)
(* Each request has a thread.  It reads the clock, passes a gate under     *)
(* self.lock (not paused, no authentication of the sandbox on screen),     *)
(* runs pkcheck, takes itself off self.auth_busy, and only then, under the *)
(* lock again, counts the result with the number of failures it read at    *)
(* the gate.                                                               *)
(*                                                                         *)
(* Actions the configuration doesn't map are refused before any state is   *)
(* touched and are left out.                                               *)
(***************************************************************************)
EXTENDS Naturals, FiniteSets

CONSTANTS
  Sandbox,
  Request,      \* the connections sandboxes ever make, one thread each
  MAX_CONNS,    \* requests of one sandbox served at once
  AUTH_FAILS,
  AUTH_PAUSE,
  MaxTime       \* bound on the clock, for model checking

ASSUME AuthAssumption ==
  /\ IsFiniteSet(Request)
  /\ MAX_CONNS \in Nat
  /\ AUTH_FAILS \in Nat \ {0}
  /\ AUTH_PAUSE \in Nat
  /\ MaxTime \in Nat

VARIABLES
  sandbox,      \* whose socket each request arrives on
  pc,           \* where each request's thread is
  clock,        \* each thread's reading of the time     (now, ahead of the gate)
  seen,         \* the failures each thread read         (fails)
  ok,           \* the result of each thread's pkcheck   (ok)
  auth_busy,    \* sandboxes with an authentication on screen
  auth_fails,   \* failures in a row and the pause's end of each sandbox
  now,          \* time.time()
  inarow,       \* history: authentications that failed in a row, as they ended
  limit,        \* history: when they last came to AUTH_FAILS, 0 if not since
  overlap       \* history: sandboxes that ever had two requests served at once

locals == <<clock, seen, ok>>
history == <<inarow, limit, overlap>>
vars == <<sandbox, pc, clock, seen, ok, auth_busy, auth_fails, now,
          inarow, limit, overlap>>

PCs == {"new", "gate", "run", "free", "count", "done"}
NoFails == [fails |-> 0, until |-> 0]

Init ==
  /\ sandbox \in [Request -> Sandbox]
  /\ pc = [r \in Request |-> "new"]
  /\ clock = [r \in Request |-> 0]
  /\ seen = [r \in Request |-> 0]
  /\ ok = [r \in Request |-> FALSE]
  /\ auth_busy = {}
  /\ auth_fails = [s \in Sandbox |-> NoFails]
  /\ now = 1
  /\ inarow = [s \in Sandbox |-> 0]
  /\ limit = [s \in Sandbox |-> 0]
  /\ overlap = {}

Goto(r, from, to) ==
  /\ pc[r] = from
  /\ pc' = [pc EXCEPT ![r] = to]

Served(s) == {r \in Request : sandbox[r] = s /\ pc[r] \notin {"new", "done"}}

\* A connection with a slot comes to op_authenticate, which reads the clock.
Begin(r) ==
  /\ Cardinality(Served(sandbox[r])) < MAX_CONNS
  /\ Goto(r, "new", "gate")
  /\ clock' = [clock EXCEPT ![r] = now]
  /\ overlap' = overlap \cup {s \in {sandbox[r]} : Served(s) # {}}
  /\ UNCHANGED <<sandbox, seen, ok, auth_busy, auth_fails, now, inarow, limit>>

\* Mutant: the busy test is missing.
Gate_NoBusy(r) ==
  LET s == sandbox[r]
  IN  /\ pc[r] = "gate"
      /\ \/ /\ clock[r] < auth_fails[s].until
            /\ Goto(r, "gate", "done")
            /\ UNCHANGED <<seen, auth_busy>>
         \/ /\ ~(clock[r] < auth_fails[s].until)
            /\ seen' = [seen EXCEPT ![r] = auth_fails[s].fails]
            /\ auth_busy' = auth_busy \cup {s}
            /\ Goto(r, "gate", "run")
      /\ UNCHANGED <<sandbox, clock, ok, auth_fails, now, history>>

\* Paused, already on screen, or on to pkcheck: one section under the lock.
Gate(r) ==
  LET s == sandbox[r]
  IN  /\ pc[r] = "gate"
      /\ \/ /\ clock[r] < auth_fails[s].until \/ s \in auth_busy
            /\ Goto(r, "gate", "done")
            /\ UNCHANGED <<seen, auth_busy>>
         \/ /\ ~(clock[r] < auth_fails[s].until \/ s \in auth_busy)
            /\ seen' = [seen EXCEPT ![r] = auth_fails[s].fails]
            /\ auth_busy' = auth_busy \cup {s}
            /\ Goto(r, "gate", "run")
      /\ UNCHANGED <<sandbox, clock, ok, auth_fails, now, history>>

\* pkcheck has ended; the history counts its failures in a row.
Result(r, result) ==
  LET s == sandbox[r]
      n == inarow[s] + 1
  IN  /\ Goto(r, "run", "free")
      /\ ok' = [ok EXCEPT ![r] = result]
      /\ inarow' = [inarow EXCEPT ![s] = IF result \/ n = AUTH_FAILS THEN 0 ELSE n]
      /\ limit' = [limit EXCEPT ![s] = IF result THEN 0
                                       ELSE IF n = AUTH_FAILS THEN now ELSE @]
      /\ UNCHANGED <<sandbox, clock, seen, auth_busy, auth_fails, now, overlap>>

\* run_pkcheck returns: the user authenticated, or the check failed, was
\* dismissed, couldn't be run or was cancelled by the requester hanging up,
\* which all count alike.
PkcheckEnds(r) == \E result \in BOOLEAN : Result(r, result)

\* Mutant: no deadline.
GiveUp_NoDeadline(r) == FALSE /\ Result(r, FALSE)

\* The deadline has passed: pkcheck is killed.
GiveUp(r) == Result(r, FALSE)

Free(r) ==
  /\ Goto(r, "free", "count")
  /\ auth_busy' = auth_busy \ {sandbox[r]}
  /\ UNCHANGED <<sandbox, locals, auth_fails, now, history>>

\* Mutant: the pause starts one failure late.
Count_OffByOne(r) ==
  LET s == sandbox[r]
  IN  /\ Goto(r, "count", "done")
      /\ auth_fails' = [auth_fails EXCEPT ![s] =
           IF ok[r] THEN NoFails
           ELSE IF seen[r] >= AUTH_FAILS
           THEN [fails |-> 0, until |-> now + AUTH_PAUSE]
           ELSE [fails |-> seen[r] + 1, until |-> 0]]
      /\ UNCHANGED <<sandbox, locals, auth_busy, now, history>>

\* Mutant: the count starts over, but without a pause.
Count_NoPause(r) ==
  LET s == sandbox[r]
  IN  /\ Goto(r, "count", "done")
      /\ auth_fails' = [auth_fails EXCEPT ![s] =
           IF ok[r] \/ seen[r] + 1 >= AUTH_FAILS THEN NoFails
           ELSE [fails |-> seen[r] + 1, until |-> 0]]
      /\ UNCHANGED <<sandbox, locals, auth_busy, now, history>>

\* Mutant: success leaves the count as it is.
Count_KeepsOnSuccess(r) ==
  LET s == sandbox[r]
  IN  /\ Goto(r, "count", "done")
      /\ auth_fails' = [auth_fails EXCEPT ![s] =
           IF ok[r] THEN @
           ELSE IF seen[r] + 1 >= AUTH_FAILS
           THEN [fails |-> 0, until |-> now + AUTH_PAUSE]
           ELSE [fails |-> seen[r] + 1, until |-> 0]]
      /\ UNCHANGED <<sandbox, locals, auth_busy, now, history>>

\* The result is counted on top of what was read at the gate; the reply goes
\* out.
Count(r) ==
  LET s == sandbox[r]
  IN  /\ Goto(r, "count", "done")
      /\ auth_fails' = [auth_fails EXCEPT ![s] =
           IF ok[r] THEN NoFails
           ELSE IF seen[r] + 1 >= AUTH_FAILS
           THEN [fails |-> 0, until |-> now + AUTH_PAUSE]
           ELSE [fails |-> seen[r] + 1, until |-> 0]]
      /\ UNCHANGED <<sandbox, locals, auth_busy, now, history>>

\* Environment: time passes.
Tick ==
  /\ now < MaxTime
  /\ now' = now + 1
  /\ UNCHANGED <<sandbox, pc, locals, auth_busy, auth_fails, history>>

Finished ==
  /\ \A r \in Request : pc[r] = "done"
  /\ now = MaxTime
  /\ UNCHANGED vars

\* What a thread does without anybody's help.
OwnStep(r) == Begin(r) \/ Gate(r) \/ GiveUp(r) \/ Free(r) \/ Count(r)

Next ==
  \/ \E r \in Request : OwnStep(r) \/ PkcheckEnds(r)
  \/ Tick
  \/ Finished

Spec == Init /\ [][Next]_vars

-----------------------------------------------------------------------------
TypeOK ==
  /\ sandbox \in [Request -> Sandbox]
  /\ pc \in [Request -> PCs]
  /\ clock \in [Request -> Nat]
  /\ seen \in [Request -> 0 .. AUTH_FAILS - 1]
  /\ ok \in [Request -> BOOLEAN]
  /\ auth_busy \subseteq Sandbox
  /\ auth_fails \in [Sandbox -> [fails : 0 .. AUTH_FAILS - 1, until : Nat]]
  /\ now \in Nat
  /\ inarow \in [Sandbox -> 0 .. AUTH_FAILS - 1]
  /\ limit \in [Sandbox -> Nat]
  /\ overlap \subseteq Sandbox

\* A sandbox never has two of the user's password dialogs on screen, and it
\* counts as busy exactly while a thread of it is between gate and discard.
OneAuthOnScreen ==
  \A s \in Sandbox :
    LET running == {r \in Request : sandbox[r] = s /\ pc[r] \in {"run", "free"}}
    IN  /\ \A q, r \in running : q = r
        /\ s \in auth_busy <=> running # {}

\* An authentication of r's sandbox comes on screen no sooner than AUTH_PAUSE
\* after AUTH_FAILS of it in a row have failed.
ShownAfterPause(r) ==
  LET s == sandbox[r]
  IN  pc[r] = "gate" /\ pc'[r] = "run" /\ limit[s] > 0
      => now >= limit[s] + AUTH_PAUSE

\* After AUTH_FAILS failed authentications of a sandbox in a row, none of it
\* comes on screen for AUTH_PAUSE.
PauseHolds == [][\A r \in Request : ShownAfterPause(r)]_vars

\* The same, for the sandboxes that ask one authentication at a time.
PauseHoldsSerially ==
  [][\A r \in Request : sandbox[r] \notin overlap => ShownAfterPause(r)]_vars

\* A pause of such a sandbox has AUTH_FAILS failures in a row behind it, which
\* the success of any authentication since would have broken.
PauseEarned ==
  \A s \in Sandbox \ overlap : auth_fails[s].until > now => limit[s] > 0
=============================================================================
