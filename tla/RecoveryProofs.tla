------------------------------- MODULE RecoveryProofs -------------------------------
(***************************************************************************)
(* The reconnect coordinator, the client owner and the recovery of an      *)
(* operation, for any number of operations, attempts, sessions, losses and *)
(* restarts.                                                               *)
(*                                                                         *)
(* What module Reconnect promises rests on the order in which an attempt   *)
(* lets go of the coordinator: as long as the generation it was spawned    *)
(* for is current, the coordinator names it, from the spawn until          *)
(* finish_reconnect_attempt has run, so that nobody can spawn another one  *)
(* (TaskInv). A caller that waits, waits for an attempt at the generation  *)
(* it saw fail, and one that asks again has slept off the failure it was   *)
(* given (CallerInv).                                                      *)
(*                                                                         *)
(* RotatedExactlyOnce and SetupFailsForAReason of module ClientOwner rest  *)
(* on what a session knows: its verifier is not ahead of the owner's, a    *)
(* latched loss is a loss of that verifier, and a session still being set  *)
(* up has latched nothing, or something no setup survives.                 *)
(*                                                                         *)
(* Then module Recovery implements Reconnect and ClientOwner, so that what *)
(* is proved of the two holds of the composition. A step maps to a step of *)
(* each or leaves it alone; that a reply meets a running operation and a   *)
(* session that exists is LinkInv: every generation has its session, and   *)
(* there is none before the client is built.                               *)
(***************************************************************************)
EXTENDS Recovery, TLAPS

Task == [generation : Nat, pc : {"connect", "finish", "send", "done"},
         outcome : {"none", "ok", "err"}]

CoordTypeOK ==
  /\ generation \in Nat /\ cooled \in Nat /\ tasks \in Seq(Task)
  /\ \/ coord = Idle
     \/ \E a \in DOMAIN tasks : \/ coord = Connecting(tasks[a].generation, a)
                                \/ coord = Failed(tasks[a].generation, a)
  /\ pc \in [Ops -> {"idle", "snapshot", "run", "reconnect", "await", "sleep"}]
  /\ snap \in [Ops -> Nat] /\ attempts \in [Ops -> Nat] /\ waits \in [Ops -> Nat]

TaskInv ==
  \A a \in DOMAIN tasks :
    /\ tasks[a].generation <= generation
    /\ tasks[a].outcome = "ok" => tasks[a].generation < generation
    /\ tasks[a].pc = "connect" => tasks[a].generation = generation
    /\ tasks[a].pc \in {"connect", "finish"} /\ tasks[a].generation = generation
         => coord = Connecting(generation, a)

CallerInv ==
  \A o \in Ops :
    /\ snap[o] <= generation
    /\ pc[o] = "await" => waits[o] \in DOMAIN tasks /\ tasks[waits[o]].generation = snap[o]
    /\ pc[o] = "snapshot" /\ attempts[o] > 0 => snap[o] < generation
    /\ pc[o] = "idle" => attempts[o] = 0
    /\ pc[o] = "run" => waits[o] = 0
    /\ pc[o] = "reconnect" => waits[o] <= cooled

CoordInv == CoordTypeOK /\ TaskInv /\ CallerInv
-----------------------------------------------------------------------------
LEMMA CoordInitInv ==
  ASSUME Init
  PROVE  CoordInv
  BY DEF Init, CoordInv, CoordTypeOK, TaskInv, CallerInv

\* A step of a caller that leaves the attempts and the session alone.
Moves(o, label, s, n, w) ==
  /\ pc' = [pc EXCEPT ![o] = label] /\ snap' = [snap EXCEPT ![o] = s]
  /\ attempts' = [attempts EXCEPT ![o] = n] /\ waits' = [waits EXCEPT ![o] = w]
  /\ UNCHANGED coordVars

Allowed(label, s, n, w) ==
  /\ label \in {"idle", "snapshot", "run", "reconnect", "await", "sleep"}
  /\ s \in Nat /\ n \in Nat /\ w \in Nat /\ s <= generation
  /\ label = "await" => w \in DOMAIN tasks /\ tasks[w].generation = s
  /\ label = "snapshot" /\ n > 0 => s < generation
  /\ label = "idle" => n = 0
  /\ label = "run" => w = 0
  /\ label = "reconnect" => w <= cooled

LEMMA CallerStep ==
  ASSUME CoordInv, NEW o \in Ops, NEW label, NEW s, NEW n, NEW w,
         Moves(o, label, s, n, w), Allowed(label, s, n, w)
  PROVE  CoordInv'
  <1> USE DEF Moves, Allowed
  <1>1. CoordTypeOK'
    BY Zenon DEF CoordInv, CoordTypeOK, coordVars
  <1>2. TaskInv'
    BY Zenon DEF CoordInv, TaskInv, coordVars
  <1>3. CallerInv'
    BY Zenon DEF CoordInv, CoordTypeOK, CallerInv, coordVars
  <1> QED
    BY <1>1, <1>2, <1>3, Zenon DEF CoordInv

LEMMA EndInv ==
  ASSUME CoordInv, NEW o \in Ops, NEW r, End(o, r), UNCHANGED coordVars
  PROVE  CoordInv'
  <1>1. Moves(o, "idle", 0, 0, 0)
    BY Zenon DEF End, Goto, Moves
  <1>2. Allowed("idle", 0, 0, 0)
    BY DEF Allowed, CoordInv, CoordTypeOK
  <1> QED
    BY <1>1, <1>2, CallerStep, Zenon

LEMMA ReconnectFailedInv ==
  ASSUME CoordInv, NEW o \in Ops, NEW a \in Nat, ReconnectFailed(o, a), UNCHANGED coordVars
  PROVE  CoordInv'
  <1>1. CASE End(o, "err")
    BY <1>1, EndInv, Zenon
  <1>2. CASE ~End(o, "err")
    <2>1. Moves(o, "sleep", snap[o], attempts[o], a)
      BY <1>2, Zenon DEF ReconnectFailed, Goto, CoordInv, CoordTypeOK, Moves
    <2>2. Allowed("sleep", snap[o], attempts[o], a)
      BY Zenon DEF Allowed, CoordInv, CoordTypeOK, CallerInv
    <2> QED
      BY <2>1, <2>2, CallerStep, Zenon
  <1> QED
    BY <1>1, <1>2, Zenon

\* Every step of a caller but the one that spawns an attempt.
LEMMA OpInv ==
  ASSUME CoordInv, NEW o \in Ops,
         Start(o) \/ Snapshot(o) \/ Finish(o) \/ LoseSession(o) \/ Wake(o) \/ SkipReconnect(o)
           \/ JoinAttempt(o) \/ ServeFailure(o) \/ AwaitOutcome(o) \/ Cancel(o)
  PROVE  CoordInv'
  <1>1. /\ snap = [snap EXCEPT ![o] = snap[o]] /\ attempts = [attempts EXCEPT ![o] = attempts[o]]
        /\ waits = [waits EXCEPT ![o] = waits[o]]
    BY Zenon DEF CoordInv, CoordTypeOK
  <1>2. /\ generation \in Nat /\ cooled \in Nat
        /\ snap[o] \in Nat /\ attempts[o] \in Nat /\ waits[o] \in Nat /\ snap[o] <= generation
    BY Zenon DEF CoordInv, CoordTypeOK, CallerInv
  <1>3. CASE Start(o)
    <2>1. Moves(o, "snapshot", snap[o], attempts[o], waits[o])
      BY <1>1, <1>3, Zenon DEF Start, Goto, Moves
    <2>2. Allowed("snapshot", snap[o], attempts[o], waits[o])
      BY <1>2, <1>3 DEF Start, CoordInv, CallerInv, Allowed
    <2> QED
      BY <2>1, <2>2, CallerStep, Zenon
  <1>4. CASE Snapshot(o)
    <2>1. Moves(o, "run", generation, attempts[o], 0)
      BY <1>1, <1>4, Zenon DEF Snapshot, Goto, Moves
    <2>2. Allowed("run", generation, attempts[o], 0)
      BY <1>2 DEF Allowed
    <2> QED
      BY <2>1, <2>2, CallerStep, Zenon
  <1>5. CASE Finish(o) \/ Cancel(o)
    BY <1>5, EndInv, Zenon DEF Finish, Cancel
  <1>6. CASE LoseSession(o)
    <2>1. CASE End(o, "err")
      BY <1>6, <2>1, EndInv, Zenon DEF LoseSession
    <2>2. CASE ~End(o, "err")
      <3>1. Moves(o, "reconnect", snap[o], attempts[o] + 1, waits[o])
        BY <1>1, <1>6, <2>2, Zenon DEF LoseSession, Goto, Moves
      <3>2. Allowed("reconnect", snap[o], attempts[o] + 1, waits[o])
        BY <1>2, <1>6 DEF LoseSession, CoordInv, CallerInv, Allowed
      <3> QED
        BY <3>1, <3>2, CallerStep, Zenon
    <2> QED
      BY <2>1, <2>2, Zenon
  <1>7. CASE Wake(o)
    <2>1. Moves(o, "reconnect", snap[o], attempts[o] + 1, waits[o])
      BY <1>1, <1>7, Zenon DEF Wake, Goto, Moves
    <2>2. Allowed("reconnect", snap[o], attempts[o] + 1, waits[o])
      BY <1>2, <1>7 DEF Wake, Allowed
    <2> QED
      BY <2>1, <2>2, CallerStep, Zenon
  <1>8. CASE SkipReconnect(o)
    <2>1. Moves(o, "snapshot", snap[o], attempts[o], waits[o])
      BY <1>1, <1>8, Zenon DEF SkipReconnect, Goto, Moves
    <2>2. Allowed("snapshot", snap[o], attempts[o], waits[o])
      BY <1>2, <1>8 DEF SkipReconnect, Allowed
    <2> QED
      BY <2>1, <2>2, CallerStep, Zenon
  <1>9. CASE JoinAttempt(o)
    <2>1. Moves(o, "await", snap[o], attempts[o], coord.task)
      BY <1>1, <1>9, Zenon DEF JoinAttempt, Goto, Moves
    <2>2. coord.task \in DOMAIN tasks /\ coord.task \in Nat /\ tasks[coord.task].generation = snap[o]
      BY <1>9 DEF JoinAttempt, Joinable, CoordInv, CoordTypeOK, Idle, Connecting, Failed
    <2>3. Allowed("await", snap[o], attempts[o], coord.task)
      BY <1>2, <2>2, Zenon DEF Allowed
    <2> QED
      BY <2>1, <2>3, CallerStep, Zenon
  <1>10. CASE ServeFailure(o)
    <2>1. coord.task \in Nat
      BY <1>10 DEF ServeFailure, CachedFailure, CoordInv, CoordTypeOK, Idle, Connecting, Failed
    <2> QED
      BY <1>10, <2>1, ReconnectFailedInv, Zenon DEF ServeFailure
  <1>11. CASE AwaitOutcome(o)
    <2>1. CASE tasks[waits[o]].outcome = "err"
      BY <1>2, <1>11, <2>1, ReconnectFailedInv, Zenon DEF AwaitOutcome
    <2>2. CASE tasks[waits[o]].outcome = "ok"
      <3>1. Moves(o, "snapshot", snap[o], attempts[o], waits[o])
        BY <1>1, <1>11, <2>2, Zenon DEF AwaitOutcome, Goto, Moves
      <3>2. Allowed("snapshot", snap[o], attempts[o], waits[o])
        BY <1>2, <1>11, <2>2, Zenon DEF AwaitOutcome, CoordInv, CallerInv, TaskInv, Allowed
      <3> QED
        BY <1>2, <3>1, <3>2, CallerStep, Zenon
    <2> QED
      BY <1>11, <2>1, <2>2, Zenon DEF AwaitOutcome
  <1> QED
    BY <1>3, <1>4, <1>5, <1>6, <1>7, <1>8, <1>9, <1>10, <1>11, Zenon

\* Nobody spawns an attempt while one connects: the coordinator names it.
LEMMA SpawnInv ==
  ASSUME CoordInv, NEW o \in Ops, SpawnAttempt(o)
  PROVE  CoordInv'
  <1> DEFINE n == Len(tasks) + 1
             new == [generation |-> snap[o], pc |-> "connect", outcome |-> "none"]
  <1>1. /\ tasks \in Seq(Task) /\ new \in Task /\ snap[o] = generation /\ generation \in Nat
    BY Zenon DEF SpawnAttempt, CoordInv, CoordTypeOK, Task
  <1>2. /\ tasks' = Append(tasks, new) /\ Len(tasks') = n /\ tasks' \in Seq(Task)
        /\ DOMAIN tasks' = DOMAIN tasks \cup {n} /\ tasks'[n] = new
        /\ \A a \in DOMAIN tasks : tasks'[a] = tasks[a] /\ a # n
        /\ n \in Nat /\ n > 0
    BY <1>1 DEF SpawnAttempt
  <1>3. /\ coord' = Connecting(generation, n) /\ waits' = [waits EXCEPT ![o] = n]
        /\ pc' = [pc EXCEPT ![o] = "await"] /\ UNCHANGED <<generation, cooled, snap, attempts>>
    BY <1>1, <1>2, Zenon DEF SpawnAttempt, Goto
  <1> HIDE DEF n, new
  <1>4. new.generation = generation /\ new.pc = "connect" /\ new.outcome = "none"
    BY <1>1, Zenon DEF new
  <1>5. \A a \in DOMAIN tasks :
          ~(tasks[a].pc \in {"connect", "finish"} /\ tasks[a].generation = generation)
    <2> SUFFICES ASSUME coord.state = "connecting", coord.generation = generation PROVE FALSE
      BY DEF CoordInv, TaskInv, Connecting
    <2> QED
      BY <1>1, Zenon DEF SpawnAttempt, Joinable
  <1>6. CoordTypeOK'
    BY <1>1, <1>2, <1>3, <1>4, Zenon DEF CoordInv, CoordTypeOK
  <1>7. TaskInv'
    BY <1>1, <1>2, <1>3, <1>4, <1>5 DEF CoordInv, TaskInv
  <1>8. CallerInv'
    BY <1>1, <1>2, <1>3, <1>4 DEF CoordInv, CoordTypeOK, CallerInv
  <1> QED
    BY <1>6, <1>7, <1>8, Zenon DEF CoordInv

\* A step of attempt a. The generation moves on only with the attempt that
\* connected under the current one.
LEMMA TaskStepInv ==
  ASSUME CoordInv, NEW a \in DOMAIN tasks, TaskStep(a)
  PROVE  CoordInv'
  <1> DEFINE Advances(label, outcome) ==
        /\ tasks' \in Seq(Task) /\ DOMAIN tasks' = DOMAIN tasks
        /\ tasks'[a].generation = tasks[a].generation
        /\ tasks'[a].pc = label /\ tasks'[a].outcome = outcome
        /\ \A b \in DOMAIN tasks : b # a => tasks'[b] = tasks[b]
  <1>1. ASSUME NEW label \in {"connect", "finish", "send", "done"},
               NEW outcome \in {"none", "ok", "err"}, Advance(a, label, outcome)
        PROVE  Advances(label, outcome)
    <2>1. tasks[a] \in Task /\ tasks \in Seq(Task)
      BY DEF CoordInv, CoordTypeOK
    <2> DEFINE x == [tasks[a] EXCEPT !.pc = label, !.outcome = outcome]
    <2>2. x \in Task /\ x.generation = tasks[a].generation /\ x.pc = label /\ x.outcome = outcome
      BY ZenonT(60), <2>1 DEF Task
    <2>3. tasks' = [tasks EXCEPT ![a] = x]
      BY ZenonT(60), <1>1 DEF Advance
    <2> HIDE DEF x
    <2> QED
      BY <2>1, <2>2, <2>3
  <1>2. /\ generation \in Nat /\ tasks[a].generation \in Nat /\ tasks[a].generation <= generation
        /\ tasks[a].outcome \in {"none", "ok", "err"}
    <2>1. tasks[a] \in Task
      BY DEF CoordInv, CoordTypeOK
    <2> QED
      BY <2>1, Zenon DEF CoordInv, CoordTypeOK, TaskInv, Task
  <1>3. CASE Publish(a)
    <2>1. /\ Advances("finish", "ok") /\ tasks[a].pc = "connect" /\ tasks[a].generation = generation
          /\ generation' = generation + 1 /\ UNCHANGED <<coord, cooled, opVars>>
      BY <1>1, <1>3, Zenon DEF Publish, CoordInv, TaskInv
    <2>2. \A b \in DOMAIN tasks : b # a => tasks[b].pc # "connect"
      BY <2>1 DEF CoordInv, TaskInv, Connecting
    <2>3. generation' \in Nat /\ generation < generation' /\ generation' # tasks[a].generation
      BY <1>2, <2>1
    <2>4. CoordTypeOK'
      <3>1. \/ coord' = Idle
            \/ \E b \in DOMAIN tasks' : \/ coord' = Connecting(tasks'[b].generation, b)
                                       \/ coord' = Failed(tasks'[b].generation, b)
        BY ZenonT(60), <2>1 DEF CoordInv, CoordTypeOK
      <3> QED
        BY <2>1, <2>3, <3>1, Zenon DEF CoordInv, CoordTypeOK, opVars
    <2>5. TaskInv'
      <3> SUFFICES ASSUME NEW b \in DOMAIN tasks
                   PROVE  /\ tasks'[b].generation \in Nat /\ tasks'[b].generation < generation'
                          /\ tasks'[b].pc # "connect"
        BY <2>1, <2>3 DEF TaskInv
      <3>1. tasks[b] \in Task /\ tasks[b].generation <= generation
        BY DEF CoordInv, CoordTypeOK, TaskInv
      <3>2. tasks[b].generation \in Nat
        BY <3>1, Zenon DEF Task
      <3> QED
        BY <1>2, <2>1, <2>2, <2>3, <3>1, <3>2
    <2>6. CallerInv'
      <3>1. UNCHANGED <<cooled, pc, snap, attempts, waits>> /\ DOMAIN tasks' = DOMAIN tasks
        BY <2>1, Zenon DEF opVars
      <3> SUFFICES ASSUME NEW o \in Ops
                   PROVE  /\ snap[o] \in Nat /\ snap[o] < generation'
                          /\ pc[o] = "await" => waits[o] \in DOMAIN tasks
                                                /\ tasks'[waits[o]].generation = snap[o]
                          /\ pc[o] = "idle" => attempts[o] = 0
                          /\ pc[o] = "run" => waits[o] = 0
                          /\ pc[o] = "reconnect" => waits[o] <= cooled
        BY <2>3, <3>1 DEF CallerInv
      <3>2. snap[o] \in Nat /\ snap[o] <= generation
        BY Zenon DEF CoordInv, CoordTypeOK, CallerInv
      <3>3. snap[o] < generation'
        BY <1>2, <2>3, <3>2
      <3> QED
        BY <2>1, <3>2, <3>3, Zenon DEF CoordInv, CallerInv
    <2> QED
      BY <2>4, <2>5, <2>6, Zenon DEF CoordInv
  <1>4. CASE ConnectFails(a) \/ SendOutcome(a)
    <2>1. PICK label \in {"finish", "done"}, outcome \in {"none", "ok", "err"} :
             /\ Advances(label, outcome) /\ (outcome = "err" \/ outcome = tasks[a].outcome)
             /\ label = "finish" => tasks[a].pc = "connect"
             /\ UNCHANGED <<generation, coord, cooled, opVars>>
      BY <1>1, <1>2, <1>4, Zenon DEF ConnectFails, SendOutcome
    <2>2. CoordTypeOK'
      BY ZenonT(60), <2>1 DEF CoordInv, CoordTypeOK, opVars
    <2>3. TaskInv'
      BY <1>2, <2>1 DEF CoordInv, TaskInv
    <2>4. CallerInv'
      BY <2>1, Zenon DEF CoordInv, CallerInv, opVars
    <2> QED
      BY <2>2, <2>3, <2>4, Zenon DEF CoordInv
  <1>5. CASE FinishAttempt(a)
    <2>1. /\ Advances("send", tasks[a].outcome) /\ tasks[a].pc = "finish"
          /\ coord' = coord \/ coord' = Idle \/ coord' = Failed(tasks[a].generation, a)
          /\ UNCHANGED <<generation, cooled, opVars>>
      BY <1>1, <1>2, <1>5, Zenon DEF FinishAttempt
    <2>2. ASSUME NEW b \in DOMAIN tasks, b # a, tasks[b].pc \in {"connect", "finish"},
                 tasks[b].generation = generation
          PROVE  coord' = coord
      <3>1. coord = Connecting(generation, b) /\ tasks[a].generation # generation
        BY <2>1, <2>2 DEF CoordInv, TaskInv, Connecting
      <3> QED
        BY <1>5, <3>1, Zenon DEF FinishAttempt, Connecting
    <2>3. CoordTypeOK'
      BY ZenonT(60), <2>1 DEF CoordInv, CoordTypeOK, opVars
    <2>4. TaskInv'
      BY <1>2, <2>1, <2>2 DEF CoordInv, TaskInv
    <2>5. CallerInv'
      BY <2>1, Zenon DEF CoordInv, CallerInv, opVars
    <2> QED
      BY <2>3, <2>4, <2>5, Zenon DEF CoordInv
  <1> QED
    BY <1>3, <1>4, <1>5, Zenon DEF TaskStep

LEMMA CoordNextInv ==
  ASSUME CoordInv, [Next]_vars
  PROVE  CoordInv'
  <1>1. CASE UNCHANGED vars
    BY <1>1, Zenon DEF CoordInv, CoordTypeOK, TaskInv, CallerInv, vars, coordVars, opVars
  <1>2. CASE BackoffPasses
    <2>1. cooled' \in Nat /\ cooled <= cooled' /\ UNCHANGED <<generation, coord, tasks, opVars>>
      BY <1>2 DEF BackoffPasses, CoordInv, CoordTypeOK, Idle, Connecting, Failed
    <2> QED
      BY <2>1 DEF CoordInv, CoordTypeOK, TaskInv, CallerInv, opVars
  <1> QED
    BY <1>1, <1>2, OpInv, SpawnInv, TaskStepInv, Zenon DEF Next, OpStep, Quiescent

LEMMA CoordInvImplies ==
  ASSUME CoordInv
  PROVE  OneAttempt /\ AttemptIsShared /\ FailureSeenOnce
  <1>1. OneAttempt /\ AttemptIsShared
    BY DEF CoordInv, TaskInv, OneAttempt, AttemptIsShared, Connecting
  <1>2. FailureSeenOnce
    BY DEF CoordInv, CoordTypeOK, CallerInv, FailureSeenOnce, CachedFailure
  <1> QED
    BY <1>1, <1>2, Zenon

\* A caller that goes on runs on the session that is current, and one that has
\* asked for a reconnect has seen an older one.
LEMMA NewerSession ==
  ASSUME CoordInv, Next, NEW o \in Ops, pc[o] = "snapshot", pc'[o] = "run", attempts[o] > 0
  PROVE  snap'[o] > snap[o]
  <1>1. pc \in [Ops -> {"idle", "snapshot", "run", "reconnect", "await", "sleep"}]
    BY Zenon DEF CoordInv, CoordTypeOK
  <1>2. ASSUME NEW p \in Ops, NEW label, Goto(p, label), label # "run" \/ p # o
        PROVE  FALSE
    BY <1>1, <1>2, Zenon DEF Goto
  <1>3. ~UNCHANGED pc
    BY <1>1, Zenon
  <1>4. PICK p \in Ops : Start(p) \/ OpStep(p) \/ Cancel(p)
    BY <1>3, Zenon DEF Next, TaskStep, Publish, ConnectFails, FinishAttempt, SendOutcome, BackoffPasses,
                Quiescent, opVars, vars
  <1>5. Snapshot(p) /\ p = o
    <2>1. ~Start(p) /\ ~Wake(p) /\ ~SkipReconnect(p) /\ ~JoinAttempt(p) /\ ~SpawnAttempt(p)
      BY <1>2, Zenon DEF Start, Wake, SkipReconnect, JoinAttempt, SpawnAttempt
    <2>2. ~Finish(p) /\ ~Cancel(p) /\ ~LoseSession(p)
      BY <1>2, Zenon DEF Finish, Cancel, LoseSession, End
    <2>3. ~ServeFailure(p) /\ ~AwaitOutcome(p)
      BY <1>2, Zenon DEF ServeFailure, AwaitOutcome, ReconnectFailed, End
    <2>4. Snapshot(p)
      BY <1>4, <2>1, <2>2, <2>3, Zenon DEF OpStep
    <2> QED
      BY <1>2, <2>4, Zenon DEF Snapshot
  <1> QED
    BY <1>5, Zenon DEF Snapshot, CoordInv, CoordTypeOK, CallerInv

(***************************************************************************)
(* For any number of callers, however they fail, wait and are cancelled:   *)
(* one attempt connects at a time, for the current generation, and the     *)
(* coordinator names it; no caller is served the failure it has slept off  *)
(* (reconnect, finish_reconnect_attempt and retry_reconnect_attempts of    *)
(* client.rs); and a retry runs on a newer session than the one that       *)
(* failed it.                                                              *)
(***************************************************************************)
THEOREM CoordinationIsSound == Spec => []Coordinated /\ RetriesOnNewerSession
  <1>1. Init => CoordInv
    BY CoordInitInv, Zenon
  <1>2. CoordInv /\ [Next]_vars => CoordInv'
    BY CoordNextInv, Zenon
  <1>3. CoordInv => Coordinated
    BY CoordInvImplies, Zenon DEF Coordinated
  <1>4. CoordInv /\ [Next]_vars =>
          [\A o \in Ops : pc[o] = "snapshot" /\ pc'[o] = "run" /\ attempts[o] > 0
                            => snap'[o] > snap[o]]_vars
    BY NewerSession, Zenon
  <1> QED
    BY <1>1, <1>2, <1>3, <1>4, PTL DEF Spec, RetriesOnNewerSession
-----------------------------------------------------------------------------
AnySession == [verifier : Nat, phase : Setup \cup {"live", "failed"},
               latched : SUBSET Flags, rotating : BOOLEAN, cut : BOOLEAN]

\* What makes a session unusable whether or not it has reclaimed.
Fatal == {"state_lost"} \cup Odd

SessionInv(x, v, gone) ==
  /\ x \in AnySession
  /\ x.verifier <= v
  /\ "state_lost" \in x.latched => x.verifier \in gone
  /\ x.rotating => "state_lost" \in x.latched
  /\ "state_lost" \in x.latched /\ ~x.rotating => x.verifier < v
  /\ x.phase \in Setup => x.latched = {} \/ x.latched \cap Fatal # {}
  /\ x.phase = "failed" => x.cut \/ x.latched \cap Fatal # {}

OwnerInv ==
  /\ verifier \in Nat /\ lost \in SUBSET Nat
  /\ sessions \in Seq(AnySession)
  /\ \A s \in DOMAIN sessions : SessionInv(sessions[s], verifier, lost)
  /\ \A v \in 0 .. verifier - 1 : v \in lost
-----------------------------------------------------------------------------
\* What a session knows stays true of a newer owner.
LEMMA NewerOwner ==
  ASSUME NEW x, NEW v \in Nat, NEW w \in Nat, v <= w, NEW gone, SessionInv(x, v, gone)
  PROVE  SessionInv(x, w, gone)
  BY DEF SessionInv, AnySession

\* Replacing one session by one that satisfies its invariant.
LEMMA OneSession ==
  ASSUME OwnerInv, NEW s \in DOMAIN sessions, NEW x, SessionInv(x, verifier, lost),
         sessions' = [sessions EXCEPT ![s] = x], UNCHANGED <<verifier, lost>>
  PROVE  OwnerInv'
  <1>1. sessions' \in Seq(AnySession) /\ DOMAIN sessions' = DOMAIN sessions
    BY DEF OwnerInv, SessionInv
  <1>2. \A t \in DOMAIN sessions : sessions'[t] = IF t = s THEN x ELSE sessions[t]
    BY Zenon DEF OwnerInv
  <1> QED
    BY <1>1, <1>2, Zenon DEF OwnerInv

\* What a reply latches: nothing, or all the flags of a fatal one. Whatever the
\* phase becomes with it, a session past the setup is in order, and so is one
\* that goes from RECLAIM_COMPLETE to the root.
LEMMA LatchStep ==
  ASSUME OwnerInv, NEW s \in DOMAIN sessions, NEW odd \in SUBSET Odd, NEW to,
         sessions[s].phase # "failed", to = "live" \/ (to = "root" /\ sessions[s].phase = "reclaim")
  PROVE  SessionInv([Latch(s, Reported(s) \cup odd) EXCEPT !.phase = to], verifier, lost)
  <1> DEFINE y == sessions[s]
             flags == Reported(s) \cup odd
             x == [Latch(s, flags) EXCEPT !.phase = to]
  <1> SUFFICES SessionInv(x, verifier, lost)
    BY Zenon
  <1>1. y \in AnySession /\ SessionInv(y, verifier, lost)
    BY DEF OwnerInv
  <1>2. flags \in SUBSET Flags /\ ("state_lost" \in flags => y.verifier \in lost)
    BY Zenon DEF Reported, Odd, Flags
  <1>3. to \in Setup \cup {"live", "failed"} /\ to # "failed"
    BY Zenon DEF Setup
  <1>4. CASE Verdict(flags, Complete(s)) = "ok"
    <2>1. x = [y EXCEPT !.phase = to]
      BY <1>4, Zenon DEF Latch
    <2>2. /\ x \in AnySession /\ x.verifier = y.verifier /\ x.latched = y.latched /\ x.phase = to
          /\ x.rotating = y.rotating /\ x.cut = y.cut
      BY ZenonT(60), <1>1, <1>3, <2>1 DEF AnySession
    <2>3. to \in Setup => y.phase \in Setup
      BY Zenon DEF Setup
    <2> QED
      BY <1>1, <1>3, <2>2, <2>3, Zenon DEF SessionInv
  <1>5. CASE Verdict(flags, Complete(s)) # "ok"
    <2> DEFINE r == y.rotating \/ ("state_lost" \in flags /\ "state_lost" \notin y.latched)
    <2>1. x = [[y EXCEPT !.latched = @ \cup flags, !.rotating = r] EXCEPT !.phase = to]
      BY <1>5, Zenon DEF Latch
    <2>2. r \in BOOLEAN
      BY Zenon DEF r
    <2> HIDE DEF x, y, flags, r
    <2>3. /\ x \in AnySession /\ x.verifier = y.verifier /\ x.latched = y.latched \cup flags
          /\ x.phase = to /\ x.rotating = r /\ x.cut = y.cut
      BY ZenonT(60), <1>1, <1>2, <1>3, <2>1, <2>2 DEF AnySession
    <2>4. x.phase \in Setup => flags \cap Fatal # {}
      BY <1>5, <2>3, Zenon DEF Verdict, Complete, Setup, Fatal, Odd, y
    <2>5. y.rotating => "state_lost" \in y.latched
      BY <1>1, Zenon DEF SessionInv
    <2>6. /\ x.rotating => "state_lost" \in x.latched
          /\ "state_lost" \in x.latched /\ ~x.rotating => "state_lost" \in y.latched /\ ~y.rotating
      BY <2>3, <2>5, Zenon DEF r
    <2> QED
      BY <1>1, <1>2, <1>3, <2>3, <2>4, <2>6, Zenon DEF SessionInv
  <1> QED
    BY <1>4, <1>5, Zenon

\* A session that goes on, or fails, without a reply.
LEMMA PhaseStep ==
  ASSUME OwnerInv, NEW s \in DOMAIN sessions, SettingUp(s), NEW x, x \in AnySession,
         x.verifier = sessions[s].verifier, x.latched = sessions[s].latched,
         x.rotating = sessions[s].rotating, x.phase \in Setup \cup {"failed"},
         x.phase = "failed" => x.cut \/ x.latched \cap Fatal # {}
  PROVE  SessionInv(x, verifier, lost)
  BY Zenon DEF OwnerInv, SessionInv, SettingUp, Setup

LEMMA OwnerInitInv ==
  ASSUME OwnerInit
  PROVE  OwnerInv
  BY DEF OwnerInit, OwnerInv

\* A step of one session, under whichever verifier it was begun.
LEMMA OwnerStepInv ==
  ASSUME OwnerInv, NEW s \in DOMAIN sessions, OwnerStep(s)
  PROVE  OwnerInv'
  <1> DEFINE y == sessions[s]
  <1>1. y \in AnySession /\ SessionInv(y, verifier, lost)
    BY DEF OwnerInv
  <1>2. ASSUME NEW to \in Setup \cup {"failed"}, NEW isCut \in BOOLEAN
        PROVE  LET x == [y EXCEPT !.phase = to, !.cut = isCut]
               IN /\ x \in AnySession /\ x.verifier = y.verifier /\ x.latched = y.latched
                  /\ x.rotating = y.rotating /\ x.phase = to /\ x.cut = isCut
    BY ZenonT(60), <1>1 DEF AnySession
  <1>3. ASSUME NEW to \in Setup \cup {"failed"}
        PROVE  LET x == [y EXCEPT !.phase = to]
               IN /\ x \in AnySession /\ x.verifier = y.verifier /\ x.latched = y.latched
                  /\ x.rotating = y.rotating /\ x.phase = to /\ x.cut = y.cut
    BY <1>1, Zenon DEF AnySession
  <1>4. ASSUME NEW to \in Setup, SettingUp(s), EndPhase(s, to), UNCHANGED <<verifier, lost>>
        PROVE  OwnerInv'
    <2>1. SessionInv([y EXCEPT !.phase = to], verifier, lost)
      <3> DEFINE x == [y EXCEPT !.phase = to]
      <3>1. to \in Setup \cup {"failed"} /\ to # "failed"
        BY Zenon DEF Setup
      <3>2. /\ x \in AnySession /\ x.verifier = y.verifier /\ x.latched = y.latched
            /\ x.rotating = y.rotating /\ x.phase = to
        BY <1>3, <3>1, Zenon
      <3> SUFFICES SessionInv(x, verifier, lost)
        BY Zenon
      <3> HIDE DEF x
      <3> QED
        BY <1>4, <3>1, <3>2, PhaseStep, Zenon
    <2>2. sessions' = [sessions EXCEPT ![s] = [y EXCEPT !.phase = to]]
      BY <1>4, Zenon DEF EndPhase
    <2> QED
      BY ZenonT(60), <1>4, <2>1, <2>2, OneSession
  <1>5. CASE ExchangeId(s) \/ CreateSession(s)
    BY <1>4, <1>5, Zenon DEF ExchangeId, CreateSession, SettingUp, Setup
  <1>6. CASE SetupFails(s)
    <2>1. SessionInv([y EXCEPT !.phase = "failed", !.cut = TRUE], verifier, lost)
      BY ZenonT(60), <1>2, <1>6, PhaseStep DEF SetupFails
    <2>2. sessions' = [sessions EXCEPT ![s] = [y EXCEPT !.phase = "failed", !.cut = TRUE]]
      BY ZenonT(60), <1>6 DEF SetupFails, OwnerInv
    <2> QED
      BY ZenonT(60), <1>6, <2>1, <2>2, OneSession DEF SetupFails
  <1>7. CASE Rotate(s)
    <2> DEFINE x == [y EXCEPT !.rotating = FALSE]
    <2>1. /\ x \in AnySession /\ x.verifier = y.verifier /\ x.latched = y.latched
          /\ x.rotating = FALSE /\ x.phase = y.phase /\ x.cut = y.cut
      BY ZenonT(60), <1>1 DEF AnySession
    <2>2. /\ y.rotating /\ verifier' = RotatedVerifier(s) /\ lost' = lost
          /\ sessions' = [sessions EXCEPT ![s] = x]
      BY <1>7, Zenon DEF Rotate
    <2>3. verifier' \in Nat /\ verifier <= verifier' /\ y.verifier < verifier'
      BY <1>1, <2>2 DEF RotatedVerifier, OwnerInv, SessionInv, AnySession
    <2>4. SessionInv(x, verifier', lost')
      <3> HIDE DEF x
      <3> QED
        BY <1>1, <2>1, <2>2, <2>3 DEF SessionInv, OwnerInv, AnySession
    <2>5. ASSUME NEW t \in DOMAIN sessions
          PROVE  SessionInv(sessions[t], verifier', lost')
      <3>1. SessionInv(sessions[t], verifier, lost) /\ verifier \in Nat
        BY Zenon DEF OwnerInv
      <3> QED
        BY <2>2, <2>3, <3>1, NewerOwner, Zenon
    <2>6. sessions' \in Seq(AnySession) /\ DOMAIN sessions' = DOMAIN sessions
      BY <2>1, <2>2 DEF OwnerInv
    <2>7. \A t \in DOMAIN sessions : sessions'[t] = IF t = s THEN x ELSE sessions[t]
      BY <2>2, Zenon DEF OwnerInv
    <2>8. \A v \in 0 .. verifier' - 1 : v \in lost'
      BY <1>1, <2>2, <2>3 DEF OwnerInv, RotatedVerifier, SessionInv
    <2> HIDE DEF x
    <2> QED
      BY <2>2, <2>3, <2>4, <2>5, <2>6, <2>7, <2>8, Zenon DEF OwnerInv
  <1>8. ASSUME NEW odd \in SUBSET Odd, ReclaimComplete(s, odd)
        PROVE  OwnerInv'
    BY ZenonT(60), <1>8, LatchStep, OneSession DEF ReclaimComplete
  <1>9. ASSUME NEW odd \in SUBSET Odd, LateReply(s, odd)
        PROVE  OwnerInv'
    <2>1. Latch(s, Reported(s) \cup odd) = [Latch(s, Reported(s) \cup odd) EXCEPT !.phase = "live"]
      BY ZenonT(60), <1>1, <1>9 DEF LateReply, Latch, AnySession
    <2> QED
      BY ZenonT(60), <1>9, <2>1, LatchStep, OneSession DEF LateReply
  <1>10. ASSUME NEW odd \in SUBSET Odd, ResolveExportRoot(s, odd)
         PROVE  OwnerInv'
    <2>1. CASE Usable(s) = "ok"
      <3>1. SessionInv([Latch(s, Reported(s) \cup odd) EXCEPT !.phase = "live"], verifier, lost)
        BY ZenonT(60), <1>10, LatchStep DEF ResolveExportRoot
      <3>2. /\ sessions' = [sessions EXCEPT
                   ![s] = [Latch(s, Reported(s) \cup odd) EXCEPT !.phase = "live"]]
            /\ UNCHANGED <<verifier, lost>>
        BY <1>10, <2>1, Zenon DEF ResolveExportRoot
      <3> QED
        BY ZenonT(60), <3>1, <3>2, OneSession
    <2>2. CASE Usable(s) # "ok"
      <3>1. y.latched \cap Fatal # {}
        BY <1>1, <1>10, <2>2, Zenon
        DEF ResolveExportRoot, Usable, Verdict, Complete, SessionInv, Setup
      <3>2. SessionInv([y EXCEPT !.phase = "failed"], verifier, lost)
        <4> DEFINE x == [y EXCEPT !.phase = "failed"]
        <4>1. SettingUp(s)
          BY <1>10, Zenon DEF ResolveExportRoot, SettingUp, Setup
        <4>2. /\ x \in AnySession /\ x.verifier = y.verifier /\ x.latched = y.latched
              /\ x.rotating = y.rotating /\ x.phase = "failed"
          BY <1>3, Zenon
        <4> SUFFICES SessionInv(x, verifier, lost)
          BY Zenon
        <4> HIDE DEF x
        <4> QED
          BY <3>1, <4>1, <4>2, PhaseStep, Zenon
      <3> QED
        BY <1>10, <2>2, <3>2, OneSession, Zenon DEF ResolveExportRoot, EndPhase
    <2> QED
      BY <2>1, <2>2, Zenon
  <1> QED
    BY <1>5, <1>6, <1>7, <1>8, <1>9, <1>10, Zenon DEF OwnerStep

LEMMA OwnerNextInv ==
  ASSUME OwnerInv, [OwnerNext]_ownerVars
  PROVE  OwnerInv'
  <1>1. CASE UNCHANGED ownerVars
    BY <1>1, Zenon DEF OwnerInv, ownerVars
  <1>2. CASE Connect
    <2> DEFINE x == [verifier |-> verifier, phase |-> "exchange", latched |-> {},
                     rotating |-> FALSE, cut |-> FALSE]
    <2>1. SessionInv(x, verifier, lost)
      BY DEF OwnerInv, SessionInv, AnySession, Setup, Flags, Odd
    <2>2. sessions' = Append(sessions, x) /\ verifier' = verifier /\ lost' = lost
      BY <1>2, Zenon DEF Connect
    <2> HIDE DEF x
    <2>3. sessions' \in Seq(AnySession)
      BY <2>1, <2>2 DEF OwnerInv, SessionInv
    <2>4. \A t \in DOMAIN sessions' :
            sessions'[t] = x \/ (t \in DOMAIN sessions /\ sessions'[t] = sessions[t])
      BY <2>1, <2>2 DEF OwnerInv, SessionInv
    <2> QED
      BY <2>1, <2>2, <2>3, <2>4, Zenon DEF OwnerInv
  <1>3. CASE LoseState
    <2>1. PICK s \in DOMAIN sessions : lost' = lost \cup {sessions[s].verifier}
      BY <1>3, Zenon DEF LoseState
    <2>2. sessions[s].verifier \in Nat
      <3>1. sessions[s] \in AnySession
        BY DEF OwnerInv
      <3> QED
        BY <3>1, Zenon DEF AnySession
    <2> QED
      BY ZenonT(60), <1>3, <2>1, <2>2 DEF LoseState, OwnerInv, SessionInv
  <1>4. CASE Restart
    BY <1>4, Zenon DEF Restart, OwnerInv
  <1> QED
    BY <1>1, <1>2, <1>3, <1>4, OwnerStepInv, Zenon DEF OwnerNext

LEMMA OwnerInvImplies ==
  ASSUME OwnerInv
  PROVE  RotatedExactlyOnce /\ SetupFailsForAReason
  BY DEF OwnerInv, SessionInv, AnySession, RotatedExactlyOnce, OneRotationPerLoss,
         LostVerifierIsGone, SetupFailsForAReason, Fatal

(***************************************************************************)
(* However many sessions are set up and cut short, and whatever their      *)
(* replies report in whichever order: the owner (ClientOwner of nfs4.rs)   *)
(* advances its verifier once for each incarnation the server has lost and *)
(* for no other, no session begins under one whose loss was handled, and   *)
(* NfsSession::connect fails only for a reason.                            *)
(***************************************************************************)
THEOREM OwnerIsSound == OwnerSpec => [](RotatedExactlyOnce /\ SetupFailsForAReason)
  <1>1. OwnerInit => OwnerInv
    BY OwnerInitInv, Zenon
  <1>2. OwnerInv /\ [OwnerNext]_ownerVars => OwnerInv'
    BY OwnerNextInv, Zenon
  <1>3. OwnerInv => RotatedExactlyOnce /\ SetupFailsForAReason
    BY OwnerInvImplies, Zenon
  <1> QED
    BY <1>1, <1>2, <1>3, PTL DEF OwnerSpec

LinkInv ==
  /\ request \in [Ops -> {"none", "sent", "rotate"}]
  /\ \A o \in Ops : request[o] # "none" => pc[o] = "run"
  /\ at \in Seq(Nat) /\ \A i \in DOMAIN at : at[i] \in DOMAIN sessions
  /\ at = <<>> \/ Len(at) = generation + 1
  /\ at = <<>> => generation = 0 /\ tasks = <<>> /\ \A o \in Ops : pc[o] = "idle"

RecInv == CoordInv /\ OwnerInv /\ LinkInv
-----------------------------------------------------------------------------
LEMMA RecInitInv ==
  ASSUME RecInit
  PROVE  RecInv
  BY CoordInitInv, OwnerInitInv DEF RecInit, RecInv, LinkInv, Init

\* No session is forgotten.
LEMMA SessionsGrow ==
  ASSUME OwnerInv, [OwnerNext]_ownerVars
  PROVE  DOMAIN sessions \subseteq DOMAIN sessions'
  <1>1. CASE Connect
    BY <1>1 DEF Connect, OwnerInv
  <1>2. CASE LoseState \/ Restart \/ UNCHANGED ownerVars
    BY <1>2, Zenon DEF LoseState, Restart, ownerVars
  <1>3. ASSUME NEW s \in DOMAIN sessions, OwnerStep(s)
        PROVE  DOMAIN sessions \subseteq DOMAIN sessions'
    BY ZenonT(60), <1>3 DEF OwnerStep, ExchangeId, CreateSession, SetupFails, Rotate, ReclaimComplete,
                ResolveExportRoot, LateReply, EndPhase
  <1> QED
    BY <1>1, <1>2, <1>3, Zenon DEF OwnerNext

\* The session of a running operation exists.
LEMMA SessionExists ==
  ASSUME RecInv, NEW o \in Ops, pc[o] = "run"
  PROVE  SessionOf(o) \in DOMAIN sessions
  <1>1. at # <<>> /\ Len(at) = generation + 1 /\ at \in Seq(Nat)
    BY Zenon DEF RecInv, LinkInv
  <1>2. snap[o] \in Nat /\ snap[o] <= generation /\ generation \in Nat
    BY Zenon DEF RecInv, CoordInv, CoordTypeOK, CallerInv
  <1>3. snap[o] + 1 \in DOMAIN at
    BY <1>1, <1>2
  <1> QED
    BY <1>3, Zenon DEF RecInv, LinkInv, SessionOf

\* A step that publishes no session keeps the links.
LEMMA LinkKept ==
  ASSUME RecInv, [Next]_vars, [OwnerNext]_ownerVars, UNCHANGED <<at, generation>>,
         at = <<>> => UNCHANGED <<tasks, pc>>,
         request' \in [Ops -> {"none", "sent", "rotate"}],
         \A o \in Ops : request'[o] # "none" => pc'[o] = "run"
  PROVE  RecInv'
  <1>1. CoordInv' /\ OwnerInv' /\ DOMAIN sessions \subseteq DOMAIN sessions'
    BY CoordNextInv, OwnerNextInv, SessionsGrow, Zenon DEF RecInv
  <1> QED
    BY <1>1, Zenon DEF RecInv, LinkInv

\* Each step of the composition, seen from the two parts.
Implements == [Next]_vars /\ [OwnerNext]_ownerVars /\ RecInv'

LEMMA ConnectImplements ==
  ASSUME RecInv, NEW a \in Attempts, ConnectStep(a) \/ ConnectCut(a)
  PROVE  Implements
  <1> USE DEF Implements
  <1>1. \A odd \in OddSets : odd \in SUBSET Odd
    BY Zenon DEF OddSets
  <1>2. ASSUME UNCHANGED <<vars, at, request>>, [OwnerNext]_ownerVars
        PROVE  Implements
    BY <1>2, LinkKept, Zenon DEF RecInv, LinkInv, vars, coordVars, opVars
  <1>3. CASE TryAddress(a)
    BY <1>2, <1>3, Zenon DEF TryAddress, OwnerNext
  <1>4. CASE SetupStep(a)
    BY <1>1, <1>2, <1>4, Zenon DEF SetupStep, Tries, OwnerNext, OwnerStep, linkVars
  <1>5. CASE SetupRotates(a) \/ SetupIsCut(a)
    BY <1>2, <1>5, Zenon DEF SetupRotates, SetupIsCut, Tries, OwnerNext, OwnerStep, linkVars
  <1>6. CASE AttemptFails(a)
    <2>1. a \in DOMAIN tasks /\ ConnectFails(a)
      BY <1>6, Zenon DEF AttemptFails, IsConnecting
    <2>2. Next
      BY <2>1, Zenon DEF Next, TaskStep
    <2>3. [OwnerNext]_ownerVars
      BY <1>6, Zenon DEF AttemptFails, Tries, OwnerNext, OwnerStep
    <2>4. /\ UNCHANGED <<at, generation, request, pc>>
          /\ at # <<>>
      BY <1>6, <2>1 DEF AttemptFails, ConnectFails, linkVars, opVars, RecInv, LinkInv
    <2> QED
      BY <2>2, <2>3, <2>4, LinkKept, Zenon DEF RecInv, LinkInv
  <1>7. CASE Connected(a)
    <2>1. PICK s \in DOMAIN sessions :
            \/ a = 0 /\ at' = <<s>> /\ UNCHANGED vars
            \/ /\ a # 0 /\ Publish(a)
               /\ at' = IF generation' = generation THEN at ELSE Append(at, s)
      BY <1>7, Zenon DEF Connected, Tries
    <2>2. UNCHANGED <<ownerVars, request, sessions>> /\ IsConnecting(a) /\ s \in Nat
      BY <1>7 DEF Connected, ownerVars, RecInv, OwnerInv
    <2>3. CASE a = 0
      <3>1. UNCHANGED vars /\ at' = <<s>> /\ at = <<>>
        BY <2>1, <2>2, <2>3, Zenon DEF IsConnecting
      <3>2. CoordInv' /\ OwnerInv'
        BY <2>2, <3>1, CoordNextInv, OwnerNextInv, Zenon DEF RecInv
      <3>3. LinkInv'
        BY <2>2, <3>1 DEF RecInv, LinkInv, vars, coordVars, opVars
      <3> QED
        BY <2>2, <3>1, <3>2, <3>3, Zenon DEF RecInv
    <2>4. CASE a # 0
      <3>1. a \in DOMAIN tasks /\ Publish(a)
        BY <2>1, <2>2, <2>4, Zenon DEF IsConnecting
      <3>2. Next
        BY <3>1, Zenon DEF Next, TaskStep
      <3>3. CoordInv' /\ OwnerInv'
        BY <2>2, <3>2, CoordNextInv, OwnerNextInv, Zenon DEF RecInv
      <3>4. at # <<>> /\ UNCHANGED pc /\ generation \in Nat
            /\ (generation' = generation \/ generation' = generation + 1)
        BY <3>1 DEF RecInv, LinkInv, CoordInv, CoordTypeOK, Publish, opVars
      <3>5. at' = IF generation' = generation THEN at ELSE Append(at, s)
        BY <2>1, <2>4, Zenon
      <3>6. /\ at \in Seq(Nat) /\ Len(at) = generation + 1
            /\ \A i \in DOMAIN at : at[i] \in DOMAIN sessions
        BY <3>4, Zenon DEF RecInv, LinkInv
      <3>7. /\ at' \in Seq(Nat) /\ at' # <<>> /\ Len(at') = generation' + 1
            /\ \A i \in DOMAIN at' : at'[i] \in DOMAIN sessions'
        <4>1. CASE generation' = generation
          BY <2>2, <3>4, <3>5, <3>6, <4>1, Zenon
        <4>2. CASE generation' = generation + 1
          <5>1. at' = Append(at, s)
            BY <3>4, <3>5, <4>2
          <5> QED
            BY <2>2, <3>4, <3>6, <4>2, <5>1
        <4> QED
          BY <3>4, <4>1, <4>2, Zenon
      <3>8. LinkInv'
        BY <2>2, <3>4, <3>7, Zenon DEF RecInv, LinkInv
      <3> QED
        BY <2>2, <3>2, <3>3, <3>8, Zenon DEF RecInv
    <2> QED
      BY <2>3, <2>4, Zenon
  <1> QED
    BY <1>3, <1>4, <1>5, <1>6, <1>7, Zenon DEF ConnectStep, ConnectCut

LEMMA OpImplements ==
  ASSUME RecInv, NEW o \in Ops, BeginOp(o) \/ RecOpStep(o) \/ Cancelled(o)
  PROVE  Implements
  <1> USE DEF Implements
  <1>1. /\ request \in [Ops -> {"none", "sent", "rotate"}]
        /\ pc \in [Ops -> {"idle", "snapshot", "run", "reconnect", "await", "sleep"}]
        /\ \A p \in Ops : request[p] # "none" => pc[p] = "run"
        /\ \A odd \in OddSets : odd \in SUBSET Odd
    BY DEF RecInv, CoordInv, CoordTypeOK, LinkInv, OddSets
  \* A step of Reconnect, for an operation that has no request under way.
  <1>2. ASSUME Next, [OwnerNext]_ownerVars, UNCHANGED <<at, generation>>, at # <<>>,
               NEW label, pc' = [pc EXCEPT ![o] = label], NEW st \in {"none", "sent", "rotate"},
               request' = [request EXCEPT ![o] = st], st = "none"
        PROVE  Implements
    <2>1. /\ request' \in [Ops -> {"none", "sent", "rotate"}]
          /\ \A p \in Ops : request'[p] # "none" => pc'[p] = "run"
      BY <1>1, <1>2, Zenon
    <2> QED
      BY <1>2, <2>1, LinkKept, Zenon
  \* A step that Reconnect does not see.
  <1>3. ASSUME UNCHANGED <<vars, at>>, [OwnerNext]_ownerVars, pc[o] = "run",
               NEW st \in {"none", "sent", "rotate"}, request' = [request EXCEPT ![o] = st]
        PROVE  Implements
    <2>1. /\ request' \in [Ops -> {"none", "sent", "rotate"}]
          /\ \A p \in Ops : request'[p] # "none" => pc'[p] = "run"
      BY <1>1, <1>3, Zenon DEF vars, opVars
    <2> QED
      BY <1>3, <2>1, LinkKept, Zenon DEF vars, coordVars, opVars
  <1>4. pc[o] # "idle" => at # <<>>
    BY Zenon DEF RecInv, LinkInv
  <1>5. pc[o] # "run" => request = [request EXCEPT ![o] = "none"]
    BY <1>1, Zenon
  <1>6. ASSUME NEW r \in {"ok", "err"}, pc[o] = "run", End(o, r), UNCHANGED coordVars
        PROVE  Next /\ pc' = [pc EXCEPT ![o] = "idle"] /\ generation' = generation
    BY ZenonT(60), <1>6 DEF Next, OpStep, Finish, End, Goto, coordVars
  <1>7. CASE BeginOp(o)
    BY ZenonT(60), <1>2, <1>5, <1>7 DEF BeginOp, Start, Next, Goto, coordVars, linkVars
  <1>8. CASE Coordination(o)
    <2>1. /\ OpStep(o) /\ UNCHANGED <<ownerVars, at, request, generation>>
          /\ pc[o] \notin {"idle", "run"}
      BY ZenonT(60), <1>8 DEF Coordination, OpStep, linkVars, Snapshot, Wake, SkipReconnect, JoinAttempt,
                  ServeFailure, SpawnAttempt, AwaitOutcome, coordVars
    <2>2. \E label : pc' = [pc EXCEPT ![o] = label]
      BY <1>8, Zenon DEF Coordination, Snapshot, Wake, SkipReconnect, JoinAttempt, ServeFailure,
                  SpawnAttempt, AwaitOutcome, ReconnectFailed, End, Goto
    <2>3. Next
      BY <2>1, Zenon DEF Next
    <2> QED
      BY ZenonT(60), <1>2, <1>4, <1>5, <2>1, <2>2, <2>3
  <1>9. ASSUME LoseSession(o), UNCHANGED <<ownerVars, at>>,
               request' = [request EXCEPT ![o] = "none"]
        PROVE  Implements
    <2>1. pc[o] = "run" /\ generation' = generation /\ \E label : pc' = [pc EXCEPT ![o] = label]
      BY <1>9, Zenon DEF LoseSession, Goto, End, coordVars
    <2>2. Next
      BY <1>9, Zenon DEF Next, OpStep
    <2> QED
      BY ZenonT(60), <1>2, <1>4, <1>9, <2>1, <2>2
  <1>10. ASSUME NEW r \in {"ok", "err"}, pc[o] = "run", End(o, r), UNCHANGED <<coordVars, at>>,
                [OwnerNext]_ownerVars, request' = [request EXCEPT ![o] = "none"]
         PROVE  Implements
    BY <1>2, <1>4, <1>6, <1>10, Zenon
  <1>11. CASE Refused(o)
    <2>1. /\ UNCHANGED <<ownerVars, at>> /\ pc[o] = "run"
          /\ request' = [request EXCEPT ![o] = "none"]
      BY <1>1, <1>11, Zenon DEF Refused, linkVars
    <2> QED
      BY <1>9, <1>10, <1>11, <2>1, Zenon DEF Refused
  <1>12. CASE Send(o)
    <2>1. /\ pc[o] = "run" /\ UNCHANGED <<vars, ownerVars, at>>
          /\ request' = [request EXCEPT ![o] = "sent"]
      BY ZenonT(60), <1>12 DEF Send, Requests
    <2> QED
      BY <1>3, <2>1, Zenon
  <1>13. CASE Reply(o)
    <2>1. pc[o] = "run" /\ UNCHANGED at
      BY ZenonT(60), <1>1, <1>13 DEF Reply
    <2>2. OwnerNext
      BY ZenonT(60), <1>1, <1>13, <2>1, SessionExists DEF Reply, OwnerNext, OwnerStep
    <2> QED
      BY ZenonT(60), <1>3, <1>10, <1>13, <2>1, <2>2 DEF Reply, Requests
  <1>14. CASE ReplyRotates(o)
    <2>1. pc[o] = "run" /\ UNCHANGED <<at, coordVars>>
      BY <1>1, <1>14, Zenon DEF ReplyRotates
    <2>2. OwnerNext
      BY <1>14, <2>1, SessionExists, Zenon DEF ReplyRotates, OwnerNext, OwnerStep
    <2> QED
      BY <1>10, <1>14, <2>1, <2>2, Zenon DEF ReplyRotates, Requests
  <1>15. CASE RequestLost(o)
    BY <1>9, <1>15, Zenon DEF RequestLost, Requests
  <1>16. CASE Cancelled(o)
    <2>1. /\ Next /\ pc' = [pc EXCEPT ![o] = "idle"] /\ UNCHANGED <<generation, at, ownerVars>>
          /\ request' = [request EXCEPT ![o] = "none"] /\ pc[o] # "idle"
      BY ZenonT(60), <1>16 DEF Cancelled, Cancel, Next, End, Goto, Requests, coordVars
    <2> QED
      BY ZenonT(60), <1>2, <1>4, <2>1
  <1> QED
    BY <1>7, <1>8, <1>11, <1>12, <1>13, <1>14, <1>15, <1>16, Zenon DEF RecOpStep

LEMMA RecNextImplements ==
  ASSUME RecInv, [RecNext]_recVars
  PROVE  Implements
  <1>1. ASSUME [Next]_vars, [OwnerNext]_ownerVars, UNCHANGED <<at, request, generation, pc>>,
               at = <<>> => UNCHANGED tasks
        PROVE  Implements
    BY <1>1, LinkKept, Zenon DEF RecInv, LinkInv, Implements
  <1>2. CASE UNCHANGED recVars
    BY <1>1, <1>2, Zenon DEF recVars, linkVars, vars, coordVars, opVars
  <1>3. CASE TimePasses
    BY <1>1, <1>3, Zenon DEF TimePasses, BackoffPasses, Next, linkVars, opVars
  <1>4. CASE ServerLoses \/ ServerRestarts
    BY <1>1, <1>4, Zenon DEF ServerLoses, ServerRestarts, OwnerNext, linkVars, vars, coordVars, opVars
  <1>5. ASSUME NEW a \in DOMAIN tasks, Completion(a)
        PROVE  Implements
    <2>1. /\ TaskStep(a) /\ UNCHANGED <<ownerVars, at, request, generation, pc>> /\ at # <<>>
      BY <1>5 DEF Completion, TaskStep, FinishAttempt, SendOutcome, linkVars, opVars, RecInv, LinkInv
    <2> QED
      BY ZenonT(60), <1>1, <2>1 DEF Next
  <1> QED
    BY <1>2, <1>3, <1>4, <1>5, OpImplements, ConnectImplements, Zenon DEF RecNext, Over

(***************************************************************************)
(* Operations, setups, replies and reconnects, interleaved as they may be, *)
(* do nothing that the reconnect coordinator and the client owner would    *)
(* not do by themselves: compound_raw_once, connect_session and            *)
(* run_reconnect keep to what Reconnect and ClientOwner say of them.       *)
(***************************************************************************)
THEOREM RecoveryRefines == RecSpec => KeepsParts
  <1>1. RecInit => RecInv /\ Init /\ OwnerInit
    BY RecInitInv, Zenon DEF RecInit
  <1>2. RecInv /\ [RecNext]_recVars => RecInv' /\ [Next]_vars /\ [OwnerNext]_ownerVars
    BY RecNextImplements, Zenon DEF Implements
  <1> QED
    BY <1>1, <1>2, PTL DEF RecSpec, KeepsParts, Spec, OwnerSpec

\* What holds of the parts holds of the client that is put together from them.
THEOREM RecoveryIsSound ==
  RecSpec => /\ []Coordinated /\ RetriesOnNewerSession
             /\ [](RotatedExactlyOnce /\ SetupFailsForAReason)
  BY RecoveryRefines, CoordinationIsSound, OwnerIsSound, PTL DEF KeepsParts
=============================================================================
