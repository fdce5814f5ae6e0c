----------------------------- MODULE Reconnect -----------------------------
(***************************************************************************)
(* Session recovery in src/src/client.rs: retrying_session_operation runs  *)
(* an operation on a snapshot of the current session; when the session is  *)
(* lost, reconnect joins or spawns one detached attempt (run_reconnect)    *)
(* per failed generation and shares its outcome with everybody who waits.  *)
(*                                                                         *)
(* The coordinator's lock is held only between await points, so what is    *)
(* done under it is one step.                                              *)
(***************************************************************************)
EXTENDS Integers, Sequences, FiniteSets

CONSTANTS
  Ops,         \* concurrent callers of client operations
  MaxAttempts, \* RECONNECT_RETRIES
  MaxOps       \* bound: operations each caller starts

ASSUME MaxAttemptsAssumption == MaxAttempts \in Nat \ {0}
ASSUME MaxOpsAssumption == MaxOps \in Nat
ASSUME OpsAssumption == IsFiniteSet(Ops)

VARIABLES
  generation, \* ClientSession.generation
  coord,      \* ReconnectCoordinator.state
  tasks,      \* the spawned run_reconnect tasks, in order
  cooled,     \* the last task whose failure backoff has passed
  pc,         \* the operation's control point
  snap,       \* snap[o]: the generation its current attempt runs on
  attempts,   \* attempts[o]: reconnects it has asked for
  waits,      \* waits[o]: the task it waits for, or whose failure it sleeps off
  started,    \* started[o]: operations o has started
  result      \* result[o]: how the last one ended

coordVars == <<generation, coord, tasks, cooled>>
opVars == <<pc, snap, attempts, waits, started, result>>
vars == <<coordVars, opVars>>

Idle == [state |-> "idle"]
Connecting(g, a) == [state |-> "connecting", generation |-> g, task |-> a]
Failed(g, a) == [state |-> "failed", generation |-> g, task |-> a]

\* Every reconnect of every operation spawns at most one task.
MaxTasks == Cardinality(Ops) * MaxOps * MaxAttempts

\* The type invariant.
TypeOK ==
  /\ generation \in Nat
  /\ Len(tasks) <= MaxTasks
  /\ tasks \in Seq([generation : Nat, pc : {"connect", "finish", "send", "done"},
                    outcome : {"none", "ok", "err"}])
  /\ cooled \in 0 .. Len(tasks)
  /\ coord \in {Idle}
       \cup {Connecting(g, a) : g \in 0 .. generation, a \in 1 .. Len(tasks)}
       \cup {Failed(g, a) : g \in 0 .. generation, a \in 1 .. Len(tasks)}
  /\ pc \in [Ops -> {"idle", "snapshot", "run", "reconnect", "await", "sleep"}]
  /\ snap \in [Ops -> 0 .. generation]
  /\ attempts \in [Ops -> 0 .. MaxAttempts]
  /\ waits \in [Ops -> 0 .. Len(tasks)]
  /\ started \in [Ops -> 0 .. MaxOps]
  /\ result \in [Ops -> {"none", "ok", "err", "cancelled"}]

Init ==
  /\ generation = 0
  /\ coord = Idle
  /\ tasks = <<>>
  /\ cooled = 0
  /\ pc = [o \in Ops |-> "idle"]
  /\ snap = [o \in Ops |-> 0]
  /\ attempts = [o \in Ops |-> 0]
  /\ waits = [o \in Ops |-> 0]
  /\ started = [o \in Ops |-> 0]
  /\ result = [o \in Ops |-> "none"]

Goto(o, label) == pc' = [pc EXCEPT ![o] = label]
-----------------------------------------------------------------------------
(* retrying_session_operation *)

Start(o) ==
  /\ pc[o] = "idle"
  /\ started[o] < MaxOps
  /\ started' = [started EXCEPT ![o] = @ + 1]
  /\ result' = [result EXCEPT ![o] = "none"]
  /\ Goto(o, "snapshot")
  /\ UNCHANGED <<coordVars, snap, attempts, waits>>

\* current_session: the operation runs on what is current now.
Snapshot(o) ==
  /\ pc[o] = "snapshot"
  /\ snap' = [snap EXCEPT ![o] = generation]
  /\ waits' = [waits EXCEPT ![o] = 0]
  /\ Goto(o, "run")
  /\ UNCHANGED <<coordVars, attempts, started, result>>

End(o, r) ==
  /\ result' = [result EXCEPT ![o] = r]
  /\ snap' = [snap EXCEPT ![o] = 0]
  /\ attempts' = [attempts EXCEPT ![o] = 0]
  /\ waits' = [waits EXCEPT ![o] = 0]
  /\ Goto(o, "idle")
  /\ UNCHANGED started

\* The operation succeeds, or fails with an error no new session would cure.
Finish(o) ==
  /\ pc[o] = "run"
  /\ \E r \in {"ok", "err"} : End(o, r)
  /\ UNCHANGED coordVars

\* It fails with an error that requires_session_rebuild: should_reconnect.
LoseSession(o) ==
  /\ pc[o] = "run"
  /\ \/ /\ attempts[o] < MaxAttempts
        /\ attempts' = [attempts EXCEPT ![o] = @ + 1]
        /\ Goto(o, "reconnect")
        /\ UNCHANGED <<snap, waits, started, result>>
     \/ /\ attempts[o] = MaxAttempts
        /\ End(o, "err")
  /\ UNCHANGED coordVars

\* retry_reconnect_attempts: the failure of task a is slept off, or returned.
ReconnectFailed(o, a) ==
  \/ /\ attempts[o] < MaxAttempts
     /\ waits' = [waits EXCEPT ![o] = a]
     /\ Goto(o, "sleep")
     /\ UNCHANGED <<snap, attempts, started, result>>
  \/ /\ attempts[o] = MaxAttempts
     /\ End(o, "err")

\* The sleep is as long as the coordinator's backoff and began no earlier.
Wake(o) ==
  /\ pc[o] = "sleep"
  /\ waits[o] <= cooled
  /\ attempts' = [attempts EXCEPT ![o] = @ + 1]
  /\ Goto(o, "reconnect")
  /\ UNCHANGED <<coordVars, snap, waits, started, result>>
-----------------------------------------------------------------------------
(* reconnect *)

\* session_generation_needs_reconnect is false: somebody else reconnected.
SkipReconnect(o) ==
  /\ pc[o] = "reconnect"
  /\ generation # snap[o]
  /\ Goto(o, "snapshot")
  /\ UNCHANGED <<coordVars, snap, attempts, waits, started, result>>

\* An attempt for the same failed generation is under way.
Joinable(o) == coord.state = "connecting" /\ coord.generation = snap[o]

\* A failure is served from the coordinator until retry_after.
CachedFailure(o) ==
  /\ coord.state = "failed"
  /\ coord.generation = snap[o]
  /\ cooled < coord.task

JoinAttempt(o) ==
  /\ pc[o] = "reconnect"
  /\ generation = snap[o]
  /\ Joinable(o)
  /\ waits' = [waits EXCEPT ![o] = coord.task]
  /\ Goto(o, "await")
  /\ UNCHANGED <<coordVars, snap, attempts, started, result>>

ServeFailure(o) ==
  /\ pc[o] = "reconnect"
  /\ generation = snap[o]
  /\ CachedFailure(o)
  /\ ReconnectFailed(o, coord.task)
  /\ UNCHANGED coordVars

\* Spawn run_reconnect for the failed generation and wait for it.
SpawnAttempt(o) ==
  /\ pc[o] = "reconnect"
  /\ generation = snap[o]
  /\ ~Joinable(o)
  /\ ~CachedFailure(o)
  /\ tasks' = Append(tasks, [generation |-> snap[o], pc |-> "connect", outcome |-> "none"])
  /\ coord' = Connecting(snap[o], Len(tasks'))
  /\ waits' = [waits EXCEPT ![o] = Len(tasks')]
  /\ Goto(o, "await")
  /\ UNCHANGED <<generation, cooled, snap, attempts, started, result>>

\* await_reconnect_outcome: the watch channel holds the outcome.
AwaitOutcome(o) ==
  /\ pc[o] = "await"
  /\ tasks[waits[o]].pc = "done"
  /\ \/ /\ tasks[waits[o]].outcome = "ok"
        /\ Goto(o, "snapshot")
        /\ UNCHANGED <<snap, attempts, waits, started, result>>
     \/ /\ tasks[waits[o]].outcome = "err"
        /\ ReconnectFailed(o, waits[o])
  /\ UNCHANGED coordVars

\* The caller drops the future at one of its await points.
Cancel(o) ==
  /\ pc[o] \in {"run", "reconnect", "await", "sleep"}
  /\ End(o, "cancelled")
  /\ UNCHANGED coordVars
-----------------------------------------------------------------------------
(* run_reconnect *)

Advance(a, label, outcome) ==
  tasks' = [tasks EXCEPT ![a].pc = label, ![a].outcome = outcome]

KeepGeneration(a) ==
  /\ tasks[a].pc = "connect"
  /\ Advance(a, "finish", "ok")
  /\ UNCHANGED <<generation, coord, cooled, opVars>>

\* The session is replaced, unless the generation moved on meanwhile.
Publish(a) ==
  /\ tasks[a].pc = "connect"
  /\ generation' = IF generation = tasks[a].generation THEN generation + 1
                   ELSE generation
  /\ Advance(a, "finish", "ok")
  /\ UNCHANGED <<coord, cooled, opVars>>

\* Resolving or connecting fails, or connect_timeout ends it.
ConnectFails(a) ==
  /\ tasks[a].pc = "connect"
  /\ Advance(a, "finish", "err")
  /\ UNCHANGED <<generation, coord, cooled, opVars>>

FinishAny(a) ==
  /\ tasks[a].pc = "finish"
  /\ coord' = IF tasks[a].outcome = "ok" THEN Idle ELSE Failed(tasks[a].generation, a)
  /\ Advance(a, "send", tasks[a].outcome)
  /\ UNCHANGED <<generation, cooled, opVars>>

\* finish_reconnect_attempt, under the lock: a newer attempt is left alone.
FinishAttempt(a) ==
  /\ tasks[a].pc = "finish"
  /\ coord' =
       IF coord.state = "connecting" /\ coord.generation = tasks[a].generation
       THEN IF tasks[a].outcome = "ok" THEN Idle ELSE Failed(tasks[a].generation, a)
       ELSE coord
  /\ Advance(a, "send", tasks[a].outcome)
  /\ UNCHANGED <<generation, cooled, opVars>>

SendIfOk(a) ==
  /\ tasks[a].pc = "send"
  /\ tasks[a].outcome = "ok"
  /\ Advance(a, "done", tasks[a].outcome)
  /\ UNCHANGED <<generation, coord, cooled, opVars>>

\* outcome_sender.send wakes every waiter.
SendOutcome(a) ==
  /\ tasks[a].pc = "send"
  /\ Advance(a, "done", tasks[a].outcome)
  /\ UNCHANGED <<generation, coord, cooled, opVars>>

\* Time passes: the backoff of the failure in the coordinator is over, and
\* that of every earlier one.
BackoffPasses ==
  /\ coord.state = "failed"
  /\ cooled < coord.task
  /\ cooled' = coord.task
  /\ UNCHANGED <<generation, coord, tasks, opVars>>
-----------------------------------------------------------------------------
OpStep(o) ==
  \/ Snapshot(o) \/ Finish(o) \/ LoseSession(o) \/ Wake(o)
  \/ SkipReconnect(o) \/ JoinAttempt(o) \/ ServeFailure(o) \/ SpawnAttempt(o)
  \/ AwaitOutcome(o)

TaskStep(a) ==
  Publish(a) \/ ConnectFails(a) \/ FinishAttempt(a) \/ SendOutcome(a)

Quiescent ==
  /\ \A o \in Ops : pc[o] = "idle" /\ started[o] = MaxOps
  /\ UNCHANGED vars

Next ==
  \/ \E o \in Ops : Start(o) \/ OpStep(o) \/ Cancel(o)
  \/ \E a \in DOMAIN tasks : TaskStep(a)
  \/ BackoffPasses
  \/ Quiescent

Spec == Init /\ [][Next]_vars
-----------------------------------------------------------------------------
(***************************************************************************)
(* docs/architecture.md:33: "one detached reconnect attempt at a time      *)
(* serves all of them": no two attempts ever connect at once, and the      *)
(* session is never replaced under a generation that has not failed.       *)
(***************************************************************************)
OneAttempt ==
  \A a, b \in DOMAIN tasks :
    tasks[a].pc = "connect" =>
      /\ tasks[a].generation = generation
      /\ tasks[b].pc = "connect" => a = b

(***************************************************************************)
(* The coordinator never forgets a running attempt: a late completion of   *)
(* an old one does not overwrite it, so that latecomers join it.           *)
(***************************************************************************)
AttemptIsShared ==
  \A a \in DOMAIN tasks :
    tasks[a].pc = "connect" => coord = Connecting(tasks[a].generation, a)

(***************************************************************************)
(* When reconnect succeeds, the operation is retried on a newer session    *)
(* than the one that failed it.                                            *)
(***************************************************************************)
RetriesOnNewerSession ==
  [][\A o \in Ops :
       pc[o] = "snapshot" /\ pc'[o] = "run" /\ attempts[o] > 0
         => snap'[o] > snap[o]]_vars

(***************************************************************************)
(* An operation does not spend two of its attempts on the same failure:    *)
(* when its sleep is over, the failure it saw is no longer served.         *)
(***************************************************************************)
FailureSeenOnce ==
  \A o \in Ops :
    pc[o] = "reconnect" /\ coord.state = "failed" /\ coord.task = waits[o]
      => ~CachedFailure(o)

(***************************************************************************)
(* What reconnect and finish_reconnect_attempt of client.rs keep: one      *)
(* attempt at a time, which everybody who needs one can join, and no       *)
(* failure served twice.                                                   *)
(***************************************************************************)
Coordinated == OneAttempt /\ AttemptIsShared /\ FailureSeenOnce

(***************************************************************************)
(* Every operation ends, whatever fails and whoever cancels: the shared    *)
(* attempt outlives the caller that spawned it, and its outcome reaches    *)
(* every waiter.                                                           *)
(***************************************************************************)
OpEnds == \A o \in Ops : pc[o] # "idle" ~> pc[o] = "idle"
=============================================================================
