----------------------------- MODULE SlotTable -----------------------------
(***************************************************************************)
(* The NFSv4.1 session slot table of src/src/nfs4/slots.rs: a vector of    *)
(* mutex-protected slots, a semaphore with one permit per live slot, the   *)
(* server's dynamic slot limits and one Notify that wakes every waiter.    *)
(*                                                                         *)
(* A task runs one acquire_for_request at a time, and its control point is *)
(* pc[t].  Each action is one access to shared state: tasks run on several *)
(* threads, so any two of them interleave.  Session.tla adds what a task   *)
(* does with the slot it got (compound_raw_once) and the server.           *)
(***************************************************************************)
EXTENDS Integers, FiniteSets

CONSTANTS
  Tasks,      \* the client's concurrent callers
  NoTask,     \* "the mutex is free"
  SlotCount,  \* SlotTable::new's slot_count
  SeqMod      \* sequence ids wrap at SeqMod (2^32 in the code)

ASSUME TasksAssumption == NoTask \notin Tasks
ASSUME SlotCountAssumption == SlotCount \in Nat \ {0}
ASSUME SeqModAssumption == SeqMod \in Nat \ {0, 1}

VARIABLES
  lock,        \* lock[s]: the task whose guard holds slot s's mutex
  usable,      \* SlotState.usable
  seqid,       \* SlotState.sequenceid
  active,      \* active[s]: set by acquire, cleared by SlotRelease::drop
  permits,     \* free permits of the semaphore "available"
  closed,      \* available.close() was called
  live,        \* live_slots
  limits,      \* slot_limits: the enforced and the target highest slot id
  waiting,     \* tasks with an enabled Notified that was not notified yet
  pc,          \* the task's control point
  at,          \* the slot the task scans or holds
  upto,        \* the end of the task's scan: the target it read
  sawLocked,   \* eligible_slot_locked
  seen,        \* the limits request_highest_slotid read
  high,        \* the highest_slotid it returned
  outstanding, \* SlotGuard.request_outstanding
  retire,      \* SlotRelease.retire_permit
  then         \* where the task goes once its guard is dropped

slotVars == <<lock, usable, seqid, active>>
semVars == <<permits, closed, live>>
scanVars == <<at, upto, sawLocked>>
sendVars == <<seen, high, outstanding, retire>>
tableVars == <<slotVars, semVars, limits, waiting, pc, scanVars, sendVars, then>>

Slots == 0 .. SlotCount - 1
Limits == [enforced : Slots, target : Slots]
NoLimits == [enforced |-> 0, target |-> 0]

\* Control points at which the task holds a SlotGuard with its mutex locked.
Holding == {"limits", "active", "settle", "check", "arm", "armed", "drop", "unlock"}
PCs == Holding \cup {"idle", "permit", "scan", "peek", "wait", "release"}

\* u32::wrapping_add(1)
Succ(n) == (n + 1) % SeqMod

AtMost(a, b) == IF a <= b THEN a ELSE b
AtLeast(a, b) == IF a >= b THEN a ELSE b

TableTypeOK ==
  /\ lock \in [Slots -> Tasks \cup {NoTask}]
  /\ usable \in [Slots -> BOOLEAN]
  /\ seqid \in [Slots -> 0 .. SeqMod - 1]
  /\ active \in [Slots -> BOOLEAN]
  /\ permits \in Int
  /\ closed \in BOOLEAN
  /\ live \in Int
  /\ limits \in Limits
  /\ waiting \in SUBSET Tasks
  /\ pc \in [Tasks -> PCs]
  /\ at \in [Tasks -> 0 .. SlotCount]
  /\ upto \in [Tasks -> Slots]
  /\ sawLocked \in [Tasks -> BOOLEAN]
  /\ seen \in [Tasks -> Limits]
  /\ high \in [Tasks -> Slots]
  /\ outstanding \in [Tasks -> BOOLEAN]
  /\ retire \in [Tasks -> BOOLEAN]
  /\ then \in [Tasks -> {"idle", "permit"}]

TableInit ==
  /\ lock = [s \in Slots |-> NoTask]
  /\ usable = [s \in Slots |-> TRUE]
  /\ seqid = [s \in Slots |-> 1]
  /\ active = [s \in Slots |-> FALSE]
  /\ permits = SlotCount
  /\ closed = FALSE
  /\ live = SlotCount
  /\ limits = [enforced |-> SlotCount - 1, target |-> SlotCount - 1]
  /\ waiting = {}
  /\ pc = [t \in Tasks |-> "idle"]
  /\ at = [t \in Tasks |-> 0]
  /\ upto = [t \in Tasks |-> 0]
  /\ sawLocked = [t \in Tasks |-> FALSE]
  /\ seen = [t \in Tasks |-> NoLimits]
  /\ high = [t \in Tasks |-> 0]
  /\ outstanding = [t \in Tasks |-> FALSE]
  /\ retire = [t \in Tasks |-> FALSE]
  /\ then = [t \in Tasks |-> "idle"]

Goto(t, label) == pc' = [pc EXCEPT ![t] = label]

NotifyNobody == UNCHANGED waiting

\* state_changed.notify_waiters()
NotifyWaiters == waiting' = {}
-----------------------------------------------------------------------------
(* acquire *)

\* A permit was granted: the Notified is enabled, then the target is read.
TakePermit(t) ==
  /\ pc[t] = "permit"
  /\ ~closed
  /\ permits > 0
  /\ permits' = permits - 1
  /\ waiting' = waiting \cup {t}
  /\ at' = [at EXCEPT ![t] = 0]
  /\ upto' = [upto EXCEPT ![t] = limits.target]
  /\ sawLocked' = [sawLocked EXCEPT ![t] = FALSE]
  /\ Goto(t, "scan")
  /\ UNCHANGED <<slotVars, closed, live, limits, sendVars, then>>

\* The semaphore is closed: acquire fails with all_slots_unusable_error.
PermitRefused(t) ==
  /\ pc[t] = "permit"
  /\ closed
  /\ Goto(t, "idle")
  /\ UNCHANGED <<slotVars, semVars, limits, waiting, scanVars, sendVars, then>>

\* The loop's locals go out of scope.
EndScan(t) ==
  /\ upto' = [upto EXCEPT ![t] = 0]
  /\ sawLocked' = [sawLocked EXCEPT ![t] = FALSE]

\* try_lock succeeds on a usable slot: the guard is returned.
ScanTake(t) ==
  /\ pc[t] = "scan"
  /\ at[t] <= upto[t]
  /\ lock[at[t]] = NoTask
  /\ usable[at[t]]
  /\ lock' = [lock EXCEPT ![at[t]] = t]
  /\ active' = [active EXCEPT ![at[t]] = TRUE]
  /\ waiting' = waiting \ {t}
  /\ EndScan(t)
  /\ Goto(t, "limits")
  /\ UNCHANGED <<usable, seqid, semVars, limits, at, sendVars, then>>

\* try_lock succeeds on a retired slot, which stays locked until the match
\* arm ends.
ScanPeek(t) ==
  /\ pc[t] = "scan"
  /\ at[t] <= upto[t]
  /\ lock[at[t]] = NoTask
  /\ ~usable[at[t]]
  /\ lock' = [lock EXCEPT ![at[t]] = t]
  /\ Goto(t, "peek")
  /\ UNCHANGED <<usable, seqid, active, semVars, limits, waiting, scanVars,
                 sendVars, then>>

PeekEnd(t) ==
  /\ pc[t] = "peek"
  /\ lock' = [lock EXCEPT ![at[t]] = NoTask]
  /\ at' = [at EXCEPT ![t] = @ + 1]
  /\ Goto(t, "scan")
  /\ UNCHANGED <<usable, seqid, active, semVars, limits, waiting, upto,
                 sawLocked, sendVars, then>>

\* try_lock fails: somebody holds the slot.
ScanLocked(t) ==
  /\ pc[t] = "scan"
  /\ at[t] <= upto[t]
  /\ lock[at[t]] # NoTask
  /\ at' = [at EXCEPT ![t] = @ + 1]
  /\ sawLocked' = [sawLocked EXCEPT ![t] = TRUE]
  /\ UNCHANGED <<slotVars, semVars, limits, waiting, pc, upto, sendVars, then>>

\* No slot was free: the permit goes back, and the task waits for a change if
\* it saw a locked slot and fails otherwise.
ScanEnd(t) ==
  /\ pc[t] = "scan"
  /\ at[t] > upto[t]
  /\ permits' = permits + 1
  /\ waiting' = IF sawLocked[t] THEN waiting ELSE waiting \ {t}
  /\ at' = [at EXCEPT ![t] = 0]
  /\ EndScan(t)
  /\ Goto(t, IF sawLocked[t] THEN "wait" ELSE "idle")
  /\ UNCHANGED <<slotVars, closed, live, limits, sendVars, then>>

Wake(t) ==
  /\ pc[t] = "wait"
  /\ t \notin waiting
  /\ Goto(t, "permit")
  /\ UNCHANGED <<slotVars, semVars, limits, waiting, scanVars, sendVars, then>>
-----------------------------------------------------------------------------
(* request_highest_slotid and the loop of acquire_for_request *)

\* h is active_highest_slotid: the last active slot, or 0
ActiveHighest(h) ==
  /\ \A s \in Slots : s > h => ~active[s]
  /\ active[h] \/ h = 0

\* Enable a Notified and load both limits at once: a slot that is now above
\* one of them is dropped and acquire_for_request starts over.
ReadLimits(t) ==
  /\ pc[t] = "limits"
  /\ IF at[t] > limits.target \/ at[t] > limits.enforced
     THEN /\ Goto(t, "drop")
          /\ then' = [then EXCEPT ![t] = "permit"]
          /\ UNCHANGED <<waiting, seen>>
     ELSE /\ Goto(t, "active")
          /\ waiting' = waiting \cup {t}
          /\ seen' = [seen EXCEPT ![t] = limits]
          /\ UNCHANGED then
  /\ UNCHANGED <<slotVars, semVars, limits, scanVars, high, outstanding, retire>>

\* Scan the active flags, later than the limits were read.
ReadActive(t) ==
  /\ pc[t] = "active"
  /\ \E h \in Slots :
       /\ ActiveHighest(h)
       /\ IF h <= seen[t].enforced
          THEN /\ high' = [high EXCEPT ![t] = AtLeast(h, seen[t].target)]
               /\ waiting' = waiting \ {t}
               /\ Goto(t, "check")
          ELSE /\ Goto(t, "settle")
               /\ UNCHANGED <<waiting, high>>
  /\ seen' = [seen EXCEPT ![t] = NoLimits]
  /\ UNCHANGED <<slotVars, semVars, limits, scanVars, outstanding, retire, then>>

\* changed.await returns: a slot was released or the limits changed.
Settle(t) ==
  /\ pc[t] = "settle"
  /\ t \notin waiting
  /\ Goto(t, "limits")
  /\ UNCHANGED <<slotVars, semVars, limits, waiting, scanVars, sendVars, then>>
-----------------------------------------------------------------------------
(* Dropping a SlotGuard: SlotGuard::drop, then the mutex guard, then        *)
(* SlotRelease::drop, in the order of the struct's fields.                  *)

NeverUnusable(t) == UNCHANGED <<usable, retire, live, closed>>

\* The slot and its permit are retired; the last live slot closes the semaphore.
MarkUnusable(t) ==
  IF usable[at[t]]
  THEN /\ usable' = [usable EXCEPT ![at[t]] = FALSE]
       /\ retire' = [retire EXCEPT ![t] = TRUE]
       /\ live' = live - 1
       /\ closed' = (closed \/ live = 1)
  ELSE UNCHANGED <<usable, retire, live, closed>>

\* SlotGuard::drop: an outstanding request retires the slot.
DropGuard(t) ==
  /\ pc[t] = "drop"
  /\ IF outstanding[t]
     THEN MarkUnusable(t)
     ELSE UNCHANGED <<usable, retire, live, closed>>
  /\ outstanding' = [outstanding EXCEPT ![t] = FALSE]
  /\ Goto(t, "unlock")
  /\ UNCHANGED <<lock, seqid, active, permits, limits, waiting, scanVars, seen,
                 high, then>>

DropMutexGuard(t) ==
  /\ pc[t] = "unlock"
  /\ lock' = [lock EXCEPT ![at[t]] = NoTask]
  /\ Goto(t, "release")
  /\ UNCHANGED <<usable, seqid, active, semVars, limits, waiting, scanVars,
                 sendVars, then>>

AlwaysReturned(t) == permits + 1

\* The permit is forgotten if mark_unusable retired it, else given back.
PermitsAfter(t) == IF retire[t] THEN permits ELSE permits + 1

\* SlotRelease::drop: the flag is cleared, then every waiter is notified.
DropRelease(t) ==
  /\ pc[t] = "release"
  /\ active' = [active EXCEPT ![at[t]] = FALSE]
  /\ NotifyWaiters
  /\ permits' = PermitsAfter(t)
  /\ retire' = [retire EXCEPT ![t] = FALSE]
  /\ high' = [high EXCEPT ![t] = 0]
  /\ at' = [at EXCEPT ![t] = 0]
  /\ Goto(t, then[t])
  /\ UNCHANGED <<lock, usable, seqid, closed, live, limits, upto, sawLocked, seen,
                 outstanding, then>>
=============================================================================
