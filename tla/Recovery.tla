------------------------------ MODULE Recovery ------------------------------
(***************************************************************************)
(* Reconnect and ClientOwner together: the client is built                 *)
(* (NfsClientBuilder::connect), operations run on its sessions, replies    *)
(* report what the server thinks of them, a session that is refused or     *)
(* lost is replaced by a reconnect attempt, and the attempt tries the      *)
(* resolved addresses in turn (connect_session of src/src/client.rs).      *)
(***************************************************************************)
EXTENDS Reconnect, ClientOwner, Functions

CONSTANTS
  Addresses,   \* how many addresses the endpoint resolves to
  MaxRestarts, \* bound: restarts of the server
  MaxFaults    \* bound: failed calls, timeouts and odd flags

ASSUME AddressesAssumption == Addresses \in Nat \ {0}

VARIABLES
  home,     \* home[s]: the attempt that set session s up; 0 is the builder
  left,     \* left[a]: addresses that attempt a has not tried
  at,       \* at[g + 1]: the session of generation g
  request,  \* request[o]: "none", "sent", or "rotate" while its reply is handled
  restarts, faults

linkVars == <<home, left, at, request>>
recVars == <<vars, ownerVars, linkVars, restarts, faults>>

Attempts == 0 .. MaxTasks

RecTypeOK ==
  /\ TypeOK
  /\ OwnerTypeOK
  /\ Len(home) = Len(sessions) /\ Range(home) \subseteq Attempts
  /\ left \in [Attempts -> 0 .. Addresses]
  /\ Len(at) \in {0, generation + 1}
  /\ Range(at) \subseteq DOMAIN sessions
  /\ \A o \in Ops : request[o] # "none" => pc[o] = "run"

RecInit ==
  /\ Init
  /\ OwnerInit
  /\ home = <<>>
  /\ left = [a \in Attempts |-> Addresses]
  /\ at = <<>>
  /\ request = [o \in Ops |-> "none"]
  /\ restarts = 0
  /\ faults = 0

Fault == faults < MaxFaults /\ faults' = faults + 1
NoFault == UNCHANGED faults

\* Flags that nothing in the server's modelled state calls for are a fault.
OddFlags(odd) == IF odd = {} THEN NoFault ELSE Fault
OddSets == {{}} \cup {{flag} : flag \in Odd}
-----------------------------------------------------------------------------
(* connect_session, for the builder and for run_reconnect *)

IsConnecting(a) ==
  IF a = 0 THEN at = <<>> ELSE a \in DOMAIN tasks /\ tasks[a].pc = "connect"
Tries(a) == {s \in DOMAIN sessions : home[s] = a}
Busy(a) == \E s \in Tries(a) : SettingUp(s) \/ sessions[s].phase = "live"

TryAddress(a) ==
  /\ IsConnecting(a)
  /\ ~Busy(a)
  /\ left[a] > 0
  /\ Connect
  /\ home' = Append(home, a)
  /\ left' = [left EXCEPT ![a] = @ - 1]
  /\ UNCHANGED <<vars, at, request, restarts, faults>>

\* A step of the setup under way; a rotation is finished before it goes on.
SetupStep(a) ==
  /\ IsConnecting(a)
  /\ \E s \in Tries(a) :
       /\ SettingUp(s)
       /\ \/ (ExchangeId(s) \/ CreateSession(s) \/ Rotate(s)) /\ NoFault
          \/ \E odd \in OddSets :
               (ReclaimComplete(s, odd) \/ ResolveExportRoot(s, odd)) /\ OddFlags(odd)
  /\ UNCHANGED <<vars, linkVars, restarts>>

\* The last reply of the setup reported the loss: the session is live already.
SetupRotates(a) ==
  /\ IsConnecting(a)
  /\ \E s \in Tries(a) : sessions[s].phase = "live" /\ Rotate(s)
  /\ UNCHANGED <<vars, linkVars, restarts, faults>>

SetupIsCut(a) ==
  /\ IsConnecting(a)
  /\ \E s \in Tries(a) : SetupFails(s)
  /\ Fault
  /\ UNCHANGED <<vars, linkVars, restarts>>

\* Connected: the client is built, or run_reconnect goes on.
Connected(a) ==
  /\ IsConnecting(a)
  /\ \E s \in Tries(a) :
       /\ sessions[s].phase = "live" /\ ~sessions[s].rotating
       /\ \/ a = 0 /\ at' = <<s>> /\ UNCHANGED vars
          \/ /\ a # 0 /\ Publish(a)
             /\ at' = IF generation' = generation THEN at ELSE Append(at, s)
  /\ UNCHANGED <<ownerVars, home, left, request, restarts, faults>>

\* Every address has failed, or connect_timeout ends the attempt before that.
AttemptFails(a) ==
  /\ a # 0 /\ IsConnecting(a)
  /\ ConnectFails(a)
  /\ \/ left[a] = 0 /\ ~Busy(a) /\ UNCHANGED <<ownerVars, faults>>
     \/ /\ Fault
        /\ \/ ~Busy(a) /\ UNCHANGED ownerVars
           \/ \E s \in Tries(a) : SetupFails(s)
  /\ UNCHANGED <<linkVars, restarts>>

ConnectStep(a) == TryAddress(a) \/ SetupStep(a) \/ SetupRotates(a) \/ Connected(a)
ConnectCut(a) == SetupIsCut(a) \/ AttemptFails(a)
-----------------------------------------------------------------------------
(* An operation's compound *)

SessionOf(o) == at[snap[o] + 1]
Requests(o, st) == request' = [request EXCEPT ![o] = st]

\* compound_raw_once: refused, with the error that the latched flags mean.
Refused(o) ==
  /\ pc[o] = "run" /\ request[o] = "none"
  /\ \/ Usable(SessionOf(o)) = "connection_lost" /\ LoseSession(o)
     \/ Usable(SessionOf(o)) \in {"protocol", "unsupported"} /\ End(o, "err") /\ UNCHANGED coordVars
  /\ UNCHANGED <<ownerVars, linkVars, restarts, faults>>

Send(o) ==
  /\ pc[o] = "run" /\ request[o] = "none"
  /\ Usable(SessionOf(o)) = "ok"
  /\ Requests(o, "sent")
  /\ UNCHANGED <<vars, ownerVars, home, left, at, restarts, faults>>

\* The reply is good for its operation whatever its flags say of the session.
Reply(o) ==
  /\ request[o] = "sent"
  /\ \E odd \in OddSets : LateReply(SessionOf(o), odd) /\ OddFlags(odd)
  /\ IF sessions'[SessionOf(o)].rotating /\ ~sessions[SessionOf(o)].rotating
     THEN Requests(o, "rotate") /\ UNCHANGED vars
     ELSE Requests(o, "none") /\ End(o, "ok") /\ UNCHANGED coordVars
  /\ UNCHANGED <<home, left, at, restarts>>

ReplyStores(o) ==
  /\ request[o] = "rotate"
  /\ verifier' = verifier + 1
  /\ sessions' = [sessions EXCEPT ![SessionOf(o)].rotating = FALSE]
  /\ Requests(o, "none")
  /\ End(o, "ok")
  /\ UNCHANGED <<coordVars, lost, reclaimed, home, left, at, restarts, faults>>

ReplyRotates(o) ==
  /\ request[o] = "rotate"
  /\ Rotate(SessionOf(o))
  /\ Requests(o, "none")
  /\ End(o, "ok")
  /\ UNCHANGED <<coordVars, home, left, at, restarts, faults>>

\* The transport or the session is gone, or the request times out.
RequestLost(o) ==
  /\ request[o] = "sent"
  /\ Fault
  /\ LoseSession(o)
  /\ Requests(o, "none")
  /\ UNCHANGED <<ownerVars, home, left, at, restarts>>

Cancelled(o) ==
  /\ request[o] # "rotate"
  /\ Cancel(o)
  /\ Requests(o, "none")
  /\ UNCHANGED <<ownerVars, home, left, at, restarts, faults>>

\* What Reconnect says of the rest of an operation and of an attempt.
Coordination(o) ==
  /\ \/ Snapshot(o) \/ Wake(o) \/ SkipReconnect(o) \/ JoinAttempt(o)
     \/ ServeFailure(o) \/ SpawnAttempt(o) \/ AwaitOutcome(o)
  /\ UNCHANGED <<ownerVars, linkVars, restarts, faults>>

BeginOp(o) ==
  /\ at # <<>>
  /\ Start(o)
  /\ UNCHANGED <<ownerVars, linkVars, restarts, faults>>

Completion(a) ==
  /\ FinishAttempt(a) \/ SendOutcome(a)
  /\ UNCHANGED <<ownerVars, linkVars, restarts, faults>>

RecOpStep(o) ==
  \/ Refused(o) \/ Send(o) \/ Reply(o) \/ ReplyRotates(o) \/ RequestLost(o) \/ Coordination(o)
-----------------------------------------------------------------------------
TimePasses == BackoffPasses /\ UNCHANGED <<ownerVars, linkVars, restarts, faults>>
ServerLoses == LoseState /\ UNCHANGED <<vars, linkVars, restarts, faults>>
ServerRestarts ==
  /\ restarts < MaxRestarts
  /\ restarts' = restarts + 1
  /\ Restart
  /\ UNCHANGED <<vars, linkVars, faults>>

\* Every operation is over, or the client could not be built.
Over ==
  /\ \/ \A o \in Ops : pc[o] = "idle" /\ started[o] = MaxOps
     \/ at = <<>> /\ left[0] = 0 /\ ~Busy(0)
  /\ UNCHANGED recVars

RecNext ==
  \/ \E o \in Ops : BeginOp(o) \/ RecOpStep(o) \/ Cancelled(o)
  \/ \E a \in Attempts : ConnectStep(a) \/ ConnectCut(a)
  \/ \E a \in DOMAIN tasks : Completion(a)
  \/ TimePasses \/ ServerLoses \/ ServerRestarts \/ Over

RecSpec == RecInit /\ [][RecNext]_recVars

(***************************************************************************)
(* Operations end (operation_timeout), spawned tasks run on when their     *)
(* callers are gone, their calls end (connect_timeout), and time passes.   *)
(***************************************************************************)
RecFairSpec ==
  /\ RecSpec
  /\ \A o \in Ops : WF_recVars(RecOpStep(o))
  /\ \A a \in Attempts : WF_recVars(IsConnecting(a) /\ (ConnectStep(a) \/ AttemptFails(a)))
  /\ \A a \in 1 .. MaxTasks : WF_recVars(a \in DOMAIN tasks /\ Completion(a))
  /\ WF_recVars(TimePasses)
-----------------------------------------------------------------------------
(***************************************************************************)
(* The parts keep their promises when put together: whatever the composed  *)
(* system does is something Reconnect and ClientOwner may do, so that what *)
(* is proved of them holds of it.                                          *)
(***************************************************************************)
KeepsParts == Spec /\ OwnerSpec

(***************************************************************************)
(* An operation fails only if more went wrong than its attempts can make   *)
(* up for. A restart or a failed call costs it one turn at most. A lost    *)
(* state costs it two: its request is refused, and the next session may be *)
(* begun under the old verifier before the reply that reported the loss,   *)
(* to another operation or to an old session, has rotated it. The          *)
(* exception are flags that no new session would cure (LEASE_MOVED,        *)
(* unknown bits): the session stays unusable and is not replaced.          *)
(***************************************************************************)
RetryErrorIsDeserved ==
  \A o \in Ops :
    result[o] = "err" =>
      \/ 2 * Cardinality(lost) + restarts + faults > MaxAttempts
      \/ \E s \in DOMAIN sessions : sessions[s].latched \cap {"moved", "unknown"} # {}
=============================================================================
