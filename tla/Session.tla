------------------------------ MODULE Session ------------------------------
(***************************************************************************)
(* NfsSession::compound_raw_once (src/src/nfs4/session.rs) on top of the   *)
(* slot table: status check, slot acquisition, SEQUENCE, the RPC and what  *)
(* its outcome does to the slot.  The server's slot cache and the network  *)
(* are external: a request may be lost, executed late, rejected or         *)
(* answered after its caller is gone.                                      *)
(***************************************************************************)
EXTENDS SlotTable

CONSTANTS
  MaxCalls,     \* bound: compounds each task issues
  ServerReplies \* what a SEQUENCE result may say: <<highest slot id, target
                \* highest slot id, a fatal status flag is set>>

ASSUME MaxCallsAssumption == MaxCalls \in Nat
ASSUME ServerRepliesAssumption == ServerReplies \subseteq Nat \X Nat \X BOOLEAN

VARIABLES
  fatal,     \* fatal_sequence_flags hold a flag that stops the session
  calls,     \* calls[t]: compounds t has started
  result,    \* result[t]: how t's last compound ended
  requests,  \* requests on their way to the server
  reply,     \* reply[t]: what the reader task delivered to t's pending call
  srvSeq,    \* srvSeq[s]: sequence id the server executed last on slot s
  ran        \* ran[t]: the server executed t's current compound

callVars == <<fatal, calls, result>>
netVars == <<requests, reply, srvSeq, ran>>
vars == <<tableVars, callVars, netVars>>

Request == [task : Tasks \cup {NoTask}, slot : Slots, seq : 0 .. SeqMod - 1]
NoReply == [kind |-> "none"]
BadReply == [kind |-> "bad"]
OkReply == [kind : {"ok"}, body : ServerReplies]
Results == {"none", "ok", "not_sent", "unknown", "cancelled"}

\* The type invariant.
TypeOK ==
  /\ TableTypeOK
  /\ fatal \in BOOLEAN
  /\ calls \in [Tasks -> 0 .. MaxCalls]
  /\ result \in [Tasks -> Results]
  /\ requests \in SUBSET Request
  /\ reply \in [Tasks -> {NoReply, BadReply} \cup OkReply]
  /\ srvSeq \in [Slots -> 0 .. SeqMod - 1]
  /\ ran \in [Tasks -> BOOLEAN]

Init ==
  /\ TableInit
  /\ fatal = FALSE
  /\ calls = [t \in Tasks |-> 0]
  /\ result = [t \in Tasks |-> "none"]
  /\ requests = {}
  /\ reply = [t \in Tasks |-> NoReply]
  /\ srvSeq = [s \in Slots |-> 0]
  /\ ran = [t \in Tasks |-> FALSE]

Return(t, r) == result' = [result EXCEPT ![t] = r]
-----------------------------------------------------------------------------
(* The caller *)

\* compound_raw_once begins: ensure_sequence_status_usable, then acquire.
Start(t) ==
  /\ pc[t] = "idle"
  /\ calls[t] < MaxCalls
  /\ calls' = [calls EXCEPT ![t] = @ + 1]
  /\ ran' = [ran EXCEPT ![t] = FALSE]
  /\ then' = [then EXCEPT ![t] = "idle"]
  /\ IF fatal
     THEN Return(t, "not_sent") /\ UNCHANGED pc
     ELSE Return(t, "none") /\ Goto(t, "permit")
  /\ UNCHANGED <<slotVars, semVars, limits, waiting, scanVars, sendVars, fatal,
                 requests, reply, srvSeq>>

\* The steps of acquire_for_request.  When acquire fails the error is wrapped
\* as request_not_sent.
AcquireSlot(t) ==
  /\ \/ TakePermit(t) \/ PermitRefused(t)
     \/ ScanTake(t) \/ ScanPeek(t) \/ PeekEnd(t) \/ ScanLocked(t) \/ ScanEnd(t)
     \/ Wake(t)
     \/ ReadLimits(t) \/ ReadActive(t) \/ Settle(t)
  /\ result' = IF pc'[t] = "idle" THEN [result EXCEPT ![t] = "not_sent"]
               ELSE result
  /\ UNCHANGED <<fatal, calls, netVars>>

\* The second status check, with the slot in hand.
CheckStatus(t) ==
  /\ pc[t] = "check"
  /\ IF fatal
     THEN Return(t, "not_sent") /\ Goto(t, "drop")
     ELSE Goto(t, "arm") /\ UNCHANGED result
  /\ then' = [then EXCEPT ![t] = "idle"]
  /\ UNCHANGED <<slotVars, semVars, limits, waiting, scanVars, sendVars, fatal,
                 calls, netVars>>

\* mark_request_outstanding, and the RPC layer queues the request.
Dispatch(t) ==
  /\ pc[t] = "arm"
  /\ outstanding' = [outstanding EXCEPT ![t] = TRUE]
  /\ requests' = requests \cup {[task |-> t, slot |-> at[t], seq |-> seqid[at[t]]]}
  /\ Goto(t, "armed")
  /\ UNCHANGED <<slotVars, semVars, limits, waiting, scanVars, seen, high, retire,
                 then, callVars, reply, srvSeq, ran>>

\* The RPC layer reports request_not_sent: the guard is disarmed again.
NotSent(t) ==
  /\ pc[t] = "arm"
  /\ Return(t, "not_sent")
  /\ Goto(t, "drop")
  /\ UNCHANGED <<slotVars, semVars, limits, waiting, scanVars, sendVars, then,
                 fatal, calls, netVars>>

\* The call no longer owns its xid: a late reply to it is dropped.
Abandon(t) ==
  /\ requests' = {IF r.task = t THEN [r EXCEPT !.task = NoTask] ELSE r : r \in requests}
  /\ reply' = [reply EXCEPT ![t] = NoReply]

FailAsNotSent(t) ==
  /\ Abandon(t)
  /\ Return(t, "not_sent")
  /\ Goto(t, "drop")

\* An error return with the guard still armed.
FailArmed(t) ==
  /\ Abandon(t)
  /\ Return(t, "unknown")
  /\ Goto(t, "drop")

\* The RPC fails after dispatch: timeout or connection loss.
RpcLost(t) ==
  /\ pc[t] = "armed"
  /\ FailArmed(t)
  /\ UNCHANGED <<slotVars, semVars, limits, waiting, scanVars, sendVars, then,
                 fatal, calls, srvSeq, ran>>

\* decode_sequence_result refuses the reply: SEQUENCE failed or does not match.
ReceiveBad(t) ==
  /\ pc[t] = "armed"
  /\ reply[t] = BadReply
  /\ FailArmed(t)
  /\ UNCHANGED <<slotVars, semVars, limits, waiting, scanVars, sendVars, then,
                 fatal, calls, srvSeq, ran>>

UpdateUnclamped(highest, target) ==
  /\ limits' = [enforced |-> highest, target |-> target]
  /\ NotifyWaiters

\* SlotTable::update_limits clamps what the server says and wakes everybody.
UpdateLimits(highest, target) ==
  LET enforced == AtMost(highest, SlotCount - 1)
  IN  /\ limits' = [enforced |-> enforced, target |-> AtMost(target, enforced)]
      /\ NotifyWaiters

\* A matching SEQUENCE result: new limits, advance_sequence, disarm_request,
\* and latch_fatal_sequence_flags.
ReceiveOk(t) ==
  /\ pc[t] = "armed"
  /\ reply[t].kind = "ok"
  /\ UpdateLimits(reply[t].body[1], reply[t].body[2])
  /\ seqid' = [seqid EXCEPT ![at[t]] = Succ(@)]
  /\ outstanding' = [outstanding EXCEPT ![t] = FALSE]
  /\ fatal' = (fatal \/ reply[t].body[3])
  /\ reply' = [reply EXCEPT ![t] = NoReply]
  /\ Return(t, "ok")
  /\ Goto(t, "drop")
  /\ UNCHANGED <<lock, usable, active, semVars, scanVars, seen, high, retire,
                 then, calls, requests, srvSeq, ran>>

ReleaseSlot(t) ==
  /\ DropGuard(t) \/ DropMutexGuard(t) \/ DropRelease(t)
  /\ UNCHANGED <<callVars, netVars>>

\* The caller drops the future at one of its await points.
Cancel(t) ==
  /\ Return(t, "cancelled")
  /\ waiting' = waiting \ {t}
  /\ then' = [then EXCEPT ![t] = "idle"]
  /\ \/ /\ pc[t] \in {"permit", "wait"}
        /\ Goto(t, "idle")
        /\ UNCHANGED <<requests, reply>>
     \/ /\ pc[t] \in {"settle", "armed"}
        /\ Goto(t, "drop")
        /\ Abandon(t)
  /\ UNCHANGED <<slotVars, semVars, limits, scanVars, sendVars, fatal, calls,
                 srvSeq, ran>>
-----------------------------------------------------------------------------
(* The server and the network *)

Deliver(r, msg) ==
  /\ requests' = requests \ {r}
  /\ reply' = IF r.task = NoTask THEN reply ELSE [reply EXCEPT ![r.task] = msg]

\* The server executes the request that is next on its slot.
ServerExecute(r) ==
  /\ r.seq = Succ(srvSeq[r.slot])
  /\ srvSeq' = [srvSeq EXCEPT ![r.slot] = r.seq]
  /\ ran' = IF r.task = NoTask THEN ran ELSE [ran EXCEPT ![r.task] = TRUE]
  /\ \E ok \in OkReply : Deliver(r, ok)
  /\ UNCHANGED <<tableVars, callVars>>

\* SEQUENCE fails (BADSESSION, SEQ_MISORDERED, DELAY...): nothing is executed.
ServerReject(r) ==
  /\ Deliver(r, BadReply)
  /\ UNCHANGED <<tableVars, callVars, srvSeq, ran>>

Lose(r) ==
  /\ requests' = requests \ {r}
  /\ UNCHANGED <<tableVars, callVars, reply, srvSeq, ran>>
-----------------------------------------------------------------------------
TaskStep(t) ==
  \/ AcquireSlot(t) \/ CheckStatus(t) \/ Dispatch(t) \/ NotSent(t)
  \/ RpcLost(t) \/ ReceiveBad(t) \/ ReceiveOk(t) \/ ReleaseSlot(t)

\* Every task has issued all its compounds.
Quiescent ==
  /\ \A t \in Tasks : pc[t] = "idle" /\ calls[t] = MaxCalls
  /\ UNCHANGED vars

Next ==
  \/ \E t \in Tasks : Start(t) \/ TaskStep(t) \/ Cancel(t)
  \/ \E r \in requests : ServerExecute(r) \/ ServerReject(r) \/ Lose(r)
  \/ Quiescent

Spec == Init /\ [][Next]_vars

(***************************************************************************)
(* A polled task keeps running, and the operation timeout bounds the RPC.  *)
(* Callers need not call, cancel nothing on their own, and neither the     *)
(* server nor the network has to do anything.                              *)
(***************************************************************************)
FairSpec == Spec /\ \A t \in Tasks : WF_vars(TaskStep(t))
-----------------------------------------------------------------------------
(***************************************************************************)
(* Whatever is lost, late, cancelled or retired: a request in flight is    *)
(* the only one of its slot and carries the sequence id the server expects *)
(* next, and a slot that can still be issued agrees with the server about  *)
(* the next id.  This is why compound_raw_once retires a slot whose        *)
(* request has no matching SEQUENCE result and advances it otherwise.      *)
(***************************************************************************)
SequenceAgreement ==
  /\ \A r \in requests : r.seq = Succ(srvSeq[r.slot])
  /\ \A r, q \in requests : r.slot = q.slot => r = q
  /\ \A s \in Slots :
       usable[s] /\ (\A t \in Tasks : outstanding[t] => at[t] # s)
         => seqid[s] = Succ(srvSeq[s])

(***************************************************************************)
(* What the caller is told about its compound is true: a successful one    *)
(* was executed, and one that failed with request_not_sent was not and     *)
(* never will be.  Upper layers replay mutations on the strength of it.    *)
(***************************************************************************)
OutcomeTruthful ==
  \A t \in Tasks :
    /\ result[t] = "ok" => ran[t]
    /\ result[t] = "not_sent" => ~ran[t] /\ \A r \in requests : r.task # t

HoldsPermit(t) == pc[t] \in Holding \cup {"scan", "peek", "release"}

(***************************************************************************)
(* Permits are never lost or forged: free and held permits make up the     *)
(* live slots, counting the permits retired slots are about to forget, and *)
(* the semaphore is closed exactly when no slot is usable (mark_unusable   *)
(* and SlotRelease::drop).                                                 *)
(***************************************************************************)
PermitAccounting ==
  /\ live = Cardinality({s \in Slots : usable[s]})
  /\ closed <=> live = 0
  /\ permits + Cardinality({t \in Tasks : HoldsPermit(t)})
       = live + Cardinality({t \in Tasks : retire[t]})

(***************************************************************************)
(* A task never waits forever in acquire while an eligible slot is usable: *)
(* every release and every change of the limits reaches the tasks that     *)
(* gave up a scan before it.                                               *)
(***************************************************************************)
WaiterWoken ==
  \A t \in Tasks :
    pc[t] = "wait" ~>
      \/ pc[t] # "wait"
      \/ \A s \in 0 .. limits.target : ~usable[s]

(***************************************************************************)
(* request_highest_slotid, which waits with a slot in hand until higher    *)
(* slots drain, always ends: two such holders never wait for each other.   *)
(***************************************************************************)
HolderProceeds ==
  \A t \in Tasks :
    pc[t] \in {"limits", "active", "settle"} ~>
      pc[t] \notin {"limits", "active", "settle"}

(***************************************************************************)
(* slots.rs:56-57: the highest_slotid of a request covers "any             *)
(* higher-numbered requests already in flight" when it is computed.        *)
(***************************************************************************)
HighestCoversInFlight ==
  [][\A t, u \in Tasks :
       pc[t] = "active" /\ pc'[t] = "check" /\ outstanding[u]
         => at[u] <= high'[t]]_vars

(***************************************************************************)
(* acquire returns a slot or an error: when every eligible slot is         *)
(* unusable it reports connection loss instead of waiting.                 *)
(***************************************************************************)
AcquireReturns ==
  \A t \in Tasks : pc[t] = "wait" ~> pc[t] # "wait"
=============================================================================
