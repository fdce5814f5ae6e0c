----------------------------- MODULE SessionProofs -----------------------------
(***************************************************************************)
(* Proofs about Session: for any number of tasks, slots and calls, any     *)
(* wrap-around of sequence ids and any server replies, SequenceAgreement,  *)
(* OutcomeTruthful and PermitAccounting are invariants.                    *)
(*                                                                         *)
(* The invariant ties a guard to the mutex of its slot (GuardInv), an      *)
(* armed guard to its pending RPC (ArmInv), and a request on the wire to   *)
(* the sequence id its slot is at and to a caller that still waits or a    *)
(* slot that is retired or about to be (RequestInv). The steps of the scan *)
(* come first, then what the client does to the wire: a call is            *)
(* dispatched, given up, or answered. The permits come last (PermitInv):   *)
(* each step that takes or returns one, or retires a slot, changes the     *)
(* three counts together.                                                  *)
(***************************************************************************)
EXTENDS Session, FiniteSetTheorems, TLAPS

Acquiring == {"permit", "scan", "peek", "wait", "limits", "active", "settle",
              "check", "arm"}
Dropping == {"drop", "unlock", "release"}

\* A guard owns the mutex of its slot, and the slot is usable until the guard
\* retires it.
GuardInv ==
  \A t \in Tasks :
    /\ pc[t] \in Holding \cup {"peek"} => at[t] \in Slots /\ lock[at[t]] = t
    /\ pc[t] \in Holding \ {"unlock"} /\ ~(pc[t] = "drop" /\ ~outstanding[t])
         => usable[at[t]]

\* The armed guard and the pending RPC belong together.
ArmInv ==
  \A t \in Tasks :
    /\ outstanding[t] => pc[t] \in {"armed", "drop"}
    /\ pc[t] = "armed" => outstanding[t]
    /\ pc[t] # "armed" => reply[t] = NoReply

\* A request on the wire is next on its slot.  Its caller still waits for it,
\* or the slot is retired or about to be.
OwnerInv(r) ==
  IF r.task = NoTask
  THEN \/ ~usable[r.slot]
       \/ \E t \in Tasks : outstanding[t] /\ pc[t] = "drop" /\ at[t] = r.slot
  ELSE /\ pc[r.task] = "armed"
       /\ at[r.task] = r.slot
       /\ seqid[r.slot] = r.seq
       /\ reply[r.task] = NoReply

RequestInv ==
  /\ \A r \in requests : r.seq = Succ(srvSeq[r.slot]) /\ OwnerInv(r)
  /\ \A r, q \in requests : r.slot = q.slot => r = q

\* A matching SEQUENCE result means that the server executed the request.
ReplyInv ==
  \A t \in Tasks :
    reply[t].kind = "ok" => seqid[at[t]] = srvSeq[at[t]] /\ ran[t]

FreeInv ==
  \A s \in Slots :
    usable[s] /\ (\A t \in Tasks : outstanding[t] => at[t] # s)
      => seqid[s] = Succ(srvSeq[s])

\* Nothing was executed for a compound that is still on its way to the RPC.
ResultInv ==
  \A t \in Tasks :
    /\ pc[t] \in Acquiring => ~ran[t] /\ result[t] = "none"
    /\ pc[t] = "armed" => result[t] = "none"
    /\ pc[t] \in {"arm", "armed"} => then[t] = "idle"
    /\ pc[t] \in Dropping /\ then[t] = "permit" => ~ran[t] /\ result[t] = "none"
    /\ result[t] = "ok" => ran[t]
    /\ result[t] = "not_sent" => ~ran[t]

IInv ==
  /\ TypeOK
  /\ GuardInv
  /\ ArmInv
  /\ RequestInv
  /\ ReplyInv
  /\ FreeInv
  /\ ResultInv
-----------------------------------------------------------------------------
LEMMA SuccType == \A n \in 0 .. SeqMod - 1 : Succ(n) \in 0 .. SeqMod - 1
  BY SeqModAssumption DEF Succ

LEMMA SlotsType ==
  /\ 0 \in Slots
  /\ SlotCount - 1 \in Slots
  /\ NoLimits \in Limits
  /\ \A s \in Slots : s \in 0 .. SlotCount /\ s + 1 \in 0 .. SlotCount
  /\ \A n \in 0 .. SlotCount, s \in Slots : n <= s => n \in Slots
  /\ \A r, s \in Slots : AtLeast(r, s) \in Slots
  /\ \A l \in Limits : l.enforced \in Slots /\ l.target \in Slots
  BY SMTT(60), SlotCountAssumption DEF Slots, Limits, NoLimits, AtLeast

\* The slot table's own steps preserve its part of the type invariant.
LEMMA TableTypeStep ==
  ASSUME TableTypeOK, GuardInv, NEW t \in Tasks,
         \/ TakePermit(t) \/ PermitRefused(t)
         \/ ScanTake(t) \/ ScanPeek(t) \/ PeekEnd(t) \/ ScanLocked(t) \/ ScanEnd(t)
         \/ Wake(t)
         \/ ReadLimits(t) \/ ReadActive(t) \/ Settle(t)
         \/ DropGuard(t) \/ DropMutexGuard(t) \/ DropRelease(t)
  PROVE  TableTypeOK'
  <1> USE SlotsType
      DEF TableTypeOK, slotVars, semVars, scanVars, sendVars, Goto, PCs, Holding
  <1>1. CASE TakePermit(t)
    BY SMTT(60), <1>1 DEF TakePermit
  <1>2. CASE PermitRefused(t)
    BY <1>2, Zenon DEF PermitRefused
  <1>3. CASE ScanTake(t)
    BY <1>3, Zenon DEF ScanTake, EndScan
  <1>4. CASE ScanPeek(t)
    BY <1>4, Zenon DEF ScanPeek
  <1>5. CASE PeekEnd(t)
    BY <1>5, Zenon DEF PeekEnd, GuardInv
  <1>6. CASE ScanLocked(t)
    BY <1>6, Zenon DEF ScanLocked
  <1>7. CASE ScanEnd(t)
    BY SMTT(60), <1>7 DEF ScanEnd, EndScan
  <1>8. CASE Wake(t)
    BY <1>8, Zenon DEF Wake
  <1>9. CASE ReadLimits(t)
    <2>1. CASE at[t] > limits.target \/ at[t] > limits.enforced
      BY ZenonT(60), <1>9, <2>1 DEF ReadLimits
    <2>2. CASE ~(at[t] > limits.target \/ at[t] > limits.enforced)
      <3>1. /\ seen' = [seen EXCEPT ![t] = limits] /\ waiting' = waiting \cup {t}
            /\ pc' = [pc EXCEPT ![t] = "active"] /\ then' = then
        BY ZenonT(60), <1>9, <2>2 DEF ReadLimits
      <3>2. seen' \in [Tasks -> Limits] /\ waiting' \in SUBSET Tasks
        BY <3>1, Zenon
      <3> QED
        BY <1>9, <3>1, <3>2, Zenon DEF ReadLimits
    <2> QED
      BY <2>1, <2>2, Zenon
  <1>10. CASE ReadActive(t)
    <2>1. PICK h \in Slots : ReadActive(t)!2!(h)
      BY <1>10, Zenon DEF ReadActive
    <2>2. CASE h <= seen[t].enforced
      <3>1. AtLeast(h, seen[t].target) \in Slots
        BY Zenon
      <3>2. /\ high' \in [Tasks -> Slots]
            /\ waiting' = waiting \ {t}
            /\ pc' = [pc EXCEPT ![t] = "check"]
        BY ZenonT(60), <2>1, <2>2, <3>1
      <3> QED
        BY <1>10, <3>2, Zenon DEF ReadActive
    <2>3. CASE ~(h <= seen[t].enforced)
      BY ZenonT(60), <1>10, <2>1, <2>3 DEF ReadActive
    <2> QED
      BY <2>2, <2>3, Zenon
  <1>11. CASE Settle(t)
    BY <1>11, Zenon DEF Settle
  <1>12. CASE DropGuard(t)
    <2>1. CASE outstanding[t] /\ usable[at[t]]
      <3>1. closed' \in BOOLEAN /\ live' \in Int
        BY <1>12, <2>1 DEF DropGuard, MarkUnusable
      <3>2. /\ usable' = [usable EXCEPT ![at[t]] = FALSE]
            /\ retire' = [retire EXCEPT ![t] = TRUE]
        BY <1>12, <2>1, Zenon DEF DropGuard, MarkUnusable
      <3> QED
        BY ZenonT(60), <1>12, <2>1, <3>1, <3>2 DEF DropGuard
    <2>2. CASE ~(outstanding[t] /\ usable[at[t]])
      BY <1>12, <2>2, Zenon DEF DropGuard, MarkUnusable
    <2> QED
      BY <2>1, <2>2, Zenon
  <1>13. CASE DropMutexGuard(t)
    BY ZenonT(60), <1>13 DEF DropMutexGuard
  <1>14. CASE DropRelease(t)
    <2>1. permits' \in Int /\ then[t] \in PCs /\ waiting' \in SUBSET Tasks
      BY <1>14 DEF DropRelease, NotifyWaiters, PermitsAfter
    <2> QED
      BY ZenonT(60), <1>14, <2>1 DEF DropRelease
  <1> QED
    BY ZenonT(60), <1>1, <1>2, <1>3, <1>4, <1>5, <1>6, <1>7,
       <1>8, <1>9, <1>10, <1>11, <1>12, <1>13, <1>14

\* What Abandon does to the requests on the wire.
LEMMA AbandonRequests ==
  ASSUME requests \in SUBSET Request, NEW t \in Tasks, Abandon(t)
  PROVE  /\ requests' \in SUBSET Request
         /\ \A r \in requests' : \E q \in requests :
              /\ r.slot = q.slot
              /\ r.seq = q.seq
              /\ q.task = t => r.task = NoTask
              /\ q.task # t => r = q
  <1>1. \A q \in requests :
          /\ [q EXCEPT !.task = NoTask] \in Request
          /\ [q EXCEPT !.task = NoTask].slot = q.slot
          /\ [q EXCEPT !.task = NoTask].seq = q.seq
          /\ [q EXCEPT !.task = NoTask].task = NoTask
    BY Zenon DEF Request
  <1>2. \A r \in requests' : \E q \in requests :
          r = IF q.task = t THEN [q EXCEPT !.task = NoTask] ELSE q
    BY Zenon DEF Abandon
  <1> QED
    BY ZenonT(60), <1>1, <1>2

LEMMA UpdateLimitsType ==
  ASSUME NEW h \in Nat, NEW g \in Nat, UpdateLimits(h, g)
  PROVE  limits' \in Limits /\ waiting' = {}
  <1>1. \A n \in Nat, s \in Slots : AtMost(n, s) \in Slots
    BY SlotCountAssumption DEF AtMost, Slots
  <1>2. AtMost(h, SlotCount - 1) \in Slots
    BY <1>1, SlotsType, Zenon
  <1> QED
    BY <1>1, <1>2, Zenon DEF UpdateLimits, NotifyWaiters, Limits

LEMMA TypeStep ==
  ASSUME TypeOK, GuardInv, [Next]_vars
  PROVE  TypeOK'
  <1> USE DEF TypeOK, callVars, netVars
  <1>1. ASSUME NEW t \in Tasks, Start(t) PROVE TypeOK'
    <2>1. TableTypeOK'
      BY <1>1, Zenon DEF Start, TableTypeOK, slotVars, semVars, scanVars, sendVars, Goto,
                  PCs, Holding
    <2> QED
      BY SMTT(60), <1>1, <2>1, MaxCallsAssumption DEF Start, Return, Results
  <1>2. ASSUME NEW t \in Tasks, AcquireSlot(t) PROVE TypeOK'
    <2>1. TableTypeOK'
      BY <1>2, TableTypeStep, Zenon DEF AcquireSlot
    <2> QED
      BY <1>2, <2>1, Zenon DEF AcquireSlot, Results
  <1>3. ASSUME NEW t \in Tasks, CheckStatus(t) \/ NotSent(t) PROVE TypeOK'
    <2>1. TableTypeOK'
      BY SMTT(60), <1>3 DEF CheckStatus, NotSent, TableTypeOK, slotVars, semVars, scanVars,
                  sendVars, Goto, PCs, Holding
    <2> QED
      BY <1>3, <2>1, Zenon DEF CheckStatus, NotSent, Return, Results
  <1>4. ASSUME NEW t \in Tasks, Dispatch(t) PROVE TypeOK'
    <2>1. TableTypeOK'
      BY <1>4, Zenon DEF Dispatch, TableTypeOK, slotVars, semVars, scanVars, Goto, PCs,
                  Holding
    <2>2. at[t] \in Slots /\ seqid[at[t]] \in 0 .. SeqMod - 1
      BY <1>4, Zenon DEF Dispatch, GuardInv, Holding, TableTypeOK
    <2>3. requests' \in SUBSET Request
      BY <1>4, <2>2 DEF Dispatch, Request
    <2> QED
      BY <1>4, <2>1, <2>3, Zenon DEF Dispatch
  <1>5. ASSUME NEW t \in Tasks, RpcLost(t) \/ ReceiveBad(t) PROVE TypeOK'
    <2>1. TableTypeOK'
      BY <1>5, Zenon DEF RpcLost, ReceiveBad, FailArmed, TableTypeOK, slotVars, semVars,
                  scanVars, sendVars, Goto, PCs, Holding
    <2>2. requests' \in SUBSET Request
      BY <1>5, AbandonRequests, Zenon DEF RpcLost, ReceiveBad, FailArmed
    <2> QED
      BY <1>5, <2>1, <2>2, Zenon DEF RpcLost, ReceiveBad, FailArmed, Abandon, Return, Results
  <1>6. ASSUME NEW t \in Tasks, ReceiveOk(t) PROVE TypeOK'
    <2>1. reply[t] \in OkReply
      BY <1>6 DEF ReceiveOk, NoReply, BadReply, OkReply
    <2>2. /\ reply[t].body[1] \in Nat /\ reply[t].body[2] \in Nat
          /\ reply[t].body[3] \in BOOLEAN
      BY <2>1, ServerRepliesAssumption, Zenon DEF OkReply
    <2>3. limits' \in Limits /\ waiting' = {}
      BY <1>6, <2>2, UpdateLimitsType, Zenon DEF ReceiveOk
    <2>4. seqid' \in [Slots -> 0 .. SeqMod - 1]
      BY <1>6, SuccType, Zenon DEF ReceiveOk, TableTypeOK, GuardInv, Holding
    <2>5. TableTypeOK'
      BY <1>6, <2>3, <2>4, Zenon DEF ReceiveOk, TableTypeOK, slotVars, semVars, scanVars, Goto,
                              PCs, Holding
    <2>6. fatal' \in BOOLEAN
      BY <1>6, <2>2, Zenon DEF ReceiveOk
    <2> QED
      BY <1>6, <2>5, <2>6, Zenon DEF ReceiveOk, Return, Results
  <1>7. ASSUME NEW t \in Tasks, ReleaseSlot(t) PROVE TypeOK'
    <2>1. TableTypeOK'
      BY <1>7, TableTypeStep, Zenon DEF ReleaseSlot
    <2> QED
      BY <1>7, <2>1, Zenon DEF ReleaseSlot
  <1>8. ASSUME NEW t \in Tasks, Cancel(t) PROVE TypeOK'
    <2>1. TableTypeOK'
      <3>1. /\ pc' \in [Tasks -> PCs] /\ waiting' \in SUBSET Tasks
            /\ then' \in [Tasks -> {"idle", "permit"}]
        BY <1>8, Zenon DEF Cancel, TableTypeOK, Goto, PCs, Holding
      <3> QED
        BY <1>8, <3>1, Zenon
        DEF Cancel, TableTypeOK, slotVars, semVars, scanVars, sendVars
    <2>2. requests' \in SUBSET Request
      BY <1>8, AbandonRequests, Zenon DEF Cancel
    <2>3. reply' \in [Tasks -> {NoReply, BadReply} \cup OkReply]
      BY <1>8, Zenon DEF Cancel, Abandon
    <2> QED
      BY ZenonT(60), <1>8, <2>1, <2>2, <2>3 DEF Cancel, Return, Results
  <1>9. ASSUME NEW r \in requests, ServerExecute(r) \/ ServerReject(r) \/ Lose(r)
        PROVE  TypeOK'
    <2>1. TableTypeOK'
      BY <1>9, Zenon DEF ServerExecute, ServerReject, Lose, TableTypeOK, tableVars, slotVars,
                  semVars, scanVars, sendVars
    <2>2. r.task \in Tasks \cup {NoTask} /\ r.slot \in Slots /\ r.seq \in 0 .. SeqMod - 1
      BY Zenon DEF Request
    <2>3. reply' \in [Tasks -> {NoReply, BadReply} \cup OkReply]
      BY <1>9, <2>2, Zenon DEF ServerExecute, ServerReject, Lose, Deliver
    <2> QED
      BY ZenonT(60), <1>9, <2>1, <2>2, <2>3 DEF ServerExecute, ServerReject, Lose, Deliver
  <1>10. CASE UNCHANGED vars
    BY <1>10, Zenon DEF vars, tableVars, TableTypeOK, slotVars, semVars, scanVars, sendVars
  <1> QED
    BY <1>1, <1>2, <1>3, <1>4, <1>5, <1>6, <1>7, <1>8, <1>9, <1>10, Zenon
    DEF Next, TaskStep, Quiescent
-----------------------------------------------------------------------------
\* What acquire_for_request does, whichever step it takes: it touches only its
\* own task, no sequence id, and never arms the guard.
LEMMA AcquireEffect ==
  ASSUME TypeOK, NEW t \in Tasks, AcquireSlot(t)
  PROVE  /\ pc[t] \in Acquiring /\ pc'[t] \notin {"arm", "armed"}
         /\ \/ pc'[t] \in Acquiring /\ then' = then
            \/ pc'[t] = "drop" /\ then' = [then EXCEPT ![t] = "permit"]
            \/ pc'[t] = "idle" /\ then' = then
         /\ \A u \in Tasks \ {t} : pc'[u] = pc[u] /\ at'[u] = at[u]
         /\ UNCHANGED <<seqid, usable, outstanding>>
  <1>1. pc \in [Tasks -> PCs] /\ at \in [Tasks -> 0 .. SlotCount]
    BY Zenon DEF TypeOK, TableTypeOK
  <1> USE <1>1 DEF Acquiring, Goto, slotVars, scanVars, sendVars
  <1>2. CASE TakePermit(t)
    BY <1>2, Zenon DEF TakePermit
  <1>3. CASE PermitRefused(t)
    BY <1>3, Zenon DEF PermitRefused
  <1>4. CASE ScanTake(t)
    BY <1>4, Zenon DEF ScanTake
  <1>5. CASE ScanPeek(t)
    BY <1>5, Zenon DEF ScanPeek
  <1>6. CASE PeekEnd(t)
    BY <1>6, Zenon DEF PeekEnd
  <1>7. CASE ScanLocked(t)
    BY <1>7, Zenon DEF ScanLocked
  <1>8. CASE ScanEnd(t)
    BY <1>8, Zenon DEF ScanEnd
  <1>9. CASE Wake(t) \/ Settle(t)
    BY <1>9, Zenon DEF Wake, Settle
  <1>10. CASE ReadLimits(t)
    BY <1>10, Zenon DEF ReadLimits
  <1>11. CASE ReadActive(t)
    BY <1>11, Zenon DEF ReadActive
  <1> QED
    BY ZenonT(60), <1>2, <1>3, <1>4, <1>5, <1>6, <1>7, <1>8, <1>9, <1>10, <1>11
    DEF AcquireSlot

\* Two guards never hold the same slot.
LEMMA GuardsDisjoint ==
  ASSUME IInv, NEW t \in Tasks, NEW u \in Tasks, t # u,
         pc[t] \in Holding \cup {"peek"}, pc[u] \in Holding \cup {"peek"}
  PROVE  at[t] # at[u]
  BY SMTT(60) DEF IInv, GuardInv

LEMMA GuardStep ==
  ASSUME IInv, [Next]_vars
  PROVE  GuardInv'
  <1>1. /\ pc \in [Tasks -> PCs] /\ at \in [Tasks -> 0 .. SlotCount]
        /\ lock \in [Slots -> Tasks \cup {NoTask}] /\ usable \in [Slots -> BOOLEAN]
        /\ outstanding \in [Tasks -> BOOLEAN] /\ GuardInv /\ ArmInv
    BY Zenon DEF IInv, TypeOK, TableTypeOK
  <1> USE <1>1, TasksAssumption DEF GuardInv, Holding, Goto
  <1>2. ASSUME NEW t \in Tasks, Start(t) PROVE GuardInv'
    BY SMTT(60), <1>2 DEF Start, slotVars, scanVars, sendVars
  <1>3. ASSUME NEW t \in Tasks, AcquireSlot(t) PROVE GuardInv'
    <2> USE DEF slotVars, scanVars, sendVars
    <2>1. CASE TakePermit(t) \/ PermitRefused(t)
      BY SMTT(60), <2>1 DEF TakePermit, PermitRefused
    <2>2. CASE ScanTake(t) \/ ScanPeek(t)
      <3>1. at[t] \in Slots
        <4>1. upto \in [Tasks -> Slots]
          BY Zenon DEF IInv, TypeOK, TableTypeOK
        <4> QED
          BY <2>2, <4>1, SlotsType, Zenon DEF ScanTake, ScanPeek, Slots
      <3> QED
        BY SMTT(60), <2>2, <3>1 DEF ScanTake, ScanPeek
    <2>3. CASE PeekEnd(t)
      BY SMTT(60), <2>3 DEF PeekEnd
    <2>4. CASE ScanLocked(t) \/ ScanEnd(t) \/ Wake(t)
      BY SMTT(60), <2>4 DEF ScanLocked, ScanEnd, Wake
    <2>5. CASE ReadLimits(t)
      BY SMTT(60), <2>5 DEF ReadLimits, ArmInv
    <2>6. CASE ReadActive(t)
      BY SMTT(60), <2>6 DEF ReadActive
    <2>7. CASE Settle(t)
      BY SMTT(60), <2>7 DEF Settle
    <2> QED
      BY ZenonT(60), <1>3, <2>1, <2>2, <2>3, <2>4, <2>5, <2>6, <2>7 DEF AcquireSlot
  <1>4. ASSUME NEW t \in Tasks, CheckStatus(t) \/ NotSent(t) \/ Dispatch(t) PROVE GuardInv'
    <2> USE DEF slotVars, scanVars, sendVars
    <2>1. CASE CheckStatus(t) \/ NotSent(t)
      BY SMTT(60), <2>1 DEF CheckStatus, NotSent
    <2>2. CASE Dispatch(t)
      BY <2>2, Zenon DEF Dispatch
    <2> QED
      BY <1>4, <2>1, <2>2, Zenon
  <1>5. ASSUME NEW t \in Tasks, RpcLost(t) \/ ReceiveBad(t) PROVE GuardInv'
    BY SMTT(60), <1>5 DEF RpcLost, ReceiveBad, FailArmed, slotVars, scanVars, sendVars
  <1>6. ASSUME NEW t \in Tasks, ReceiveOk(t) PROVE GuardInv'
    BY SMTT(60), <1>6 DEF ReceiveOk, scanVars
  <1>7. ASSUME NEW t \in Tasks, ReleaseSlot(t) PROVE GuardInv'
    <2> USE DEF slotVars, scanVars, sendVars
    <2>1. CASE DropGuard(t)
      <3>1. at' = at /\ lock' = lock /\ pc[t] = "drop" /\ pc' = [pc EXCEPT ![t] = "unlock"]
        BY <2>1, Zenon DEF DropGuard
      <3>2. \A s \in Slots : s # at[t] => usable'[s] = usable[s]
        BY <2>1, Zenon DEF DropGuard, MarkUnusable
      <3>3. \A u \in Tasks : u # t => outstanding'[u] = outstanding[u]
        BY <2>1, Zenon DEF DropGuard
      <3>4. \A u \in Tasks : u # t /\ pc[u] \in Holding => at[u] # at[t]
        BY <3>1, GuardsDisjoint, Zenon
      <3> QED
        BY SMTT(60), <3>1, <3>2, <3>3, <3>4
    <2>2. CASE DropMutexGuard(t)
      BY SMTT(60), <2>2 DEF DropMutexGuard
    <2>3. CASE DropRelease(t)
      <3>1. then[t] \in {"idle", "permit"}
        BY Zenon DEF IInv, TypeOK, TableTypeOK
      <3> QED
        BY SMTT(60), <2>3, <3>1 DEF DropRelease
    <2> QED
      BY <1>7, <2>1, <2>2, <2>3, Zenon DEF ReleaseSlot
  <1>8. ASSUME NEW t \in Tasks, Cancel(t) PROVE GuardInv'
    BY SMTT(60), <1>8 DEF Cancel, slotVars, scanVars, sendVars, ArmInv
  <1>9. CASE UNCHANGED tableVars
    BY <1>9, Zenon DEF tableVars, slotVars, scanVars, sendVars
  <1> HIDE <1>1 DEF GuardInv, Holding, Goto
  <1> QED
    BY <1>2, <1>3, <1>4, <1>5, <1>6, <1>7, <1>8, <1>9, Zenon
    DEF Next, TaskStep, Quiescent, vars, ServerExecute, ServerReject, Lose
-----------------------------------------------------------------------------
LEMMA ResultStep ==
  ASSUME IInv, [Next]_vars
  PROVE  ResultInv'
  <1>1. /\ pc \in [Tasks -> PCs] /\ then \in [Tasks -> {"idle", "permit"}]
        /\ result \in [Tasks -> Results] /\ ran \in [Tasks -> BOOLEAN] /\ ResultInv
    BY Zenon DEF IInv, TypeOK, TableTypeOK
  <1> USE <1>1 DEF ResultInv, Acquiring, Dropping, Goto
  <1>2. ASSUME NEW t \in Tasks, Start(t) PROVE ResultInv'
    BY SMTT(60), <1>2 DEF Start, Return
  <1>3. ASSUME NEW t \in Tasks, AcquireSlot(t) PROVE ResultInv'
    <2>1. /\ pc[t] \in Acquiring /\ pc'[t] \notin {"arm", "armed"}
          /\ \/ pc'[t] \in Acquiring /\ then' = then
             \/ pc'[t] = "drop" /\ then' = [then EXCEPT ![t] = "permit"]
             \/ pc'[t] = "idle" /\ then' = then
          /\ \A u \in Tasks \ {t} : pc'[u] = pc[u]
      BY <1>3, AcquireEffect DEF IInv
    <2>2. /\ ran' = ran
          /\ result' = IF pc'[t] = "idle" THEN [result EXCEPT ![t] = "not_sent"] ELSE result
      BY <1>3, Zenon DEF AcquireSlot, netVars
    <2>3. CASE pc'[t] = "idle"
      BY <2>1, <2>2, <2>3, Zenon
    <2>4. CASE pc'[t] # "idle"
      BY SMTT(60), <2>1, <2>2, <2>4
    <2> QED
      BY <2>3, <2>4, Zenon
  <1>4. ASSUME NEW t \in Tasks, CheckStatus(t) PROVE ResultInv'
    BY SMTT(60), <1>4 DEF CheckStatus, Return, netVars
  <1>5. ASSUME NEW t \in Tasks, NotSent(t) PROVE ResultInv'
    BY <1>5, Zenon DEF NotSent, Return, netVars
  <1>6. ASSUME NEW t \in Tasks, Dispatch(t) PROVE ResultInv'
    BY <1>6, Zenon DEF Dispatch, callVars
  <1>7. ASSUME NEW t \in Tasks, RpcLost(t) \/ ReceiveBad(t) PROVE ResultInv'
    BY SMTT(60), <1>7 DEF RpcLost, ReceiveBad, FailArmed, Return
  <1>8. ASSUME NEW t \in Tasks, ReceiveOk(t) PROVE ResultInv'
    <2>1. ran[t]
      BY <1>8, Zenon DEF ReceiveOk, IInv, ReplyInv
    <2>2. /\ pc[t] = "armed" /\ pc' = [pc EXCEPT ![t] = "drop"]
          /\ result' = [result EXCEPT ![t] = "ok"] /\ UNCHANGED <<then, ran>>
      BY <1>8, Zenon DEF ReceiveOk, Return
    <2> QED
      BY <2>1, <2>2, Zenon
  <1>9. ASSUME NEW t \in Tasks, ReleaseSlot(t) PROVE ResultInv'
    BY SMTT(60), <1>9 DEF ReleaseSlot, DropGuard, DropMutexGuard, DropRelease, callVars, netVars
  <1>10. ASSUME NEW t \in Tasks, Cancel(t) PROVE ResultInv'
    BY SMTT(60), <1>10 DEF Cancel, Return
  <1>11. ASSUME NEW r \in requests, ServerExecute(r) \/ ServerReject(r) \/ Lose(r)
         PROVE  ResultInv'
    <2>1. r.task = NoTask \/ (r.task \in Tasks /\ pc[r.task] = "armed")
      <3>1. r.task \in Tasks \cup {NoTask}
        BY SMTT(60) DEF IInv, TypeOK, Request
      <3>2. r.task # NoTask => pc[r.task] = "armed"
        BY SMTT(60) DEF IInv, RequestInv, OwnerInv
      <3> QED
        BY <3>1, <3>2, Zenon
    <2>2. UNCHANGED <<pc, then, result>>
      BY <1>11, Zenon DEF ServerExecute, ServerReject, Lose, tableVars, callVars
    <2>3. \A u \in Tasks : u # r.task => ran'[u] = ran[u]
      BY <1>11, Zenon DEF ServerExecute, ServerReject, Lose
    <2> QED
      BY SMTT(60), <2>1, <2>2, <2>3, TasksAssumption
  <1>12. CASE UNCHANGED vars
    BY <1>12, Zenon DEF vars, tableVars, callVars, netVars
  <1> HIDE <1>1 DEF ResultInv, Acquiring, Dropping, Goto
  <1> QED
    BY <1>2, <1>3, <1>4, <1>5, <1>6, <1>7, <1>8, <1>9, <1>10, <1>11, <1>12, Zenon
    DEF Next, TaskStep, Quiescent
-----------------------------------------------------------------------------
\* The part of IInv that relates the slots to the requests on the wire, to the
\* replies and to the server.
WireInv == ArmInv /\ RequestInv /\ ReplyInv /\ FreeInv

LEMMA WireTypes ==
  ASSUME IInv
  PROVE  /\ pc \in [Tasks -> PCs] /\ at \in [Tasks -> 0 .. SlotCount]
         /\ seqid \in [Slots -> 0 .. SeqMod - 1] /\ usable \in [Slots -> BOOLEAN]
         /\ outstanding \in [Tasks -> BOOLEAN] /\ ran \in [Tasks -> BOOLEAN]
         /\ reply \in [Tasks -> {NoReply, BadReply} \cup OkReply]
         /\ srvSeq \in [Slots -> 0 .. SeqMod - 1]
  BY Zenon DEF IInv, TypeOK, TableTypeOK

\* A step of a task without an armed guard that changes only its own control
\* point, slot and result leaves the wire and the server as they were.
LEMMA QuietStep ==
  ASSUME IInv, TypeOK', NEW t \in Tasks,
         pc[t] # "armed", ~outstanding[t], pc'[t] # "armed",
         UNCHANGED <<requests, reply, srvSeq, seqid, usable, outstanding>>,
         \A u \in Tasks \ {t} : pc'[u] = pc[u] /\ at'[u] = at[u] /\ ran'[u] = ran[u]
  PROVE  ArmInv' /\ RequestInv' /\ ReplyInv' /\ FreeInv'
  <1>1. reply[t] = NoReply
    BY Zenon DEF IInv, ArmInv
  <1>2. ArmInv'
    BY <1>1, Zenon DEF IInv, ArmInv
  <1>3. \A r \in requests : OwnerInv(r) => OwnerInv(r)'
    BY DEF OwnerInv, IInv, TypeOK, Request
  <1>4. RequestInv'
    BY <1>3, Zenon DEF IInv, RequestInv
  <1>5. ReplyInv'
    BY SMTT(60), <1>1 DEF IInv, ReplyInv, NoReply
  <1>6. FreeInv'
    BY Zenon DEF IInv, FreeInv
  <1> QED
    BY <1>2, <1>4, <1>5, <1>6, Zenon

\* The guard of a slot that a task is about to use is the only claim on it: no
\* request on the wire names the slot and nobody else has armed it.
LEMMA SlotIsFree ==
  ASSUME IInv, NEW t \in Tasks, pc[t] = "arm"
  PROVE  /\ \A r \in requests : r.slot # at[t]
         /\ \A u \in Tasks : outstanding[u] => at[u] # at[t]
         /\ seqid[at[t]] = Succ(srvSeq[at[t]])
  <1>1. at[t] \in Slots /\ usable[at[t]] /\ ~outstanding[t]
    BY Zenon DEF IInv, GuardInv, Holding, ArmInv
  <1>2. \A u \in Tasks : outstanding[u] => at[u] # at[t]
    BY <1>1, GuardsDisjoint, Zenon DEF IInv, ArmInv, Holding
  <1>3. ASSUME NEW r \in requests, r.slot = at[t] PROVE FALSE
    <2>1. CASE r.task = NoTask
      BY <1>1, <1>2, <1>3, <2>1, Zenon DEF IInv, RequestInv, OwnerInv
    <2>2. CASE r.task # NoTask
      <3>1. r.task \in Tasks /\ pc[r.task] = "armed" /\ at[r.task] = at[t]
        BY <1>3, <2>2, Zenon DEF IInv, RequestInv, OwnerInv, TypeOK, Request
      <3> QED
        BY <1>2, <3>1, Zenon DEF IInv, ArmInv
    <2> QED
      BY <2>1, <2>2, Zenon
  <1> QED
    BY <1>1, <1>2, <1>3, Zenon DEF IInv, FreeInv

\* When a call's reply has arrived its request has left the wire, and no other
\* request is on its slot.
LEMMA ReplyEndsRequest ==
  ASSUME IInv, NEW t \in Tasks, pc[t] = "armed", reply[t] # NoReply
  PROVE  \A r \in requests : r.slot # at[t]
  <1>1. at[t] \in Slots /\ usable[at[t]]
    BY Zenon DEF IInv, GuardInv, Holding
  <1> SUFFICES ASSUME NEW r \in requests, r.slot = at[t] PROVE FALSE
    BY Zenon
  <1>2. CASE r.task = NoTask
    <2>1. PICK u \in Tasks : outstanding[u] /\ pc[u] = "drop" /\ at[u] = at[t]
      BY <1>1, <1>2, Zenon DEF IInv, RequestInv, OwnerInv
    <2> QED
      BY <2>1, GuardsDisjoint, Zenon DEF Holding
  <1>3. CASE r.task # NoTask
    <2>1. /\ r.task \in Tasks /\ pc[r.task] = "armed" /\ at[r.task] = at[t]
          /\ reply[r.task] = NoReply
      BY <1>3, Zenon DEF IInv, RequestInv, OwnerInv, TypeOK, Request
    <2> QED
      BY <2>1, GuardsDisjoint, Zenon DEF Holding
  <1> QED
    BY <1>2, <1>3, Zenon

LEMMA DispatchStep ==
  ASSUME IInv, TypeOK', NEW t \in Tasks, Dispatch(t)
  PROVE  WireInv'
  <1> DEFINE new == [task |-> t, slot |-> at[t], seq |-> seqid[at[t]]]
  <1>1. /\ requests' = requests \cup {new} /\ pc' = [pc EXCEPT ![t] = "armed"]
        /\ outstanding' = [outstanding EXCEPT ![t] = TRUE]
        /\ UNCHANGED <<at, usable, seqid, srvSeq, reply, ran>>
    BY SMTT(60) DEF Dispatch, slotVars, scanVars, Goto
  <1>2. pc[t] = "arm" /\ ~outstanding[t] /\ reply[t] = NoReply /\ t # NoTask
    BY TasksAssumption, Zenon DEF Dispatch, IInv, ArmInv
  <1>3. ArmInv'
    BY <1>1, <1>2, WireTypes, Zenon DEF IInv, ArmInv
  <1>4. \A r \in requests : OwnerInv(r) => OwnerInv(r)'
    BY <1>1, <1>2, Zenon DEF OwnerInv, IInv, TypeOK, TableTypeOK, Request
  <1>5. OwnerInv(new)'
    BY <1>1, <1>2, WireTypes, Zenon DEF OwnerInv, IInv
  <1>6. RequestInv'
    BY <1>1, <1>2, <1>4, <1>5, SlotIsFree DEF IInv, RequestInv
  <1>7. ReplyInv' /\ FreeInv'
    BY <1>1, <1>2, WireTypes, Zenon DEF IInv, ReplyInv, FreeInv
  <1> QED
    BY <1>3, <1>6, <1>7, Zenon DEF WireInv

\* Giving up an armed call: its request stays on the wire, disowned, until the
\* guard retires the slot.
LEMMA AbandonStep ==
  ASSUME IInv, TypeOK', NEW t \in Tasks, pc[t] \in {"armed", "settle"}, Abandon(t),
         pc' = [pc EXCEPT ![t] = "drop"],
         UNCHANGED <<at, usable, seqid, outstanding, srvSeq, ran>>
  PROVE  WireInv'
  <1>1. reply' = [reply EXCEPT ![t] = NoReply]
    BY SMTT(60) DEF Abandon
  <1>2. ArmInv'
    BY <1>1, WireTypes, Zenon DEF IInv, ArmInv
  <1>3. ASSUME NEW r \in requests'
        PROVE  r.seq = Succ(srvSeq'[r.slot]) /\ OwnerInv(r)'
    <2>1. PICK q \in requests :
            /\ r.slot = q.slot /\ r.seq = q.seq
            /\ q.task = t => r.task = NoTask
            /\ q.task # t => r = q
      BY <1>3, AbandonRequests, Zenon DEF IInv, TypeOK
    <2>2. q.seq = Succ(srvSeq[q.slot]) /\ OwnerInv(q) /\ q.task \in Tasks \cup {NoTask}
      BY Zenon DEF IInv, RequestInv, TypeOK, Request
    <2>3. CASE q.task = t
      BY SMTT(60), <2>1, <2>2, <2>3, TasksAssumption, WireTypes DEF OwnerInv, IInv, ArmInv
    <2>4. CASE q.task # t
      BY <1>1, <2>1, <2>2, <2>4, WireTypes, Zenon DEF OwnerInv, IInv
    <2> QED
      BY <2>1, <2>2, <2>3, <2>4, Zenon
  <1>4. RequestInv'
    <2>1. \A r, q \in requests' : r.slot = q.slot => r = q
      BY SMTT(60) DEF Abandon, IInv, RequestInv, TypeOK, Request
    <2> QED
      BY <1>3, <2>1, Zenon DEF RequestInv
  <1>5. ReplyInv' /\ FreeInv'
    <2>1. ReplyInv'
      BY <1>1, WireTypes, Zenon DEF IInv, ReplyInv, NoReply
    <2>2. FreeInv'
      BY SMTT(60) DEF IInv, FreeInv
    <2> QED
      BY <2>1, <2>2, Zenon
  <1> QED
    BY <1>2, <1>4, <1>5, Zenon DEF WireInv

LEMMA ReceiveOkStep ==
  ASSUME IInv, TypeOK', NEW t \in Tasks, ReceiveOk(t)
  PROVE  WireInv'
  <1>1. /\ pc' = [pc EXCEPT ![t] = "drop"]
        /\ seqid' = [seqid EXCEPT ![at[t]] = Succ(@)]
        /\ outstanding' = [outstanding EXCEPT ![t] = FALSE]
        /\ reply' = [reply EXCEPT ![t] = NoReply]
        /\ UNCHANGED <<at, usable, requests, srvSeq, ran>>
    <2>1. /\ pc' = [pc EXCEPT ![t] = "drop"]
          /\ seqid' = [seqid EXCEPT ![at[t]] = Succ(@)]
          /\ outstanding' = [outstanding EXCEPT ![t] = FALSE]
          /\ reply' = [reply EXCEPT ![t] = NoReply]
      BY Zenon DEF ReceiveOk, Goto
    <2>2. UNCHANGED <<scanVars, usable, requests, srvSeq, ran>>
      BY Zenon DEF ReceiveOk
    <2> QED
      BY <2>1, <2>2, Zenon DEF scanVars
  <1>2. pc[t] = "armed" /\ reply[t].kind = "ok" /\ reply[t] # NoReply
    <2>1. pc[t] = "armed" /\ reply[t].kind = "ok"
      BY Zenon DEF ReceiveOk
    <2>2. NoReply.kind # "ok"
      BY DEF NoReply
    <2> QED
      BY <2>1, <2>2, Zenon
  <1>3. at[t] \in Slots /\ seqid[at[t]] = srvSeq[at[t]]
    BY <1>2, Zenon DEF IInv, GuardInv, Holding, ReplyInv
  <1>4. \A r \in requests : r.slot # at[t]
    BY <1>2, ReplyEndsRequest, Zenon
  <1>5. \A u \in Tasks \ {t} : pc[u] = "armed" => at[u] # at[t]
    BY <1>2, GuardsDisjoint, Zenon DEF Holding
  <1>6. ArmInv'
    BY <1>1, <1>2, WireTypes, Zenon DEF IInv, ArmInv
  <1>7. ASSUME NEW r \in requests PROVE OwnerInv(r)'
    <2>1. OwnerInv(r) /\ r.slot # at[t] /\ r.slot \in Slots /\ r.task \in Tasks \cup {NoTask}
      BY <1>4, Zenon DEF IInv, RequestInv, TypeOK, Request
    <2> QED
      BY <1>1, <1>2, <2>1, WireTypes, Zenon DEF OwnerInv, IInv
  <1>8. RequestInv'
    BY <1>1, <1>7, Zenon DEF IInv, RequestInv
  <1>9. ReplyInv'
    BY SMTT(60), <1>1, <1>5, WireTypes DEF IInv, ReplyInv, ArmInv, NoReply
  <1>10. FreeInv'
    BY <1>1, <1>3, WireTypes, Zenon DEF IInv, FreeInv
  <1> QED
    BY <1>6, <1>8, <1>9, <1>10, Zenon DEF WireInv
-----------------------------------------------------------------------------
LEMMA DropGuardStep ==
  ASSUME IInv, TypeOK', NEW t \in Tasks, DropGuard(t), UNCHANGED netVars
  PROVE  WireInv'
  <1>1. /\ pc[t] = "drop" /\ pc' = [pc EXCEPT ![t] = "unlock"]
        /\ outstanding' = [outstanding EXCEPT ![t] = FALSE]
        /\ UNCHANGED <<at, seqid, requests, reply, srvSeq, ran>>
    BY Zenon DEF DropGuard, Goto, scanVars, netVars
  <1>2. at[t] \in Slots
    BY <1>1, Zenon DEF IInv, GuardInv, Holding
  <1>3. CASE ~outstanding[t]
    <2>1. usable' = usable /\ outstanding' = outstanding
      BY <1>1, <1>3, WireTypes, Zenon DEF DropGuard, IInv
    <2> QED
      BY <1>1, <1>3, <2>1, QuietStep, WireTypes, Zenon DEF WireInv, IInv
  <1>4. CASE outstanding[t]
    <2>1. usable' = [usable EXCEPT ![at[t]] = FALSE]
      BY <1>1, <1>2, <1>4, Zenon DEF DropGuard, MarkUnusable, IInv, GuardInv, Holding
    <2>2. ArmInv'
      BY <1>1, WireTypes, Zenon DEF IInv, ArmInv
    <2>3. ASSUME NEW r \in requests PROVE OwnerInv(r)'
      <3>1. OwnerInv(r) /\ r.slot \in Slots /\ r.task \in Tasks \cup {NoTask}
        BY SMTT(60) DEF IInv, RequestInv, TypeOK, Request
      <3>2. CASE r.task = NoTask
        <4>1. CASE r.slot = at[t] \/ ~usable[r.slot]
          BY <1>2, <2>1, <3>1, <3>2, <4>1, WireTypes, Zenon DEF OwnerInv, IInv
        <4>2. CASE r.slot # at[t] /\ usable[r.slot]
          BY <1>1, <3>1, <3>2, <4>2, WireTypes, Zenon DEF OwnerInv, IInv
        <4> QED
          BY <4>1, <4>2, Zenon
      <3>3. CASE r.task # NoTask
        BY <1>1, <3>1, <3>3, WireTypes, Zenon DEF OwnerInv, IInv
      <3> QED
        BY <3>2, <3>3, Zenon
    <2>4. RequestInv'
      BY <1>1, <2>3, Zenon DEF IInv, RequestInv
    <2>5. ReplyInv' /\ FreeInv'
      BY <1>1, <1>2, <2>1, WireTypes, Zenon DEF IInv, ReplyInv, FreeInv
    <2> QED
      BY <2>2, <2>4, <2>5, Zenon DEF WireInv
  <1> QED
    BY <1>3, <1>4, Zenon

LEMMA ServerStep ==
  ASSUME IInv, TypeOK', NEW r \in requests,
         ServerExecute(r) \/ ServerReject(r) \/ Lose(r)
  PROVE  WireInv'
  <1>1. /\ UNCHANGED <<pc, at, usable, seqid, outstanding>>
        /\ requests' = requests \ {r}
    BY Zenon DEF ServerExecute, ServerReject, Lose, Deliver, tableVars, slotVars, scanVars, sendVars
  <1>2. /\ r.task \in Tasks \cup {NoTask} /\ r.slot \in Slots
        /\ r.seq = Succ(srvSeq[r.slot]) /\ OwnerInv(r)
        /\ \A q \in requests : q # r => q.slot # r.slot
    BY SMTT(60) DEF IInv, RequestInv, TypeOK, Request
  <1>3. /\ \A s \in Slots : s # r.slot => srvSeq'[s] = srvSeq[s]
        /\ srvSeq'[r.slot] \in {srvSeq[r.slot], r.seq}
    BY <1>2, Zenon DEF ServerExecute, ServerReject, Lose, IInv, TypeOK
  <1>4. \A u \in Tasks : u # r.task => reply'[u] = reply[u] /\ ran'[u] = ran[u]
    BY <1>2, Zenon DEF ServerExecute, ServerReject, Lose, Deliver, IInv, TypeOK
  <1>5. ArmInv'
    BY SMTT(60), <1>1, <1>2, <1>4, TasksAssumption DEF IInv, ArmInv, OwnerInv
  <1>6. ASSUME NEW q \in requests, q # r
        PROVE  q.seq = Succ(srvSeq'[q.slot]) /\ OwnerInv(q)'
    <2>1. /\ q.task \in Tasks \cup {NoTask} /\ q.slot \in Slots /\ q.slot # r.slot
          /\ q.seq = Succ(srvSeq[q.slot]) /\ OwnerInv(q)
      BY <1>2, <1>6, Zenon DEF IInv, RequestInv, TypeOK, Request
    <2>2. q.task # NoTask => q.task # r.task
      BY <1>2, <2>1, Zenon DEF OwnerInv
    <2> QED
      BY <1>1, <1>3, <1>4, <2>1, <2>2, Zenon DEF OwnerInv
  <1>7. RequestInv'
    BY <1>1, <1>6, Zenon DEF IInv, RequestInv
  <1>8. ReplyInv'
    <2>1. ASSUME NEW u \in Tasks, u # r.task, reply[u].kind = "ok"
          PROVE  seqid[at[u]] = srvSeq'[at[u]] /\ ran'[u]
      <3>1. pc[u] = "armed" /\ reply[u] # NoReply
        BY <2>1 DEF IInv, ArmInv, NoReply
      <3>2. at[u] # r.slot /\ at[u] \in Slots
        BY <3>1, ReplyEndsRequest, Zenon DEF IInv, GuardInv, Holding
      <3> QED
        BY <1>3, <1>4, <2>1, <3>2, Zenon DEF IInv, ReplyInv
    <2>2. ASSUME r.task \in Tasks, reply'[r.task].kind = "ok"
          PROVE  seqid[at[r.task]] = srvSeq'[at[r.task]] /\ ran'[r.task]
      <3>1. r.task # NoTask /\ reply[r.task] = NoReply /\ at[r.task] = r.slot
            /\ seqid[r.slot] = r.seq
        BY <1>2, <2>2, TasksAssumption, Zenon DEF OwnerInv
      <3>2. ServerExecute(r)
        BY SMTT(60), <2>2, <3>1 DEF ServerReject, Lose, Deliver, BadReply, NoReply, IInv, TypeOK
      <3> QED
        BY <1>2, <2>2, <3>1, <3>2, Zenon DEF ServerExecute, IInv, TypeOK
    <2> QED
      BY <1>1, <1>4, <2>1, <2>2, Zenon DEF ReplyInv
  <1>9. FreeInv'
    <2>1. \/ ~usable[r.slot]
          \/ \E t \in Tasks : outstanding[t] /\ at[t] = r.slot
      BY <1>2, Zenon DEF OwnerInv, IInv, ArmInv
    <2> QED
      BY <1>1, <1>3, <2>1, Zenon DEF IInv, FreeInv
  <1> QED
    BY <1>5, <1>7, <1>8, <1>9, Zenon DEF WireInv

LEMMA WireStep ==
  ASSUME IInv, [Next]_vars, TypeOK'
  PROVE  WireInv'
  <1>1. /\ pc \in [Tasks -> PCs] /\ at \in [Tasks -> 0 .. SlotCount]
        /\ ran \in [Tasks -> BOOLEAN] /\ ArmInv
    BY Zenon DEF IInv, TypeOK, TableTypeOK
  <1>2. ASSUME NEW t \in Tasks, Start(t) PROVE WireInv'
    <2>1. /\ pc[t] # "armed" /\ ~outstanding[t] /\ pc'[t] # "armed"
          /\ UNCHANGED <<at, seqid, usable, outstanding, requests, reply, srvSeq>>
      BY <1>1, <1>2, Zenon DEF Start, Goto, ArmInv, slotVars, scanVars, sendVars
    <2>2. \A u \in Tasks \ {t} : pc'[u] = pc[u] /\ ran'[u] = ran[u]
      BY <1>1, <1>2, Zenon DEF Start, Goto
    <2> QED
      BY <2>1, <2>2, QuietStep, Zenon DEF WireInv
  <1>3. ASSUME NEW t \in Tasks, AcquireSlot(t) PROVE WireInv'
    <2>1. /\ pc[t] \in Acquiring /\ pc'[t] # "armed"
          /\ \A u \in Tasks \ {t} : pc'[u] = pc[u] /\ at'[u] = at[u]
          /\ UNCHANGED <<seqid, usable, outstanding>>
      BY <1>3, AcquireEffect, Zenon DEF IInv
    <2>2. pc[t] # "armed" /\ ~outstanding[t]
      BY <1>1, <2>1, Zenon DEF Acquiring, ArmInv
    <2>3. UNCHANGED <<requests, reply, srvSeq, ran>>
      BY <1>3, Zenon DEF AcquireSlot, netVars
    <2> QED
      BY <2>1, <2>2, <2>3, QuietStep, Zenon DEF WireInv
  <1>4. ASSUME NEW t \in Tasks, CheckStatus(t) \/ NotSent(t) PROVE WireInv'
    <2>1. /\ pc[t] # "armed" /\ ~outstanding[t] /\ pc'[t] # "armed"
          /\ UNCHANGED <<at, seqid, usable, outstanding, requests, reply, srvSeq, ran>>
      BY <1>1, <1>4, Zenon
      DEF CheckStatus, NotSent, Goto, ArmInv, slotVars, scanVars, sendVars, netVars
    <2>2. \A u \in Tasks \ {t} : pc'[u] = pc[u]
      BY <1>1, <1>4, Zenon DEF CheckStatus, NotSent, Goto
    <2> QED
      BY <2>1, <2>2, QuietStep, Zenon DEF WireInv
  <1>5. ASSUME NEW t \in Tasks, Dispatch(t) PROVE WireInv'
    BY <1>5, DispatchStep, Zenon
  <1>6. ASSUME NEW t \in Tasks, RpcLost(t) \/ ReceiveBad(t) PROVE WireInv'
    <2>1. /\ pc[t] = "armed" /\ pc' = [pc EXCEPT ![t] = "drop"] /\ Abandon(t)
          /\ UNCHANGED <<at, usable, seqid, outstanding, srvSeq, ran>>
      <3>1. CASE RpcLost(t)
        BY <3>1, Zenon DEF RpcLost, FailArmed, Goto, slotVars, scanVars, sendVars
      <3>2. CASE ReceiveBad(t)
        BY <3>2, Zenon DEF ReceiveBad, FailArmed, Goto, slotVars, scanVars, sendVars
      <3> QED
        BY <1>6, <3>1, <3>2, Zenon
    <2> QED
      BY ZenonT(60), <2>1, AbandonStep
  <1>7. ASSUME NEW t \in Tasks, ReceiveOk(t) PROVE WireInv'
    BY <1>7, ReceiveOkStep, Zenon
  <1>8. ASSUME NEW t \in Tasks, ReleaseSlot(t) PROVE WireInv'
    <2>1. CASE DropGuard(t)
      BY <1>8, <2>1, DropGuardStep, Zenon DEF ReleaseSlot
    <2>2. CASE DropMutexGuard(t) \/ DropRelease(t)
      <3>1. /\ pc[t] # "armed" /\ ~outstanding[t]
            /\ UNCHANGED <<seqid, usable, outstanding, requests, reply, srvSeq, ran>>
        BY <1>1, <1>8, <2>2, Zenon
        DEF ReleaseSlot, DropMutexGuard, DropRelease, ArmInv, sendVars, netVars
      <3>2. then[t] \in {"idle", "permit"}
        BY Zenon DEF IInv, TypeOK, TableTypeOK
      <3>3. pc'[t] # "armed" /\ \A u \in Tasks \ {t} : pc'[u] = pc[u] /\ at'[u] = at[u]
        BY <1>1, <2>2, <3>2, Zenon DEF DropMutexGuard, DropRelease, Goto, scanVars
      <3>4. \A u \in Tasks \ {t} : pc'[u] = pc[u] /\ at'[u] = at[u] /\ ran'[u] = ran[u]
        BY <3>1, <3>3, Zenon
      <3> QED
        BY ZenonT(60), <3>1, <3>3, <3>4, QuietStep DEF WireInv
    <2> QED
      BY <1>8, <2>1, <2>2, Zenon DEF ReleaseSlot
  <1>9. ASSUME NEW t \in Tasks, Cancel(t) PROVE WireInv'
    <2>1. UNCHANGED <<at, seqid, usable, outstanding, srvSeq, ran>>
      BY <1>9, Zenon DEF Cancel, slotVars, scanVars, sendVars
    <2>2. CASE pc[t] \in {"permit", "wait"}
      <3>1. pc' = [pc EXCEPT ![t] = "idle"] /\ UNCHANGED <<requests, reply>>
        BY <1>9, <2>2, Zenon DEF Cancel, Goto
      <3>2. ~outstanding[t]
        BY <1>1, <2>2, Zenon DEF ArmInv
      <3> QED
        BY <1>1, <2>1, <2>2, <3>1, <3>2, QuietStep, Zenon DEF WireInv
    <2>3. CASE pc[t] \in {"settle", "armed"}
      <3>1. pc' = [pc EXCEPT ![t] = "drop"] /\ Abandon(t)
        BY <1>9, <2>3, Zenon DEF Cancel, Goto
      <3> QED
        BY ZenonT(60), <2>1, <2>3, <3>1, AbandonStep
    <2> QED
      BY <1>9, <2>2, <2>3, Zenon DEF Cancel
  <1>10. ASSUME NEW r \in requests, ServerExecute(r) \/ ServerReject(r) \/ Lose(r)
         PROVE  WireInv'
    BY <1>10, ServerStep, Zenon
  <1>11. CASE UNCHANGED vars
    BY <1>11 DEF vars, tableVars, slotVars, scanVars, sendVars, netVars, IInv, WireInv,
                 ArmInv, RequestInv, OwnerInv, ReplyInv, FreeInv
  <1> QED
    BY <1>2, <1>3, <1>4, <1>5, <1>6, <1>7, <1>8, <1>9, <1>10, <1>11, Zenon
    DEF Next, TaskStep, Quiescent
-----------------------------------------------------------------------------
LEMMA InitIInv == Init => IInv
  <1> SUFFICES ASSUME Init PROVE IInv
    BY Zenon
  <1> USE SlotCountAssumption, SeqModAssumption, MaxCallsAssumption DEF Init, TableInit
  <1>1. TypeOK
    <2>1. limits \in Limits
      BY SlotsType, Zenon DEF Limits
    <2>2. seqid \in [Slots -> 0 .. SeqMod - 1] /\ srvSeq \in [Slots -> 0 .. SeqMod - 1]
      OBVIOUS
    <2>3. /\ closed \in BOOLEAN /\ fatal \in BOOLEAN
          /\ usable \in [Slots -> BOOLEAN] /\ active \in [Slots -> BOOLEAN]
          /\ sawLocked \in [Tasks -> BOOLEAN] /\ outstanding \in [Tasks -> BOOLEAN]
          /\ retire \in [Tasks -> BOOLEAN] /\ ran \in [Tasks -> BOOLEAN]
      BY ZenonT(60)
    <2>4. /\ lock \in [Slots -> Tasks \cup {NoTask}] /\ permits \in Int /\ live \in Int
          /\ at \in [Tasks -> 0 .. SlotCount] /\ upto \in [Tasks -> Slots]
          /\ seen \in [Tasks -> Limits] /\ high \in [Tasks -> Slots]
          /\ calls \in [Tasks -> 0 .. MaxCalls] /\ waiting \in SUBSET Tasks
      BY SlotsType
    <2>5. /\ pc \in [Tasks -> PCs] /\ then \in [Tasks -> {"idle", "permit"}]
          /\ result \in [Tasks -> Results] /\ requests \in SUBSET Request
          /\ reply \in [Tasks -> {NoReply, BadReply} \cup OkReply]
      BY Zenon DEF PCs, Results
    <2> QED
      BY <2>1, <2>2, <2>3, <2>4, <2>5, Zenon DEF TypeOK, TableTypeOK
  <1>2. GuardInv /\ ArmInv /\ RequestInv /\ ReplyInv /\ ResultInv
    BY Zenon DEF GuardInv, ArmInv, RequestInv, ReplyInv, ResultInv, Holding, NoReply,
           Acquiring, Dropping
  <1>3. FreeInv
    BY DEF FreeInv, Succ
  <1> QED
    BY <1>1, <1>2, <1>3, Zenon DEF IInv

\* The inductive invariant behind both theorems: each armed guard, request on
\* the wire and delivered reply of compound_raw_once account for one another.
THEOREM Inductive == Spec => []IInv
  <1>1. Init => IInv
    BY InitIInv, Zenon
  <1>2. IInv /\ [Next]_vars => IInv'
    <2> SUFFICES ASSUME IInv, [Next]_vars PROVE IInv'
      BY Zenon
    <2>1. TypeOK'
      BY TypeStep, Zenon DEF IInv
    <2> QED
      BY <2>1, GuardStep, ResultStep, WireStep, Zenon DEF IInv, WireInv
  <1> QED
    BY <1>1, <1>2, PTL DEF Spec

\* Every step of Session keeps every variable within its type, the limits
\* that update_limits stores within the slot table included.
THEOREM TypeSafety == Spec => []TypeOK
  <1>1. IInv => TypeOK
    BY Zenon DEF IInv
  <1> QED
    BY <1>1, Inductive, PTL

\* The client and the server agree on every slot's sequence ids: retiring a
\* slot on an uncertain outcome and advancing it on a matching SEQUENCE result
\* suffices, for any number of slots, tasks and calls and any wrap-around.
THEOREM SequenceSafety == Spec => []SequenceAgreement
  <1>1. IInv => SequenceAgreement
    BY Zenon DEF IInv, RequestInv, FreeInv, SequenceAgreement
  <1> QED
    BY <1>1, Inductive, PTL

\* "ok" and request_not_sent tell the caller the truth about the server.
THEOREM OutcomeSafety == Spec => []OutcomeTruthful
  <1>1. IInv => OutcomeTruthful
    <2> SUFFICES ASSUME IInv, NEW t \in Tasks
                 PROVE  /\ result[t] = "ok" => ran[t]
                        /\ result[t] = "not_sent" =>
                             ~ran[t] /\ \A r \in requests : r.task # t
      BY Zenon DEF OutcomeTruthful
    <2>1. ASSUME NEW r \in requests, r.task = t PROVE result[t] = "none"
      BY <2>1, TasksAssumption, Zenon DEF IInv, RequestInv, OwnerInv, ResultInv
    <2> QED
      BY <2>1, Zenon DEF IInv, ResultInv
  <1> QED
    BY <1>1, Inductive, PTL

-----------------------------------------------------------------------------
(* The permits of the semaphore *)

Usable == {s \in Slots : usable[s]}
Holders == {t \in Tasks : HoldsPermit(t)}
Retirees == {t \in Tasks : retire[t]}

\* Only a guard that has been dropped forgets its permit; finitely many tasks hold
\* one, however many there are.
PermitInv ==
  /\ PermitAccounting
  /\ \A t \in Tasks : retire[t] => pc[t] \in {"unlock", "release"}
  /\ IsFiniteSet(Usable) /\ IsFiniteSet(Holders) /\ IsFiniteSet(Retirees)

\* A step of t that neither takes nor returns a permit, and retires no slot.
KeepsPermit(t) ==
  /\ UNCHANGED <<permits, live, closed, usable, retire>>
  /\ \A u \in Tasks \ {t} : pc'[u] = pc[u]
  /\ HoldsPermit(t)' <=> HoldsPermit(t)
  /\ pc[t] \in {"unlock", "release"} => pc'[t] = "release"

LEMMA KeepsPermitStep ==
  ASSUME PermitInv, NEW t \in Tasks, KeepsPermit(t)
  PROVE  PermitInv'
  <1>1. Holders' = Holders
    <2>1. \A u \in Tasks : HoldsPermit(u)' <=> HoldsPermit(u)
      BY Zenon DEF KeepsPermit, HoldsPermit
    <2> QED
      BY <2>1, Zenon DEF Holders
  <1>2. Usable' = Usable /\ Retirees' = Retirees
    BY Zenon DEF Usable, Retirees, KeepsPermit
  <1>3. \A u \in Tasks : retire'[u] => pc'[u] \in {"unlock", "release"}
    BY Zenon DEF PermitInv, KeepsPermit
  <1>4. PermitAccounting'
    BY <1>1, <1>2, Zenon DEF PermitInv, PermitAccounting, KeepsPermit, Holders, Usable, Retirees
  <1> QED
    BY <1>1, <1>2, <1>3, <1>4, Zenon DEF PermitInv

LEMMA PermitCounts ==
  ASSUME PermitInv
  PROVE  /\ Cardinality(Usable) \in Nat /\ Cardinality(Holders) \in Nat
         /\ Cardinality(Retirees) \in Nat
         /\ live = Cardinality(Usable) /\ (closed <=> live = 0)
         /\ permits + Cardinality(Holders) = live + Cardinality(Retirees)
  BY FS_CardinalityType, Zenon DEF PermitInv, PermitAccounting, Usable, Holders, Retirees

\* t takes a permit, or returns or forgets it.
LEMMA TakePermitStep ==
  ASSUME TypeOK, PermitInv, NEW t \in Tasks, TakePermit(t)
  PROVE  PermitInv'
  <1>1. /\ pc \in [Tasks -> PCs] /\ pc[t] = "permit" /\ pc' = [pc EXCEPT ![t] = "scan"]
        /\ permits' = permits - 1 /\ permits \in Int /\ live \in Int
        /\ UNCHANGED <<usable, retire, live, closed>>
    BY Zenon DEF TakePermit, TypeOK, TableTypeOK, Goto, slotVars, sendVars
  <1>2. t \notin Holders /\ Holders' = Holders \cup {t}
    BY <1>1, Zenon DEF Holders, HoldsPermit, Holding
  <1>3. IsFiniteSet(Holders') /\ Cardinality(Holders') = Cardinality(Holders) + 1
    BY <1>2, FS_AddElement, Zenon DEF PermitInv
  <1>4. Usable' = Usable /\ Retirees' = Retirees
    BY <1>1, Zenon DEF Usable, Retirees
  <1>5. permits' + Cardinality(Holders') = live' + Cardinality(Retirees')
    <2>1. permits - 1 + (Cardinality(Holders) + 1) = permits + Cardinality(Holders)
      BY <1>1, PermitCounts
    <2> QED
      BY <1>1, <1>3, <1>4, <2>1, PermitCounts, Zenon
  <1>6. PermitAccounting'
    BY <1>1, <1>4, <1>5, PermitCounts, Zenon DEF PermitAccounting, Usable, Holders, Retirees
  <1>7. \A u \in Tasks : retire'[u] => pc'[u] \in {"unlock", "release"}
    BY <1>1, Zenon DEF PermitInv
  <1> QED
    BY <1>3, <1>4, <1>6, <1>7, Zenon DEF PermitInv

LEMMA ReturnPermitStep ==
  ASSUME TypeOK, PermitInv, NEW t \in Tasks, pc[t] = "scan", ~HoldsPermit(t)',
         \A u \in Tasks \ {t} : pc'[u] = pc[u], permits' = permits + 1,
         UNCHANGED <<usable, retire, live, closed>>
  PROVE  PermitInv'
  <1>1. t \in Holders /\ Holders' = Holders \ {t}
    BY Zenon DEF Holders, HoldsPermit
  <1>2. IsFiniteSet(Holders') /\ Cardinality(Holders') = Cardinality(Holders) - 1
    BY <1>1, FS_RemoveElement, Zenon DEF PermitInv
  <1>3. Usable' = Usable /\ Retirees' = Retirees
    BY Zenon DEF Usable, Retirees
  <1>4. permits' + Cardinality(Holders') = live' + Cardinality(Retirees')
    <2>1. permits \in Int
      BY Zenon DEF TypeOK, TableTypeOK
    <2>2. permits + 1 + (Cardinality(Holders) - 1) = permits + Cardinality(Holders)
      BY <2>1, PermitCounts
    <2> QED
      BY <1>2, <1>3, <2>2, PermitCounts, Zenon
  <1>5. PermitAccounting'
    BY <1>3, <1>4, PermitCounts, Zenon DEF PermitAccounting, Usable, Holders, Retirees
  <1>6. \A u \in Tasks : retire'[u] => pc'[u] \in {"unlock", "release"}
    BY Zenon DEF PermitInv
  <1> QED
    BY <1>2, <1>3, <1>5, <1>6, Zenon DEF PermitInv

\* mark_unusable: the slot is gone, its permit is owed.
LEMMA DropGuardPermits ==
  ASSUME IInv, PermitInv, NEW t \in Tasks, DropGuard(t)
  PROVE  PermitInv'
  <1>1. /\ pc \in [Tasks -> PCs] /\ pc[t] = "drop" /\ pc' = [pc EXCEPT ![t] = "unlock"]
        /\ permits' = permits /\ permits \in Int
        /\ retire \in [Tasks -> BOOLEAN] /\ usable \in [Slots -> BOOLEAN]
    BY Zenon DEF DropGuard, IInv, TypeOK, TableTypeOK, Goto
  <1>2. \A u \in Tasks : HoldsPermit(u)' <=> HoldsPermit(u)
    BY <1>1, Zenon DEF HoldsPermit, Holding
  <1>3. Holders' = Holders
    BY <1>2, Zenon DEF Holders
  <1>4. CASE outstanding[t] /\ usable[at[t]]
    <2>1. /\ usable' = [usable EXCEPT ![at[t]] = FALSE] /\ retire' = [retire EXCEPT ![t] = TRUE]
          /\ live' = live - 1 /\ closed' = (closed \/ live = 1) /\ at[t] \in Slots
      BY <1>1, <1>4, Zenon DEF DropGuard, MarkUnusable, IInv, GuardInv, Holding
    <2>2. at[t] \in Usable /\ Usable' = Usable \ {at[t]}
      BY <1>1, <1>4, <2>1, Zenon DEF Usable
    <2>3. t \notin Retirees /\ Retirees' = Retirees \cup {t}
      BY <1>1, <2>1, Zenon DEF Retirees, PermitInv
    <2>4. IsFiniteSet(Usable') /\ Cardinality(Usable') = Cardinality(Usable) - 1
      BY <2>2, FS_RemoveElement, Zenon DEF PermitInv
    <2>5. IsFiniteSet(Retirees') /\ Cardinality(Retirees') = Cardinality(Retirees) + 1
      BY <2>3, FS_AddElement, Zenon DEF PermitInv
    <2>6. Cardinality(Usable) # 0
      BY <2>2, FS_EmptySet, Zenon DEF PermitInv
    <2>7. /\ live' = Cardinality(Usable') /\ (closed' <=> live' = 0)
          /\ permits' + Cardinality(Holders') = live' + Cardinality(Retirees')
      <3>1. live = Cardinality(Usable) /\ live # 0 /\ ~closed
        BY <2>6, PermitCounts, Zenon
      <3>2. live - 1 = 0 <=> live = 1
        BY <3>1, PermitCounts
      <3>3. closed' <=> live' = 0
        BY <2>1, <3>1, <3>2, Zenon
      <3>4. /\ live' = Cardinality(Usable')
            /\ permits' + Cardinality(Holders') = live' + Cardinality(Retirees')
        BY <1>1, <1>3, <2>1, <2>4, <2>5, PermitCounts
      <3> QED
        BY <3>3, <3>4, Zenon
    <2>8. PermitAccounting'
      BY <2>7, Zenon DEF PermitAccounting, Usable, Holders, Retirees
    <2>9. \A u \in Tasks : retire'[u] => pc'[u] \in {"unlock", "release"}
      BY <1>1, <2>1, Zenon DEF PermitInv
    <2> QED
      BY <1>3, <2>4, <2>5, <2>8, <2>9, Zenon DEF PermitInv
  <1>5. CASE ~(outstanding[t] /\ usable[at[t]])
    <2>1. UNCHANGED <<usable, retire, live, closed>>
      BY <1>5, Zenon DEF DropGuard, MarkUnusable
    <2>2. KeepsPermit(t)
      BY <1>1, <1>2, <2>1, Zenon DEF KeepsPermit
    <2> QED
      BY <2>2, KeepsPermitStep, Zenon
  <1> QED
    BY <1>4, <1>5, Zenon

\* SlotRelease::drop: the permit goes back, or is forgotten.
LEMMA DropReleasePermits ==
  ASSUME TypeOK, PermitInv, NEW t \in Tasks, DropRelease(t)
  PROVE  PermitInv'
  <1>1. /\ pc \in [Tasks -> PCs] /\ pc[t] = "release" /\ pc' = [pc EXCEPT ![t] = then[t]]
        /\ then[t] \in {"idle", "permit"} /\ permits \in Int /\ live \in Int
        /\ permits' = (IF retire[t] THEN permits ELSE permits + 1)
        /\ retire \in [Tasks -> BOOLEAN] /\ retire' = [retire EXCEPT ![t] = FALSE]
        /\ UNCHANGED <<usable, live, closed>>
    BY Zenon DEF DropRelease, TypeOK, TableTypeOK, Goto, PermitsAfter
  <1>2. t \in Holders /\ Holders' = Holders \ {t}
    BY <1>1, Zenon DEF Holders, HoldsPermit, Holding
  <1>3. Retirees' = Retirees \ {t} /\ (t \in Retirees <=> retire[t]) /\ Usable' = Usable
    BY <1>1, Zenon DEF Retirees, Usable
  <1>4. IsFiniteSet(Holders') /\ Cardinality(Holders') = Cardinality(Holders) - 1
    BY <1>2, FS_RemoveElement, Zenon DEF PermitInv
  <1>5. /\ IsFiniteSet(Retirees')
        /\ Cardinality(Retirees')
             = IF t \in Retirees THEN Cardinality(Retirees) - 1 ELSE Cardinality(Retirees)
    BY <1>3, FS_RemoveElement, Zenon DEF PermitInv
  <1>6. permits' + Cardinality(Holders') = live' + Cardinality(Retirees')
    BY <1>1, <1>3, <1>4, <1>5, PermitCounts
  <1>7. PermitAccounting'
    BY <1>1, <1>3, <1>6, PermitCounts, Zenon DEF PermitAccounting, Usable, Holders, Retirees
  <1>8. \A u \in Tasks : retire'[u] => pc'[u] \in {"unlock", "release"}
    BY <1>1, Zenon DEF PermitInv
  <1> QED
    BY <1>3, <1>4, <1>5, <1>7, <1>8, Zenon DEF PermitInv

LEMMA PermitNext ==
  ASSUME IInv, PermitInv, [Next]_vars
  PROVE  PermitInv'
  <1>1. TypeOK /\ pc \in [Tasks -> PCs] /\ GuardInv
    BY Zenon DEF IInv, TypeOK, TableTypeOK
  <1>2. ASSUME NEW t \in Tasks, NEW label, pc' = [pc EXCEPT ![t] = label],
               pc[t] \notin {"unlock", "release"},
               pc[t] \in Holding \cup {"scan", "peek"} <=> label \in Holding \cup {"scan", "peek"},
               label \notin {"unlock", "release"},
               UNCHANGED <<permits, live, closed, usable, retire>>
        PROVE  PermitInv'
    <2>1. pc'[t] = label /\ \A u \in Tasks \ {t} : pc'[u] = pc[u]
      BY <1>1, <1>2, Zenon
    <2>2. KeepsPermit(t)
      BY <1>2, <2>1, Zenon DEF KeepsPermit, HoldsPermit
    <2> QED
      BY <2>2, KeepsPermitStep, Zenon
  <1>3. ASSUME UNCHANGED <<pc, permits, live, closed, usable, retire>> PROVE PermitInv'
    BY <1>3, Zenon DEF PermitInv, PermitAccounting, Usable, Holders, Retirees, HoldsPermit
  <1>4. ASSUME NEW t \in Tasks, Start(t) PROVE PermitInv'
    BY <1>2, <1>3, <1>4, Zenon DEF Start, Goto, slotVars, semVars, sendVars, Holding
  <1>5. ASSUME NEW t \in Tasks, AcquireSlot(t) PROVE PermitInv'
    <2>1. CASE TakePermit(t)
      BY <1>1, <2>1, TakePermitStep, Zenon
    <2>2. CASE ScanEnd(t)
      <3>1. /\ pc[t] = "scan" /\ permits' = permits + 1
            /\ UNCHANGED <<usable, retire, live, closed>>
            /\ \A u \in Tasks \ {t} : pc'[u] = pc[u]
            /\ pc'[t] \in {"wait", "idle"}
        BY <1>1, <2>2, Zenon DEF ScanEnd, Goto, slotVars, sendVars
      <3>2. ~HoldsPermit(t)'
        BY <3>1, Zenon DEF HoldsPermit, Holding
      <3> QED
        BY <1>1, <3>1, <3>2, ReturnPermitStep, Zenon
    <2>3. CASE PermitRefused(t) \/ Wake(t)
      <3>1. /\ pc[t] \in {"permit", "wait"} /\ UNCHANGED <<permits, live, closed, usable, retire>>
            /\ \E label \in {"idle", "permit"} : pc' = [pc EXCEPT ![t] = label]
        BY <2>3, Zenon DEF PermitRefused, Wake, Goto, slotVars, semVars, sendVars
      <3> QED
        BY <1>2, <3>1, Zenon DEF Holding
    <2>4. CASE ScanTake(t) \/ ScanPeek(t) \/ PeekEnd(t)
      <3>1. /\ pc[t] \in {"scan", "peek"} /\ UNCHANGED <<permits, live, closed, usable, retire>>
            /\ \E label \in {"limits", "peek", "scan"} : pc' = [pc EXCEPT ![t] = label]
        BY <2>4, Zenon DEF ScanTake, ScanPeek, PeekEnd, Goto, semVars, sendVars
      <3> QED
        BY <1>2, <3>1, Zenon DEF Holding
    <2>5. CASE ScanLocked(t)
      BY <1>3, <2>5, Zenon DEF ScanLocked, slotVars, semVars, sendVars
    <2>6. CASE ReadLimits(t)
      <3>1. \E label \in {"drop", "active"} : pc' = [pc EXCEPT ![t] = label]
        BY <2>6, Zenon DEF ReadLimits, Goto
      <3> QED
        BY <1>2, <2>6, <3>1, Zenon DEF ReadLimits, slotVars, semVars, Holding
    <2>7. CASE ReadActive(t)
      <3>1. \E label \in {"check", "settle"} : pc' = [pc EXCEPT ![t] = label]
        BY <2>7, Zenon DEF ReadActive, Goto
      <3> QED
        BY <1>2, <2>7, <3>1, Zenon DEF ReadActive, slotVars, semVars, Holding
    <2>8. CASE Settle(t)
      BY <1>2, <2>8, Zenon DEF Settle, Goto, slotVars, semVars, sendVars, Holding
    <2> QED
      BY <1>5, <2>1, <2>2, <2>3, <2>4, <2>5, <2>6, <2>7, <2>8, Zenon DEF AcquireSlot
  <1>6. ASSUME NEW t \in Tasks, CheckStatus(t) \/ NotSent(t) PROVE PermitInv'
    <2>1. /\ pc[t] \in {"check", "arm"} /\ UNCHANGED <<permits, live, closed, usable, retire>>
          /\ \E label \in {"drop", "arm"} : pc' = [pc EXCEPT ![t] = label]
      BY <1>6, Zenon DEF CheckStatus, NotSent, Goto, slotVars, semVars, sendVars
    <2> QED
      BY <1>2, <2>1, Zenon DEF Holding
  <1>7. ASSUME NEW t \in Tasks, Dispatch(t) \/ RpcLost(t) \/ ReceiveBad(t) \/ ReceiveOk(t)
        PROVE  PermitInv'
    <2>1. /\ pc[t] \in {"arm", "armed"} /\ UNCHANGED <<permits, live, closed, usable, retire>>
          /\ \E label \in {"drop", "armed"} : pc' = [pc EXCEPT ![t] = label]
      BY <1>7, Zenon DEF Dispatch, RpcLost, ReceiveBad, ReceiveOk, FailArmed, Goto,
                         slotVars, semVars, sendVars
    <2> QED
      BY <1>2, <2>1, Zenon DEF Holding
  <1>8. ASSUME NEW t \in Tasks, ReleaseSlot(t) PROVE PermitInv'
    <2>1. CASE DropGuard(t)
      BY <2>1, DropGuardPermits, Zenon
    <2>2. CASE DropMutexGuard(t)
      <3>1. /\ pc[t] = "unlock" /\ pc'[t] = "release" /\ \A u \in Tasks \ {t} : pc'[u] = pc[u]
            /\ UNCHANGED <<permits, live, closed, usable, retire>>
        BY <1>1, <2>2, Zenon DEF DropMutexGuard, Goto, semVars, sendVars
      <3>2. KeepsPermit(t)
        BY <3>1, Zenon DEF KeepsPermit, HoldsPermit, Holding
      <3> QED
        BY <3>2, KeepsPermitStep, Zenon
    <2>3. CASE DropRelease(t)
      BY <1>1, <2>3, DropReleasePermits, Zenon
    <2> QED
      BY <1>8, <2>1, <2>2, <2>3, Zenon DEF ReleaseSlot
  <1>9. ASSUME NEW t \in Tasks, Cancel(t) PROVE PermitInv'
    <2>1. /\ UNCHANGED <<permits, live, closed, usable, retire>>
          /\ \/ pc[t] \in {"permit", "wait"} /\ pc' = [pc EXCEPT ![t] = "idle"]
             \/ pc[t] \in {"settle", "armed"} /\ pc' = [pc EXCEPT ![t] = "drop"]
      BY <1>9, Zenon DEF Cancel, Goto, slotVars, semVars, sendVars
    <2>2. CASE pc[t] \in {"permit", "wait"} /\ pc' = [pc EXCEPT ![t] = "idle"]
      BY <1>2, <2>1, <2>2, Zenon DEF Holding
    <2>3. CASE pc[t] \in {"settle", "armed"} /\ pc' = [pc EXCEPT ![t] = "drop"]
      BY <1>2, <2>1, <2>3, Zenon DEF Holding
    <2> QED
      BY <2>1, <2>2, <2>3, Zenon
  <1>10. ASSUME NEW r \in requests, ServerExecute(r) \/ ServerReject(r) \/ Lose(r)
         PROVE  PermitInv'
    <2>1. UNCHANGED tableVars
      BY <1>10, Zenon DEF ServerExecute, ServerReject, Lose
    <2> QED
      BY <1>3, <2>1, Zenon DEF tableVars, slotVars, semVars, sendVars
  <1>11. CASE UNCHANGED vars
    BY <1>3, <1>11, Zenon DEF vars, tableVars, slotVars, semVars, sendVars
  <1> QED
    BY <1>4, <1>5, <1>6, <1>7, <1>8, <1>9, <1>10, <1>11, Zenon DEF Next, TaskStep, Quiescent

LEMMA PermitInit == Init => PermitInv
  <1> SUFFICES ASSUME Init PROVE PermitInv
    BY Zenon
  <1>1. Usable = 0 .. SlotCount - 1
    BY Zenon DEF Init, TableInit, Usable, Slots
  <1>2. Holders = {} /\ Retirees = {}
    BY Zenon DEF Init, TableInit, Holders, Retirees, HoldsPermit, Holding
  <1>3. /\ 0 \in Int /\ SlotCount - 1 \in Int /\ ~(0 > SlotCount - 1)
        /\ SlotCount - 1 - 0 + 1 = SlotCount /\ SlotCount # 0
    BY SlotCountAssumption
  <1>4. IsFiniteSet(Usable) /\ Cardinality(Usable) = SlotCount
    BY <1>1, <1>3, FS_Interval, Zenon
  <1>5. PermitAccounting
    BY <1>2, <1>3, <1>4, FS_EmptySet, Zenon
    DEF Init, TableInit, PermitAccounting, Usable, Holders, Retirees
  <1> QED
    BY <1>2, <1>4, <1>5, FS_EmptySet, Zenon DEF PermitInv, Init, TableInit

\* Permits are never lost or forged: mark_unusable and SlotRelease::drop retire
\* a slot and its permit together, though other tasks run between the two.
THEOREM PermitSafety == Spec => []PermitAccounting
  <1>1. PermitInv => PermitAccounting
    BY Zenon DEF PermitInv
  <1>2. IInv /\ PermitInv /\ [Next]_vars => PermitInv'
    BY PermitNext, Zenon
  <1> QED
    BY <1>1, <1>2, PermitInit, Inductive, PTL DEF Spec
=============================================================================
