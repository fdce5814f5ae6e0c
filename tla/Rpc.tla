-------------------------------- MODULE Rpc --------------------------------
(***************************************************************************)
(* The RPC transport of src/src/rpc.rs over one connection: callers in     *)
(* call_with_timeout, the writer task, the reader task, the pending map    *)
(* they share and the transport_closed flag.  Each action is one access to *)
(* shared state, as callers and tasks run on several threads.              *)
(*                                                                         *)
(* A caller stands for a session slot: it makes one call at a time, and    *)
(* none after an uncertain outcome, which retires the slot (Session).      *)
(***************************************************************************)
EXTENDS Integers, Sequences, FiniteSets

CONSTANTS
  Callers,   \* the session's slots
  XidMod,    \* xids wrap at XidMod (2^32 in the code)
  MaxBatch,  \* MAX_WRITE_BATCH_RECORDS
  MaxCalls   \* bound: calls each caller makes

ASSUME CallersAssumption == Callers # {} /\ IsFiniteSet(Callers)
ASSUME XidModAssumption == XidMod \in Nat \ {0, 1}
ASSUME MaxBatchAssumption == MaxBatch \in Nat \ {0}
ASSUME MaxCallsAssumption == MaxCalls \in Nat

VARIABLES
  closed,   \* transport_closed
  counter,  \* the xid counter
  pending,  \* the pending map: who registered the xid, and is its tx there
  queue,    \* the writer's mpsc channel
  pc,       \* the caller's control point
  calls,    \* calls[c]: calls c has made
  xid,      \* xid[c]: the xid c's call uses
  inbox,    \* inbox[c]: what was sent on the oneshot of c's call
  result,   \* result[c]: how c's last call ended
  wpc,      \* the writer task's control point
  batch,    \* the records it has yet to write
  written,  \* calls whose record was written completely
  wire,     \* written records the server has not answered
  rpc,      \* the reader task's control point
  hand      \* the reply it decodes, and for which call

callerVars == <<pc, calls, xid, result>>
writerVars == <<wpc, batch, written>>
readerVars == <<rpc, hand>>
vars == <<closed, counter, pending, queue, callerVars, inbox, writerVars, wire,
          readerVars>>

Xids == 0 .. XidMod - 1
Calls == Callers \X (0 .. MaxCalls)
Record == [xid : Xids, id : Calls]
Free == [tx |-> FALSE]
Entry == [tx : BOOLEAN, caller : Callers]
NoMsg == [kind |-> "none"]
LostMsg == [kind |-> "lost"]
ReplyMsg == [kind : {"reply", "bad"}, of : Calls]
NoHand == [to |-> <<>>, of |-> <<>>]
Preparing == {"xid", "again", "insert", "check", "send"}
CallerPCs == {"idle", "sent", "await"} \cup Preparing

\* Outcomes after which the session retires the caller's slot.
Uncertain == {"bad", "lost", "timeout", "cancelled"}
Results == {"none", "not_sent", "reply"} \cup Uncertain

OneSlot == 1

\* mpsc::channel(pending_capacity.max(1) * 2)
QueueCapacity == 2 * Cardinality(Callers)

\* The call c makes now, or made last.
CurrentCall(c) == <<c, calls[c]>>

\* The type invariant.
TypeOK ==
  /\ closed \in BOOLEAN
  /\ counter \in Xids
  /\ pending \in [Xids -> {Free} \cup Entry]
  /\ queue \in Seq(Record)
  /\ pc \in [Callers -> CallerPCs]
  /\ calls \in [Callers -> 0 .. MaxCalls]
  /\ xid \in [Callers -> Xids]
  /\ inbox \in [Callers -> {NoMsg, LostMsg} \cup ReplyMsg]
  /\ result \in [Callers -> Results]
  /\ wpc \in {"recv", "batch", "write", "close", "fail", "end", "done"}
  /\ batch \in Seq(Record)
  /\ written \in SUBSET Calls
  /\ wire \in SUBSET Record
  /\ rpc \in {"read", "reply", "close", "fail", "done"}
  /\ hand \in {NoHand} \cup [to : Calls, of : Calls]

Init ==
  /\ closed = FALSE
  /\ counter \in Xids
  /\ pending = [x \in Xids |-> Free]
  /\ queue = <<>>
  /\ pc = [c \in Callers |-> "idle"]
  /\ calls = [c \in Callers |-> 0]
  /\ xid = [c \in Callers |-> 0]
  /\ inbox = [c \in Callers |-> NoMsg]
  /\ result = [c \in Callers |-> "none"]
  /\ wpc = "recv"
  /\ batch = <<>>
  /\ written = {}
  /\ wire = {}
  /\ rpc = "read"
  /\ hand = NoHand

Goto(c, label) == pc' = [pc EXCEPT ![c] = label]
Registered(c) == [tx |-> TRUE, caller |-> c]
RecordOfCounter(c) == [xid |-> counter, id |-> CurrentCall(c)]
RecordOf(c) == [xid |-> xid[c], id |-> CurrentCall(c)]
-----------------------------------------------------------------------------
(* call_with_timeout *)

\* The first transport_closed check.
Call(c) ==
  /\ pc[c] = "idle"
  /\ calls[c] < MaxCalls
  /\ result[c] \notin Uncertain
  /\ calls' = [calls EXCEPT ![c] = @ + 1]
  /\ IF closed
     THEN result' = [result EXCEPT ![c] = "not_sent"] /\ UNCHANGED pc
     ELSE result' = [result EXCEPT ![c] = "none"] /\ Goto(c, "xid")
  /\ UNCHANGED <<closed, counter, pending, queue, xid, inbox, writerVars, wire,
                 readerVars>>

\* fetch_add(1).wrapping_add(1)
Advance == (counter + 1) % XidMod

\* next_xid: the counter is incremented, once more if that gave 0.
NextXid(c) ==
  /\ pc[c] \in {"xid", "again"}
  /\ counter' = Advance
  /\ xid' = [xid EXCEPT ![c] = counter']
  /\ Goto(c, IF pc[c] = "xid" /\ counter' = 0 THEN "again" ELSE "insert")
  /\ UNCHANGED <<closed, pending, queue, calls, inbox, result, writerVars, wire,
                 readerVars>>

InsertAlways(c) ==
  /\ pc[c] = "insert"
  /\ pending' = [pending EXCEPT ![xid[c]] = Registered(c)]
  /\ Goto(c, "check")
  /\ UNCHANGED <<closed, counter, queue, calls, xid, inbox, result, writerVars,
                 wire, readerVars>>

\* try_insert: an xid that is still reserved is skipped.
Insert(c) ==
  /\ pc[c] = "insert"
  /\ IF pending[xid[c]] = Free
     THEN /\ pending' = [pending EXCEPT ![xid[c]] = Registered(c)]
          /\ Goto(c, "check")
     ELSE Goto(c, "xid") /\ UNCHANGED pending
  /\ UNCHANGED <<closed, counter, queue, calls, xid, inbox, result, writerVars,
                 wire, readerVars>>

\* The call returns r and its PendingRegistration is dropped, whoever has
\* registered the xid by now.
End(c, r) ==
  /\ result' = [result EXCEPT ![c] = r]
  /\ pending' = [pending EXCEPT ![xid[c]] = Free]
  /\ inbox' = [inbox EXCEPT ![c] = NoMsg]
  /\ xid' = [xid EXCEPT ![c] = 0]
  /\ Goto(c, "idle")
  /\ UNCHANGED <<closed, counter, calls, writerVars, wire, readerVars>>

\* The second transport_closed check, with the xid registered.
CheckOpen(c) ==
  /\ pc[c] = "check"
  /\ \/ closed /\ End(c, "not_sent") /\ UNCHANGED queue
     \/ /\ ~closed
        /\ Goto(c, "send")
        /\ UNCHANGED <<closed, counter, pending, queue, calls, xid, inbox, result,
                       writerVars, wire, readerVars>>

\* request_tx.send: it waits while the queue is full.
Enqueue(c) ==
  /\ pc[c] = "send"
  /\ wpc # "done"
  /\ Len(queue) < QueueCapacity
  /\ queue' = Append(queue, RecordOf(c))
  /\ Goto(c, "sent")
  /\ UNCHANGED <<closed, counter, pending, calls, xid, inbox, result, writerVars,
                 wire, readerVars>>

\* request_tx.send fails: the writer is gone.
EnqueueFails(c) ==
  /\ pc[c] = "send"
  /\ wpc = "done"
  /\ End(c, "not_sent")
  /\ UNCHANGED queue

StillNotSent(c) ==
  /\ pc[c] = "sent"
  /\ \/ closed /\ End(c, "not_sent") /\ UNCHANGED queue
     \/ /\ ~closed
        /\ Goto(c, "await")
        /\ UNCHANGED <<closed, counter, pending, queue, calls, xid, inbox, result,
                       writerVars, wire, readerVars>>

\* The third check: the request is queued, so the outcome is uncertain.
CheckStill(c) ==
  /\ pc[c] = "sent"
  /\ \/ closed /\ End(c, "lost") /\ UNCHANGED queue
     \/ /\ ~closed
        /\ Goto(c, "await")
        /\ UNCHANGED <<closed, counter, pending, queue, calls, xid, inbox, result,
                       writerVars, wire, readerVars>>

Receive(c) ==
  /\ pc[c] = "await"
  /\ inbox[c] # NoMsg
  /\ End(c, inbox[c].kind)
  /\ UNCHANGED queue

\* The operation timeout covers only the wait for the reply.
Timeout(c) ==
  /\ pc[c] = "await"
  /\ inbox[c] = NoMsg
  /\ End(c, "timeout")
  /\ UNCHANGED queue

\* The caller drops the future at one of its await points.
Cancel(c) ==
  /\ pc[c] \in {"send", "await"}
  /\ End(c, "cancelled")
  /\ UNCHANGED queue
-----------------------------------------------------------------------------
(* fail_all *)

FailNone == UNCHANGED <<pending, inbox>>

\* Drain the map under its lock; every sender still there gets ConnectionLost.
FailAll ==
  /\ pending' = [x \in Xids |-> Free]
  /\ inbox' = [c \in Callers |->
       IF \E x \in Xids : pending[x] = Registered(c) THEN LostMsg ELSE inbox[c]]
-----------------------------------------------------------------------------
(* write_loop *)

WriterRecv ==
  /\ wpc = "recv"
  /\ queue # <<>>
  /\ batch' = <<Head(queue)>>
  /\ queue' = Tail(queue)
  /\ wpc' = "batch"
  /\ UNCHANGED <<closed, counter, pending, callerVars, inbox, written, wire,
                 readerVars>>

\* try_recv until the batch is full or the queue empty, then write.
WriterFill ==
  /\ wpc = "batch"
  /\ IF Len(batch) < MaxBatch /\ queue # <<>>
     THEN /\ batch' = Append(batch, Head(queue))
          /\ queue' = Tail(queue)
          /\ UNCHANGED wpc
     ELSE /\ wpc' = "write"
          /\ UNCHANGED <<batch, queue>>
  /\ UNCHANGED <<closed, counter, pending, callerVars, inbox, written, wire,
                 readerVars>>

\* write_vectored makes progress to the end of the next record.
WriteRecord ==
  /\ wpc = "write"
  /\ batch # <<>>
  /\ wire' = wire \cup {Head(batch)}
  /\ written' = written \cup {Head(batch).id}
  /\ batch' = Tail(batch)
  /\ wpc' = IF Len(batch) = 1 THEN "recv" ELSE "write"
  /\ UNCHANGED <<closed, counter, pending, queue, callerVars, inbox, readerVars>>

\* write_record_batch fails: record too large, I/O error, or nothing written.
WriteError ==
  /\ wpc = "write"
  /\ wpc' = "close"
  /\ batch' = <<>>
  /\ UNCHANGED <<closed, counter, pending, queue, callerVars, inbox, written,
                 wire, readerVars>>

WriterClose ==
  /\ wpc = "close"
  /\ closed' = TRUE
  /\ wpc' = "fail"
  /\ UNCHANGED <<counter, pending, queue, callerVars, inbox, batch, written, wire,
                 readerVars>>

WriterFail ==
  /\ wpc = "fail"
  /\ FailAll
  /\ wpc' = "end"
  /\ UNCHANGED <<closed, counter, queue, callerVars, batch, written, wire,
                 readerVars>>

\* The task returns and drops the receiver with what is still queued.
WriterEnd ==
  /\ wpc = "end"
  /\ queue' = <<>>
  /\ wpc' = "done"
  /\ UNCHANGED <<closed, counter, pending, callerVars, inbox, batch, written,
                 wire, readerVars>>
-----------------------------------------------------------------------------
(* read_loop *)

Ended(id) == pc[id[1]] = "idle" \/ calls[id[1]] # id[2]

(***************************************************************************)
(* External: the server answers written records in any order, or never.    *)
(* Assumed of it: the answer to an abandoned call does not arrive after    *)
(* the xid counter has gone once around, 2^32 calls later.                 *)
(***************************************************************************)
Arrives(r) ==
  \/ ~Ended(r.id)
  \/ pending[r.xid] = Free

RemoveEntry(x) == pending' = [pending EXCEPT ![x] = Free]

\* tx.take(): the entry stays and keeps its xid reserved.
TakeSender(x) == pending' = [pending EXCEPT ![x].tx = FALSE]

\* A record is read; one without a waiting sender is ignored.
ReadReply(r) ==
  /\ rpc = "read"
  /\ Arrives(r)
  /\ wire' = wire \ {r}
  /\ IF pending[r.xid].tx
     THEN /\ TakeSender(r.xid)
          /\ hand' = [to |-> CurrentCall(pending[r.xid].caller), of |-> r.id]
          /\ rpc' = "reply"
     ELSE UNCHANGED <<pending, hand, rpc>>
  /\ UNCHANGED <<closed, counter, queue, callerVars, inbox, writerVars>>

\* decode_reply, then tx.send: nobody listens if the call has ended.
SendReply ==
  /\ rpc = "reply"
  /\ \E k \in {"reply", "bad"} :
       inbox' = IF Ended(hand.to) THEN inbox
                ELSE [inbox EXCEPT ![hand.to[1]] = [kind |-> k, of |-> hand.of]]
  /\ hand' = NoHand
  /\ rpc' = "read"
  /\ UNCHANGED <<closed, counter, pending, queue, callerVars, writerVars, wire>>

\* read_record or peek_xid fails: EOF, reset, oversized or truncated record.
ReadError ==
  /\ rpc = "read"
  /\ rpc' = "close"
  /\ UNCHANGED <<closed, counter, pending, queue, callerVars, inbox, writerVars,
                 wire, hand>>

ReaderClose ==
  /\ rpc = "close"
  /\ closed' = TRUE
  /\ rpc' = "fail"
  /\ UNCHANGED <<counter, pending, queue, callerVars, inbox, writerVars, wire, hand>>

ReaderFail ==
  /\ rpc = "fail"
  /\ FailAll
  /\ rpc' = "done"
  /\ UNCHANGED <<closed, counter, queue, callerVars, writerVars, wire, hand>>
-----------------------------------------------------------------------------
\* What a caller does on its own once it is polled.
CallerStep(c) ==
  \/ NextXid(c) \/ Insert(c) \/ CheckOpen(c) \/ Enqueue(c) \/ EnqueueFails(c)
  \/ CheckStill(c) \/ Receive(c)

WriterStep ==
  \/ WriterRecv \/ WriterFill \/ WriteRecord \/ WriteError
  \/ WriterClose \/ WriterFail \/ WriterEnd

ReaderStep ==
  \/ \E r \in wire : ReadReply(r)
  \/ SendReply \/ ReadError \/ ReaderClose \/ ReaderFail

Quiescent ==
  /\ \A c \in Callers :
       pc[c] = "idle" /\ (calls[c] = MaxCalls \/ result[c] \in Uncertain)
  /\ UNCHANGED vars

Next ==
  \/ \E c \in Callers : Call(c) \/ CallerStep(c) \/ Timeout(c) \/ Cancel(c)
  \/ WriterStep
  \/ ReaderStep
  \/ Quiescent

Spec == Init /\ [][Next]_vars

\* Polled callers run.  No timeout is assumed to fire, and the peer may stall
\* the connection, and with it both tasks, for ever; the tasks finish what
\* they started once an error ends their loop.
FairSpec ==
  /\ Spec
  /\ \A c \in Callers : WF_vars(CallerStep(c))
  /\ WF_vars(WriterClose \/ WriterFail \/ WriterEnd)
  /\ WF_vars(SendReply \/ ReaderClose \/ ReaderFail)
-----------------------------------------------------------------------------
(***************************************************************************)
(* A waiting call always has somebody who owes it a message: its sender is *)
(* in the pending map or in the reader's hand, or was used.  Otherwise a   *)
(* call without timeout would hang.  It rests on the order of the flag     *)
(* store and the drain in read_loop and write_loop, of registration and    *)
(* check in call_with_timeout, and on the entry staying reserved.          *)
(***************************************************************************)
AwaitHasSender ==
  \A c \in Callers :
    pc[c] = "await" =>
      \/ inbox[c] # NoMsg
      \/ pending[xid[c]] = Registered(c)
      \/ hand.to = CurrentCall(c)

(***************************************************************************)
(* The reply a waiting call gets is its own, even when the xid counter     *)
(* wraps while a call is still waiting (PendingRegistration).  Only a      *)
(* waiting call reads its oneshot: one that registers an xid after the     *)
(* writer drained the map may be sent another call's reply by the reader,  *)
(* but its second transport_closed check ends it first.                    *)
(***************************************************************************)
ReplyIsOwn ==
  \A c \in Callers :
    pc[c] = "await" /\ inbox[c] \in ReplyMsg => inbox[c].of = CurrentCall(c)

(***************************************************************************)
(* A call always gets as far as the wait for its reply, which the          *)
(* operation timeout bounds, or ends before: the waits it does not bound,  *)
(* for a free xid and for a place in the writer's queue, never last, even  *)
(* when the peer stops reading and the writer hangs.                       *)
(***************************************************************************)
ReachesReply ==
  \A c \in Callers : pc[c] # "idle" ~> pc[c] \in {"await", "idle"}

(***************************************************************************)
(* docs/architecture.md:139: pending calls fail promptly once the reader   *)
(* (or the writer) has seen the connection fail, without any timeout.      *)
(***************************************************************************)
ClosedEndsCalls ==
  \A c \in Callers : closed /\ pc[c] # "idle" ~> pc[c] = "idle"

\* The calls the records in s belong to.
Ids(s) == {s[i].id : i \in DOMAIN s}

\* Calls that have no record yet.
Prepared == {CurrentCall(c) : c \in {d \in Callers : pc[d] \in Preparing}}

\* Calls of which a record is still queued or in the batch, or may be yet.
Unsent == Ids(queue) \cup Ids(batch) \cup Prepared

Promise == INSTANCE RpcPromise
  WITH active <- [c \in Callers |-> pc[c] # "idle"],
       unsent <- Unsent,
       sent <- written

\* The transport implements what RpcPromise says call_with_timeout promises.
KeepsPromise == Promise!Spec
=============================================================================
