---------------------------- MODULE DeferredClose ----------------------------
(***************************************************************************)
(* The deferred CLOSE of published files (src/src/nfs4/session.rs): puts   *)
(* hand their open state to a bounded queue, and a worker of the session   *)
(* closes it in batches, file by file if a batch fails.                    *)
(*                                                                         *)
(* The worker's compounds are calls of module Compound. A behaviour is     *)
(* either one call of a method, or the deferred closes of the files in     *)
(* Deferred: calls on different slots do not disturb each other (module    *)
(* Session), so no two need to be in flight.                               *)
(***************************************************************************)
EXTENDS Compound

CONSTANTS
  Deferred,     \* the files of concurrent puts, published and still open
  QueueLength,  \* capacity of the channel
  MaxBatch      \* MAX_DEFERRED_CLOSE_BATCH

ASSUME DeferredAssumption == Deferred \subseteq Files /\ QueueLength > 0 /\ MaxBatch > 0

VARIABLES
  puts,    \* puts that have not yet got into the queue
  queue,
  batch,   \* the worker's batch
  start,   \* close_batch: how many of the batch are done
  todo,    \* files left for the individual fallback
  worker,  \* "none", "recv", "yield", "batch", "single", "stopped"
  client,  \* whether a client still holds the session
  tried    \* history: files an individual CLOSE was issued for

deferVars == <<puts, queue, batch, start, todo, worker, client, tried>>
allVars == <<vars, deferVars>>

Whole == Range(queue) \cup Range(batch)

DeferTypeOK ==
  /\ TypeOK
  /\ puts \subseteq Deferred /\ tried \subseteq Deferred
  /\ queue \in Seq(Deferred) /\ batch \in Seq(Deferred) /\ todo \in Seq(Deferred)
  /\ start \in 0 .. Len(batch) /\ client \in BOOLEAN
  /\ worker \in {"none", "recv", "yield", "batch", "single", "stopped"}

DeferInit ==
  /\ Init
  /\ queue = <<>> /\ batch = <<>> /\ start = 0 /\ todo = <<>> /\ client = TRUE /\ tried = {}
  /\ \/ puts = {} /\ worker = "none"
     \/ puts = Deferred /\ worker = "recv"

\* A call of a method.
Foreground == worker = "none" /\ (\E f \in Files \ Deferred : Begin(f)) /\ UNCHANGED deferVars

\* The worker does with every error the same, so that the odd replies to its calls
\* need not all be told apart: the short ones stand for them.
Odd == worker = "none" /\ ServeOdd

\* defer_close waits for a place in the channel, which serves the puts in the order
\* they ask: that of their numbers, which mean nothing else. The put holds the session,
\* so the worker is there to receive.
DeferClose(f) ==
  /\ f \in puts /\ (\A g \in puts : f <= g) /\ Len(queue) < QueueLength
  /\ puts' = puts \ {f} /\ queue' = Append(queue, f)
  /\ open' = open \cup {f}
  /\ UNCHANGED <<call, lens, pc, attempts, exchangeVars, served>>
  /\ UNCHANGED <<batch, start, todo, worker, client, tried>>

\* The last client drops the session, no put being under way.
DropClient ==
  /\ worker # "none" /\ client /\ puts = {}
  /\ client' = FALSE
  /\ UNCHANGED <<vars, puts, queue, batch, start, todo, worker, tried>>

Worker(w) == worker' = w
\* run_deferred_close_worker: receive one, yield, take what is there.
Recv ==
  /\ worker = "recv" /\ queue # <<>>
  /\ batch' = <<Head(queue)>> /\ queue' = Tail(queue) /\ Worker("yield")
  /\ UNCHANGED <<vars, puts, start, todo, client, tried>>
RecvClosed ==
  /\ worker = "recv" /\ queue = <<>> /\ ~client
  /\ Worker("stopped")
  /\ UNCHANGED <<vars, puts, queue, batch, start, todo, client, tried>>
TryRecv ==
  /\ worker = "yield" /\ Len(batch) < MaxBatch /\ queue # <<>>
  /\ batch' = Append(batch, Head(queue)) /\ queue' = Tail(queue)
  /\ UNCHANGED <<vars, puts, start, todo, worker, client, tried>>
Upgrade ==
  /\ worker = "yield" /\ (Len(batch) = MaxBatch \/ queue = <<>>)
  /\ Worker(IF client THEN "batch" ELSE "stopped")
  /\ UNCHANGED <<vars, puts, queue, batch, start, todo, client, tried>>

\* close_batch: as many files as the limit on operations allows, then fewer until the
\* request fits or is down to one.
MaxFilesByOps == Max({1, Min({(lens.max_compound_ops - 1) \div 2, MaxBatch})})
Slice(end) == SubSeq(batch, start + 1, end)
BatchEnd ==
  Max({end \in start + 1 .. Min({start + MaxFilesByOps, Len(batch)}) :
         end = start + 1 \/ RequestFits(CloseBatch(Slice(end)).ops, lens)})
CloseBatchCall(files) == Call(CloseBatch(files), DecodeCloseBatch(Len(files)))
CloseSlice ==
  /\ worker = "batch" /\ pc = "idle"
  /\ Start(CloseBatchCall(Slice(BatchEnd)))
  /\ UNCHANGED <<open, deferVars>>
NextBatch == batch' = <<>> /\ start' = 0 /\ Worker("recv")

GivesUp ==
  /\ worker = "batch" /\ pc = "done" /\ Leave
  /\ UNCHANGED <<puts, queue, client, tried, todo>>
  /\ NextBatch
SliceReturn ==
  /\ worker = "batch" /\ pc = "done" /\ Leave
  /\ UNCHANGED <<puts, queue, client, tried>>
  /\ \/ /\ Returned({"ok"}) /\ BatchEnd < Len(batch)
        /\ start' = BatchEnd /\ UNCHANGED <<batch, todo, worker>>
     \/ /\ Returned({"ok"}) /\ BatchEnd = Len(batch)
        /\ NextBatch /\ UNCHANGED todo
     \/ /\ ~Returned({"ok"})
        /\ todo' = batch /\ Worker("single") /\ UNCHANGED <<batch, start>>

\* The fallback: close_file for every file of the batch.
CloseOne ==
  /\ worker = "single" /\ pc = "idle"
  /\ Start(Call(CloseFile(Head(todo)), DecodeCloseFile))
  /\ tried' = tried \cup {Head(todo)}
  /\ UNCHANGED <<open, puts, queue, batch, start, todo, worker, client>>
OneReturn ==
  /\ worker = "single" /\ pc = "done" /\ Leave
  /\ todo' = Tail(todo)
  /\ IF Len(todo) = 1 THEN NextBatch ELSE UNCHANGED <<batch, start, worker>>
  /\ UNCHANGED <<puts, queue, client, tried>>

WorkerStep ==
  \/ Recv \/ RecvClosed \/ TryRecv \/ Upgrade
  \/ CloseSlice \/ SliceReturn \/ CloseOne \/ OneReturn
Finished ==
  /\ (worker = "none" /\ pc = "done") \/ worker = "stopped"
  /\ UNCHANGED allVars

Next ==
  \/ Foreground
  \/ Step /\ UNCHANGED deferVars
  \/ Odd /\ UNCHANGED deferVars
  \/ WorkerStep
  \/ \E f \in Deferred : DeferClose(f)
  \/ DropClient
  \/ Finished
Spec == DeferInit /\ [][Next]_allVars

\* The worker is scheduled, and its calls on the wire are answered or end (module Rpc).
FairSpec ==
  /\ Spec
  /\ WF_allVars(worker # "none" /\ Step /\ UNCHANGED deferVars)
  /\ WF_allVars(WorkerStep)
  /\ \A f \in Deferred : WF_allVars(DeferClose(f))
-----------------------------------------------------------------------------
(* Properties *)

\* A put waiting in defer_close gets its place, as the queue is drained whatever the
\* server answers; and its open state is closed, or tried on its own when its batch
\* failed, while the session lives.
EveryCloseIsTried ==
  \A f \in Deferred :
    f \in puts \cup Whole ~> f \notin puts /\ (f \notin open \/ f \in tried \/ ~client)
=============================================================================
