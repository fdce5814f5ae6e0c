------------------------------- MODULE RpcProofs -------------------------------
(***************************************************************************)
(* Proofs about Rpc, for any number of callers, calls and xids: a waiting  *)
(* call is owed a message, the reply it gets is its own, and the transport *)
(* keeps RpcPromise.                                                       *)
(*                                                                         *)
(* A reply is told from another only by its xid, so everything rests on    *)
(* whose an xid is. While the map has not been drained, the entry of an    *)
(* xid is the caller's that holds it (OwnerInv, RegInv), and a record in   *)
(* the queue, in the batch or on the wire whose call is not over carries   *)
(* the xid that call holds (FlightInv). A drain breaks that link; but it   *)
(* comes after the closed flag (ClosedInv), and a call registered later    *)
(* gets no further than its second check.                                  *)
(***************************************************************************)
EXTENDS Rpc, TLAPS

\* A caller that holds a PendingRegistration.
Registering == {"check", "send", "sent", "await"}

\* One of the two tasks has drained the pending map.
Drained == wpc \in {"end", "done"} \/ rpc = "done"

\* Both tasks set the flag before they drain the map.
ClosedInv ==
  wpc \in {"fail", "end", "done"} \/ rpc \in {"fail", "done"} => closed

\* An entry belongs to the caller that holds its xid; what is registered after
\* a drain gets no further than the second check.
OwnerInv ==
  \A x \in Xids : pending[x] # Free =>
    /\ pc[pending[x].caller] \in Registering
    /\ xid[pending[x].caller] = x
    /\ Drained => pc[pending[x].caller] = "check"

\* Until then a registration's xid is its own.
RegInv ==
  \A c \in Callers :
    pc[c] \in Registering /\ ~Drained =>
      pending[xid[c]] # Free /\ pending[xid[c]].caller = c

\* AwaitHasSender, from the second check on.
SenderInv ==
  \A c \in Callers :
    (pc[c] \in {"send", "sent", "await"} \/ (pc[c] = "check" /\ ~closed)) =>
      \/ inbox[c] # NoMsg
      \/ pending[xid[c]] = Registered(c)
      \/ hand.to = CurrentCall(c)

Members(s) == {s[i] : i \in DOMAIN s}
Distinct(s) == \A i, j \in DOMAIN s : i # j => s[i].id # s[j].id

\* Requests that may be written yet, or are written and may be answered.
InFlight == Members(queue) \cup Members(batch) \cup wire

\* A call that was put in the writer's queue.
Queued(id) ==
  /\ id[2] <= calls[id[1]]
  /\ ~Ended(id) => pc[id[1]] \in {"sent", "await"}

\* The record of a call that is not over has the xid the call registered.
FlightInv ==
  \A r \in InFlight : Queued(r.id) /\ (~Ended(r.id) => xid[r.id[1]] = r.xid)

\* A record is queued once and written once.
QueueInv ==
  /\ wpc = "recv" => batch = <<>>
  /\ Distinct(queue) /\ Distinct(batch)
  /\ Ids(queue) \cap Ids(batch) = {}
  /\ Ids(queue) \cap written = {}
  /\ Ids(batch) \cap written = {}
  /\ \A r \in wire : r.id \in written
  /\ \A id \in written : Queued(id)

\* The reader hands a reply to the call it answers; or to one that is over, or
\* that the second check is about to end.
HandInv ==
  /\ rpc # "reply" => hand = NoHand
  /\ rpc = "reply" =>
       /\ hand \in [to : Calls, of : Calls]
       /\ hand.of \in written
       /\ hand.to[2] <= calls[hand.to[1]]
       /\ \/ hand.to = hand.of
          \/ Ended(hand.to)
          \/ pc[hand.to[1]] = "check" /\ closed

InboxInv ==
  \A c \in Callers : inbox[c] # NoMsg =>
    /\ pc[c] \in Registering
    /\ inbox[c] # LostMsg =>
         /\ inbox[c].of \in written
         /\ inbox[c].of = CurrentCall(c) \/ (pc[c] = "check" /\ closed)

\* The inductive invariant.
IInv ==
  /\ TypeOK /\ ClosedInv /\ OwnerInv /\ RegInv /\ SenderInv
  /\ FlightInv /\ QueueInv /\ HandInv /\ InboxInv
-----------------------------------------------------------------------------
LEMMA XidsType == Xids \subseteq Nat /\ 0 \in Xids /\ \A n \in Nat : n % XidMod \in Xids
  BY XidModAssumption DEF Xids

LEMMA IdsAppend ==
  ASSUME NEW s \in Seq(Record), NEW r \in Record
  PROVE  /\ Append(s, r) \in Seq(Record)
         /\ Ids(Append(s, r)) = Ids(s) \cup {r.id}
         /\ Members(Append(s, r)) = Members(s) \cup {r}
         /\ Distinct(s) /\ r.id \notin Ids(s) => Distinct(Append(s, r))
  <1> USE DEF Ids, Members, Distinct
  <1>1. /\ Append(s, r) \in Seq(Record) /\ Len(Append(s, r)) = Len(s) + 1
        /\ \A i \in 1 .. Len(s) : Append(s, r)[i] = s[i]
        /\ Append(s, r)[Len(s) + 1] = r /\ Len(s) \in Nat
    OBVIOUS
  <1>2. DOMAIN s = 1 .. Len(s) /\ DOMAIN Append(s, r) = 1 .. (Len(s) + 1)
    BY <1>1
  <1>3. DOMAIN Append(s, r) = DOMAIN s \cup {Len(s) + 1} /\ Len(s) + 1 \notin DOMAIN s
    BY <1>1, <1>2
  <1> DEFINE t == Append(s, r)
  <1>4. \A i \in DOMAIN t : (i \in DOMAIN s /\ t[i] = s[i]) \/ (i = Len(s) + 1 /\ t[i] = r)
    BY <1>1, <1>2, <1>3, Zenon
  <1>5. \A i \in DOMAIN s : i \in DOMAIN t /\ t[i] = s[i]
    BY <1>1, <1>2, <1>3, Zenon
  <1>6. Len(s) + 1 \in DOMAIN t /\ t[Len(s) + 1] = r
    BY <1>1, <1>3, Zenon
  <1> HIDE DEF t
  <1>7. Ids(t) = Ids(s) \cup {r.id} /\ Members(t) = Members(s) \cup {r}
    BY <1>4, <1>5, <1>6, Zenon
  <1>8. ASSUME Distinct(s), r.id \notin Ids(s) PROVE Distinct(t)
    BY <1>4, <1>8
  <1> QED
    BY <1>1, <1>7, <1>8, Zenon DEF t

LEMMA IdsTail ==
  ASSUME NEW s \in Seq(Record), s # <<>>
  PROVE  /\ Head(s) \in Record /\ Tail(s) \in Seq(Record)
         /\ Ids(s) = Ids(Tail(s)) \cup {Head(s).id}
         /\ Members(s) = Members(Tail(s)) \cup {Head(s)}
         /\ Distinct(s) => Distinct(Tail(s)) /\ Head(s).id \notin Ids(Tail(s))
  <1> USE DEF Ids, Members, Distinct
  <1>1. /\ Head(s) = s[1] /\ Head(s) \in Record /\ Tail(s) \in Seq(Record)
        /\ Len(s) \in Nat /\ Len(s) >= 1 /\ Len(Tail(s)) = Len(s) - 1
        /\ \A i \in 1 .. (Len(s) - 1) : Tail(s)[i] = s[i + 1]
    OBVIOUS
  <1>2. DOMAIN s = 1 .. Len(s) /\ DOMAIN Tail(s) = 1 .. (Len(s) - 1)
    BY <1>1
  <1> DEFINE t == Tail(s)
  <1>3. \A i \in DOMAIN t : i + 1 \in DOMAIN s /\ t[i] = s[i + 1] /\ i + 1 # 1 /\ i \in Nat
    BY <1>1, <1>2
  <1>4. \A i \in DOMAIN s : i = 1 \/ (i - 1 \in DOMAIN t /\ t[i - 1] = s[i])
    BY <1>1, <1>2
  <1>5. 1 \in DOMAIN s /\ s[1] = Head(s)
    BY <1>1, <1>2
  <1>6. \A i, j \in DOMAIN t : i # j => i + 1 # j + 1
    BY <1>3
  <1> HIDE DEF t
  <1>7. Ids(s) = Ids(t) \cup {Head(s).id} /\ Members(s) = Members(t) \cup {Head(s)}
    BY <1>3, <1>4, <1>5
  <1>8. ASSUME Distinct(s) PROVE Distinct(t) /\ Head(s).id \notin Ids(t)
    BY <1>3, <1>5, <1>6, <1>8
  <1> QED
    BY <1>1, <1>7, <1>8, Zenon DEF t

LEMMA IdsEmpty == Ids(<<>>) = {} /\ Members(<<>>) = {} /\ Distinct(<<>>) /\ <<>> \in Seq(Record)
  BY DEF Ids, Members, Distinct

\* Facts about the entries of the pending map.
LEMMA Entries ==
  ASSUME TypeOK
  PROVE  \A x \in Xids :
           \/ pending[x] = Free /\ pending[x].tx = FALSE
           \/ /\ pending[x] # Free /\ pending[x] \in Entry
              /\ pending[x].caller \in Callers
              /\ pending[x].tx => pending[x] = Registered(pending[x].caller)
  BY DEF TypeOK, Free, Entry, Registered

LEMMA RegisteredEntry ==
  ASSUME NEW c \in Callers
  PROVE  /\ Registered(c) \in Entry /\ Registered(c) # Free
         /\ Registered(c).caller = c /\ Registered(c).tx = TRUE
  BY Zenon DEF Free, Entry, Registered
-----------------------------------------------------------------------------
\* The steps of a caller, by what they do.
Ends(c) ==
  /\ pc[c] \in Registering
  /\ \E r \in Results : End(c, r)
  /\ UNCHANGED queue

Passes(c) ==
  /\ ~closed
  /\ \/ pc[c] = "check" /\ Goto(c, "send")
     \/ pc[c] = "sent" /\ Goto(c, "await")
  /\ UNCHANGED <<closed, counter, pending, queue, calls, xid, inbox, result,
                 writerVars, wire, readerVars>>

LEMMA CallerCases ==
  ASSUME TypeOK, NEW c \in Callers, Call(c) \/ CallerStep(c) \/ Timeout(c) \/ Cancel(c)
  PROVE  \/ Call(c) \/ NextXid(c) \/ Insert(c) \/ Enqueue(c) \/ Passes(c) \/ Ends(c)
  <1> USE DEF Ends, Passes, Registering, Results, Uncertain
  <1>1. CASE CheckOpen(c)
    BY <1>1, Zenon DEF CheckOpen
  <1>2. CASE CheckStill(c)
    BY <1>2, Zenon DEF CheckStill
  <1>3. CASE Receive(c)
    <2>1. inbox[c].kind \in Results
      BY <1>3 DEF Receive, TypeOK, NoMsg, LostMsg, ReplyMsg
    <2> QED
      BY <1>3, <2>1, Zenon DEF Receive
  <1>4. CASE EnqueueFails(c) \/ Timeout(c) \/ Cancel(c)
    BY <1>4, Zenon DEF EnqueueFails, Timeout, Cancel
  <1> QED
    BY <1>1, <1>2, <1>3, <1>4, Zenon DEF CallerStep

\* What the writer and the reader do to the rest when they drain the map.
Drains ==
  /\ FailAll /\ closed
  /\ \/ wpc' = "end" /\ rpc' = rpc
     \/ rpc' = "done" /\ wpc' = wpc /\ rpc # "reply"
  /\ UNCHANGED <<closed, counter, queue, callerVars, batch, written, wire, hand>>

LEMMA NextCases ==
  ASSUME TypeOK, ClosedInv, [Next]_vars
  PROVE  \/ \E c \in Callers : \/ Call(c) \/ NextXid(c) \/ Insert(c) \/ Enqueue(c)
                               \/ Passes(c) \/ Ends(c)
         \/ WriterRecv \/ WriterFill \/ WriteRecord \/ WriteError \/ WriterEnd
         \/ WriterClose \/ ReadError \/ ReaderClose
         \/ Drains
         \/ \E r \in wire : ReadReply(r)
         \/ SendReply
         \/ UNCHANGED vars
  <1>1. CASE WriterFail \/ ReaderFail
    BY <1>1, Zenon DEF WriterFail, ReaderFail, Drains, ClosedInv, readerVars, writerVars
  <1> QED
    BY <1>1, CallerCases, Zenon DEF Next, WriterStep, ReaderStep, Quiescent

LEMMA TypeStep ==
  ASSUME IInv, [Next]_vars
  PROVE  TypeOK'
  <1> USE DEF TypeOK, Goto, callerVars, writerVars, readerVars
  <1>1. TypeOK
    BY Zenon DEF IInv
  <1>2. ASSUME NEW c \in Callers,
               Call(c) \/ NextXid(c) \/ Insert(c) \/ Enqueue(c) \/ Passes(c) \/ Ends(c)
        PROVE  TypeOK'
    <2>1. CASE Call(c)
      <3>1. calls'[c] \in 0 .. MaxCalls
        BY <1>1, <2>1, MaxCallsAssumption DEF Call
      <3> QED
        BY <1>1, <2>1, <3>1, Zenon DEF Call, CallerPCs, Preparing, Results
    <2>2. CASE NextXid(c)
      <3>1. counter' \in Xids
        BY <1>1, <2>2, XidsType DEF NextXid, Advance
      <3> QED
        BY <1>1, <2>2, <3>1, Zenon DEF NextXid, CallerPCs, Preparing
    <2>3. CASE Insert(c)
      <3>1. pending' \in [Xids -> {Free} \cup Entry]
        BY <1>1, <2>3, RegisteredEntry, Zenon DEF Insert
      <3>2. pc' \in [Callers -> CallerPCs]
        BY <1>1, <2>3, Zenon DEF Insert, CallerPCs, Preparing
      <3> QED
        BY <1>1, <2>3, <3>1, <3>2, Zenon DEF Insert
    <2>4. CASE Enqueue(c)
      <3>1. RecordOf(c) \in Record
        BY <1>1, Zenon DEF RecordOf, Record, CurrentCall, Calls
      <3> QED
        BY <1>1, <2>4, <3>1, IdsAppend, Zenon DEF Enqueue, CallerPCs, Preparing
    <2>5. CASE Passes(c)
      BY <1>1, <2>5, Zenon DEF Passes, CallerPCs, Preparing
    <2>6. CASE Ends(c)
      <3>1. PICK r \in Results : End(c, r)
        BY <2>6, Zenon DEF Ends
      <3> QED
        BY <1>1, <2>6, <3>1, XidsType, Zenon DEF Ends, End, CallerPCs
    <2> QED
      BY <1>2, <2>1, <2>2, <2>3, <2>4, <2>5, <2>6, Zenon
  <1>3. CASE WriterRecv
    <2>1. <<Head(queue)>> \in Seq(Record)
      BY <1>1, <1>3, IdsTail DEF WriterRecv
    <2> QED
      BY <1>1, <1>3, <2>1, IdsTail, Zenon DEF WriterRecv
  <1>4. CASE WriterFill
    <2>1. CASE Len(batch) < MaxBatch /\ queue # <<>>
      <3>1. Head(queue) \in Record /\ Tail(queue) \in Seq(Record)
        BY <1>1, <2>1, IdsTail, Zenon
      <3>2. Append(batch, Head(queue)) \in Seq(Record)
        BY <1>1, <3>1, IdsAppend, Zenon
      <3> QED
        BY <1>1, <1>4, <2>1, <3>1, <3>2, Zenon DEF WriterFill
    <2>2. CASE ~(Len(batch) < MaxBatch /\ queue # <<>>)
      BY <1>1, <1>4, <2>2, Zenon DEF WriterFill
    <2> QED
      BY <2>1, <2>2, Zenon
  <1>5. CASE WriteRecord
    <2>1. Head(batch) \in Record /\ Head(batch).id \in Calls /\ Tail(batch) \in Seq(Record)
      BY <1>1, <1>5, IdsTail, Zenon DEF WriteRecord, Record
    <2> QED
      BY <1>1, <1>5, <2>1, Zenon DEF WriteRecord
  <1>6. CASE WriteError \/ WriterEnd \/ WriterClose \/ ReadError \/ ReaderClose
    BY <1>1, <1>6, IdsEmpty, Zenon DEF WriteError, WriterEnd, WriterClose, ReadError, ReaderClose
  <1>7. CASE Drains
    BY <1>1, <1>7, Zenon DEF Drains, FailAll
  <1>8. ASSUME NEW r \in wire, ReadReply(r) PROVE TypeOK'
    <2>1. r.xid \in Xids /\ r.id \in Calls
      BY <1>1, Zenon DEF Record
    <2>2. CASE pending[r.xid].tx
      <3>1. pending[r.xid] \in Entry /\ pending[r.xid].caller \in Callers
        BY <1>1, <2>1, <2>2, Entries, Zenon
      <3>2. pending' \in [Xids -> {Free} \cup Entry]
        <4>1. pending' = [pending EXCEPT ![r.xid] = [pending[r.xid] EXCEPT !.tx = FALSE]]
          BY <1>8, <2>2, Zenon DEF ReadReply, TakeSender
        <4>2. [pending[r.xid] EXCEPT !.tx = FALSE] \in Entry
          BY <3>1, Zenon DEF Entry
        <4> QED
          BY <1>1, <2>1, <4>1, <4>2, Zenon
      <3>3. CurrentCall(pending[r.xid].caller) \in Calls
        BY <1>1, <3>1, Zenon DEF CurrentCall, Calls
      <3> QED
        BY <1>1, <1>8, <2>1, <2>2, <3>2, <3>3 DEF ReadReply
    <2>3. CASE ~pending[r.xid].tx
      BY <1>1, <1>8, <2>3, Zenon DEF ReadReply
    <2> QED
      BY <2>2, <2>3, Zenon
  <1>9. CASE SendReply
    <2>1. hand \in [to : Calls, of : Calls]
      BY <1>9, Zenon DEF SendReply, IInv, HandInv
    <2>2. inbox' \in [Callers -> {NoMsg, LostMsg} \cup ReplyMsg]
      BY <1>1, <1>9, <2>1 DEF SendReply, ReplyMsg, Calls
    <2> QED
      BY <1>1, <1>9, <2>2, Zenon DEF SendReply
  <1>10. CASE UNCHANGED vars
    BY <1>1, <1>10, Zenon DEF vars
  <1> QED
    BY <1>1, <1>2, <1>3, <1>4, <1>5, <1>6, <1>7, <1>8, <1>9, <1>10, NextCases, Zenon DEF IInv

LEMMA ClosedStep ==
  ASSUME IInv, [Next]_vars
  PROVE  ClosedInv'
  <1>1. ClosedInv /\ closed \in BOOLEAN
    BY Zenon DEF IInv, TypeOK
  <1> USE <1>1 DEF ClosedInv, callerVars, writerVars, readerVars
  <1>2. ASSUME NEW c \in Callers,
               Call(c) \/ NextXid(c) \/ Insert(c) \/ Enqueue(c) \/ Passes(c) \/ Ends(c)
        PROVE  ClosedInv'
    BY <1>2, Zenon DEF Call, NextXid, Insert, Enqueue, Passes, Ends, End
  <1>3. CASE WriterRecv \/ WriterFill \/ WriteRecord \/ WriteError \/ WriterEnd \/ WriterClose
    BY <1>3, Zenon DEF WriterRecv, WriterFill, WriteRecord, WriteError, WriterEnd, WriterClose
  <1>4. CASE ReadError \/ ReaderClose \/ Drains \/ SendReply
    BY <1>4, Zenon DEF ReadError, ReaderClose, Drains, SendReply
  <1>5. ASSUME NEW r \in wire, ReadReply(r) PROVE ClosedInv'
    BY <1>5, Zenon DEF ReadReply
  <1>6. CASE UNCHANGED vars
    BY <1>6, Zenon DEF vars
  <1> QED
    BY <1>2, <1>3, <1>4, <1>5, <1>6, NextCases, Zenon DEF IInv

\* The steps that leave the registrations alone.
LEMMA OwnerKept ==
  ASSUME IInv, UNCHANGED <<pending, pc, xid>>, Drained' = Drained
  PROVE  OwnerInv' /\ RegInv'
  BY Zenon DEF IInv, OwnerInv, RegInv

LEMMA OwnerStep ==
  ASSUME IInv, [Next]_vars
  PROVE  OwnerInv' /\ RegInv'
  <1>1. /\ TypeOK /\ pc \in [Callers -> CallerPCs] /\ xid \in [Callers -> Xids]
        /\ pending \in [Xids -> {Free} \cup Entry] /\ OwnerInv /\ RegInv
    BY Zenon DEF IInv, TypeOK
  <1>2. \A x \in Xids : pending[x] # Free => pending[x].caller \in Callers
    BY <1>1, Entries, Zenon
  <1> USE DEF callerVars, writerVars, readerVars, Goto
  <1>3. ASSUME NEW c \in Callers,
               Call(c) \/ NextXid(c) \/ Insert(c) \/ Enqueue(c) \/ Passes(c) \/ Ends(c)
        PROVE  OwnerInv' /\ RegInv'
    <2>1. Drained' = Drained
      BY <1>3, Zenon DEF Drained, Call, NextXid, Insert, Enqueue, Passes, Ends, End
    <2>2. CASE Call(c) \/ NextXid(c)
      BY <1>1, <1>2, <2>1, <2>2 DEF Call, NextXid, OwnerInv, RegInv, Registering
    <2>3. CASE Insert(c)
      <3>1. CASE pending[xid[c]] = Free
        <4>1. /\ pending' = [pending EXCEPT ![xid[c]] = Registered(c)]
              /\ pc' = [pc EXCEPT ![c] = "check"] /\ xid' = xid /\ pc[c] = "insert"
          BY <2>3, <3>1, Zenon DEF Insert
        <4>2. \A x \in Xids : x # xid[c] => pending'[x] = pending[x]
          BY <1>1, <4>1, Zenon
        <4>3. /\ pending'[xid[c]].caller = c /\ pending'[xid[c]] # Free
              /\ pc'[c] = "check" /\ \A d \in Callers : d # c => pc'[d] = pc[d]
          BY <1>1, <4>1, RegisteredEntry, Zenon
        <4>4. OwnerInv'
          BY <1>1, <1>2, <2>1, <4>1, <4>2, <4>3 DEF OwnerInv, Registering
        <4>5. RegInv'
          BY <1>1, <1>2, <2>1, <3>1, <4>1, <4>2, <4>3, Zenon DEF RegInv, Registering
        <4> QED
          BY <4>4, <4>5, Zenon
      <3>2. CASE pending[xid[c]] # Free
        BY <1>1, <1>2, <2>1, <2>3, <3>2 DEF Insert, OwnerInv, RegInv, Registering
      <3> QED
        BY <3>1, <3>2, Zenon
    <2>4. CASE Enqueue(c) \/ Passes(c)
      <3>1. Drained => closed
        BY Zenon DEF IInv, ClosedInv, Drained
      <3> QED
        BY <1>1, <1>2, <2>1, <2>4, <3>1 DEF Enqueue, Passes, OwnerInv, RegInv, Registering
    <2>5. CASE Ends(c)
      <3>1. /\ pending' = [pending EXCEPT ![xid[c]] = Free] /\ xid' = [xid EXCEPT ![c] = 0]
            /\ pc' = [pc EXCEPT ![c] = "idle"] /\ pc[c] \in Registering
        BY <2>5, Zenon DEF Ends, End
      <3>2. OwnerInv'
        BY <1>1, <1>2, <2>1, <3>1, Zenon DEF OwnerInv
      <3>3. RegInv'
        BY <1>1, <1>2, <2>1, <3>1, Zenon DEF RegInv, Registering
      <3> QED
        BY <3>2, <3>3, Zenon
    <2> QED
      BY <1>3, <2>2, <2>3, <2>4, <2>5, Zenon
  <1>4. CASE WriterRecv \/ WriterFill \/ WriteRecord \/ WriteError \/ WriterEnd \/ WriterClose
    BY <1>4, OwnerKept, Zenon
    DEF Drained, WriterRecv, WriterFill, WriteRecord, WriteError, WriterEnd, WriterClose
  <1>5. CASE ReadError \/ ReaderClose \/ SendReply
    BY <1>5, OwnerKept, Zenon DEF Drained, ReadError, ReaderClose, SendReply
  <1>6. CASE Drains
    <2>1. Drained' /\ \A x \in Xids : pending'[x] = Free
      BY <1>6, Zenon DEF Drains, FailAll, Drained
    <2> QED
      BY <2>1, Zenon DEF OwnerInv, RegInv
  <1>7. ASSUME NEW r \in wire, ReadReply(r) PROVE OwnerInv' /\ RegInv'
    <2>1. Drained' = Drained /\ UNCHANGED <<pc, xid>>
      BY <1>7, Zenon DEF ReadReply, Drained
    <2>2. \A x \in Xids : /\ pending'[x] = Free <=> pending[x] = Free
                          /\ pending[x] # Free => pending'[x].caller = pending[x].caller
      <3>1. CASE pending[r.xid].tx
        <4>1. r.xid \in Xids /\ pending[r.xid] # Free /\ pending[r.xid] \in Entry
          BY <1>1, <3>1, Entries, Zenon DEF TypeOK, Record
        <4>2. pending' = [pending EXCEPT ![r.xid] = [pending[r.xid] EXCEPT !.tx = FALSE]]
          BY <1>7, <3>1, Zenon DEF ReadReply, TakeSender
        <4>3. /\ [pending[r.xid] EXCEPT !.tx = FALSE] # Free
              /\ [pending[r.xid] EXCEPT !.tx = FALSE].caller = pending[r.xid].caller
          BY <4>1, Zenon DEF Entry, Free
        <4> QED
          BY <1>1, <4>1, <4>2, <4>3, Zenon
      <3>2. CASE ~pending[r.xid].tx
        BY <1>7, <3>2, Zenon DEF ReadReply
      <3> QED
        BY <3>1, <3>2, Zenon
    <2> QED
      BY <1>1, <2>1, <2>2, Zenon DEF OwnerInv, RegInv
  <1>8. CASE UNCHANGED vars
    BY <1>8, OwnerKept, Zenon DEF vars, Drained
  <1> QED
    BY <1>1, <1>3, <1>4, <1>5, <1>6, <1>7, <1>8, NextCases, Zenon DEF IInv

LEMMA NoHandTo == \A c \in Callers : NoHand.to # CurrentCall(c)
  BY Zenon DEF NoHand, CurrentCall

LEMMA SenderStep ==
  ASSUME IInv, [Next]_vars
  PROVE  SenderInv'
  <1>1. /\ TypeOK /\ pc \in [Callers -> CallerPCs] /\ xid \in [Callers -> Xids]
        /\ pending \in [Xids -> {Free} \cup Entry] /\ calls \in [Callers -> 0 .. MaxCalls]
        /\ inbox \in [Callers -> {NoMsg, LostMsg} \cup ReplyMsg] /\ closed \in BOOLEAN
        /\ SenderInv
    BY Zenon DEF IInv, TypeOK
  <1> USE DEF callerVars, writerVars, readerVars, Goto, CurrentCall
  <1>2. ASSUME NEW c \in Callers,
               Call(c) \/ NextXid(c) \/ Insert(c) \/ Enqueue(c) \/ Passes(c) \/ Ends(c)
        PROVE  SenderInv'
    <2>1. CASE Call(c) \/ NextXid(c) \/ Enqueue(c) \/ Passes(c)
      <3>1. UNCHANGED <<closed, pending, inbox, hand>>
        BY <2>1, Zenon DEF Call, NextXid, Enqueue, Passes
      <3>2. \A d \in Callers : d # c => UNCHANGED <<pc[d], xid[d], calls[d]>>
        BY <1>1, <2>1, Zenon DEF Call, NextXid, Enqueue, Passes
      <3>3. \/ pc'[c] \notin Registering
            \/ /\ UNCHANGED <<xid, calls>> /\ pc'[c] \in Registering \ {"check"}
               /\ pc[c] \in Registering /\ (pc[c] = "check" => ~closed)
        BY <1>1, <2>1, Zenon DEF Call, NextXid, Enqueue, Passes, Registering
      <3> QED
        BY <1>1, <3>1, <3>2, <3>3 DEF SenderInv, Registering
    <2>2. CASE Insert(c)
      <3>1. UNCHANGED <<closed, inbox, hand, xid, calls>>
            /\ \A d \in Callers : d # c => pc'[d] = pc[d]
        BY <1>1, <2>2, Zenon DEF Insert
      <3>2. pc'[c] = "xid" \/ pending'[xid[c]] = Registered(c)
        BY <1>1, <2>2, Zenon DEF Insert
      <3>3. ASSUME NEW d \in Callers, pending[xid[d]] = Registered(d)
            PROVE  pending'[xid[d]] = pending[xid[d]]
        <4>1. \/ pending' = pending
              \/ pending[xid[c]] = Free /\ pending' = [pending EXCEPT ![xid[c]] = Registered(c)]
          BY <2>2, Zenon DEF Insert
        <4> QED
          BY <1>1, <3>3, <4>1, RegisteredEntry, Zenon
      <3> QED
        BY <1>1, <3>1, <3>2, <3>3, Zenon DEF SenderInv
    <2>3. CASE Ends(c)
      <3>1. /\ pending' = [pending EXCEPT ![xid[c]] = Free] /\ xid' = [xid EXCEPT ![c] = 0]
            /\ pc' = [pc EXCEPT ![c] = "idle"] /\ pc[c] \in Registering
            /\ inbox' = [inbox EXCEPT ![c] = NoMsg] /\ UNCHANGED <<closed, hand, calls>>
        BY <2>3, Zenon DEF Ends, End
      <3>2. ASSUME NEW d \in Callers, d # c, pending[xid[d]] = Registered(d),
                   pc[d] \in {"send", "sent", "await"} \/ (pc[d] = "check" /\ ~closed)
            PROVE  xid[d] # xid[c]
        <4>1. pending[xid[d]] # Free /\ pending[xid[d]].caller = d /\ xid[d] \in Xids
          BY <1>1, <3>2, RegisteredEntry, Zenon
        <4>2. Drained => pc[d] = "check" /\ closed
          BY <4>1, Zenon DEF IInv, OwnerInv, ClosedInv, Drained
        <4>3. ~Drained
          BY <3>2, <4>2, Zenon
        <4>4. pending[xid[c]].caller = c
          BY <3>1, <4>3, Zenon DEF IInv, RegInv
        <4> QED
          BY <3>2, <4>1, <4>4, Zenon
      <3> QED
        BY <1>1, <3>1, <3>2, Zenon DEF SenderInv
    <2> QED
      BY <1>2, <2>1, <2>2, <2>3, Zenon
  <1>3. CASE WriterRecv \/ WriterFill \/ WriteRecord \/ WriteError \/ WriterEnd \/ WriterClose
    BY <1>1, <1>3, Zenon
    DEF SenderInv, WriterRecv, WriterFill, WriteRecord, WriteError, WriterEnd, WriterClose
  <1>4. CASE ReadError \/ ReaderClose
    BY <1>1, <1>4, Zenon DEF SenderInv, ReadError, ReaderClose
  <1>5. CASE Drains
    <2>1. \A c \in Callers : inbox[c] # NoMsg \/ pending[xid[c]] = Registered(c) => inbox'[c] # NoMsg
      BY <1>1, <1>5, Zenon DEF Drains, FailAll, NoMsg, LostMsg
    <2> QED
      BY <1>1, <1>5, <2>1, Zenon DEF SenderInv, Drains
  <1>6. ASSUME NEW r \in wire, ReadReply(r) PROVE SenderInv'
    <2>1. hand = NoHand /\ UNCHANGED <<pc, closed, xid, calls, inbox>>
      BY <1>6, Zenon DEF ReadReply, IInv, HandInv
    <2>2. \A c \in Callers : pending[xid[c]] = Registered(c) =>
             pending'[xid[c]] = Registered(c) \/ hand'.to = CurrentCall(c)
      <3>1. SUFFICES ASSUME NEW c \in Callers, pending[xid[c]] = Registered(c), r.xid = xid[c]
                     PROVE  hand'.to = CurrentCall(c)
        BY <1>1, <1>6, Zenon DEF ReadReply, TakeSender
      <3>2. pending[r.xid].caller = c /\ pending[r.xid].tx
        BY <3>1, RegisteredEntry, Zenon
      <3> QED
        BY <1>6, <3>2 DEF ReadReply
    <2> QED
      BY <1>1, <2>1, <2>2, NoHandTo, Zenon DEF SenderInv
  <1>7. CASE SendReply
    <2>1. /\ hand \in [to : Calls, of : Calls] /\ UNCHANGED <<pc, closed, xid, calls, pending>>
      BY <1>7, Zenon DEF SendReply, IInv, HandInv
    <2>2. PICK k \in {"reply", "bad"} :
            inbox' = IF Ended(hand.to) THEN inbox
                     ELSE [inbox EXCEPT ![hand.to[1]] = [kind |-> k, of |-> hand.of]]
      BY <1>7, Zenon DEF SendReply
    <2>3. [kind |-> k, of |-> hand.of] # NoMsg
      BY Zenon DEF NoMsg
    <2>4. \A c \in Callers : pc[c] # "idle" /\ hand.to = CurrentCall(c) => ~Ended(hand.to) /\ hand.to[1] = c
      BY DEF Ended
    <2>5. \A c \in Callers : inbox[c] # NoMsg => inbox'[c] # NoMsg
      BY <1>1, <2>2, <2>3, Zenon
    <2>6. \A c \in Callers : pc[c] # "idle" /\ hand.to = CurrentCall(c) => inbox'[c] # NoMsg
      BY <1>1, <2>2, <2>3, <2>4, Zenon
    <2> QED
      BY <1>1, <2>1, <2>5, <2>6, Zenon DEF SenderInv
  <1>8. CASE UNCHANGED vars
    BY <1>1, <1>8, Zenon DEF vars, SenderInv
  <1> QED
    BY <1>1, <1>2, <1>3, <1>4, <1>5, <1>6, <1>7, <1>8, NextCases, Zenon DEF IInv
-----------------------------------------------------------------------------
\* How a step may change what a caller does.
LEMMA CallerEffect ==
  ASSUME IInv, [Next]_vars, NEW d \in Callers
  PROVE  /\ calls[d] \in Nat
         /\ pc[d] # "idle" => calls'[d] = calls[d]
         /\ pc[d] = "idle" => \/ calls'[d] = calls[d] /\ pc'[d] = "idle"
                              \/ calls'[d] = calls[d] + 1 /\ pc'[d] \in {"idle", "xid"}
         /\ pc[d] \in {"sent", "await"} =>
              pc'[d] = "idle" \/ (pc'[d] \in {"sent", "await"} /\ xid'[d] = xid[d])
         /\ pc[d] = "check" =>
              pc'[d] = "idle" \/ pc'[d] = "check" \/ (pc'[d] = "send" /\ ~closed)
         /\ pc[d] \in Registering =>
              pc'[d] = "idle" \/ pc'[d] \in Registering
         /\ closed => closed'
  <1>1. /\ TypeOK /\ pc \in [Callers -> CallerPCs] /\ xid \in [Callers -> Xids]
        /\ calls \in [Callers -> 0 .. MaxCalls] /\ closed \in BOOLEAN
    BY Zenon DEF IInv, TypeOK
  <1> USE <1>1, MaxCallsAssumption DEF callerVars, writerVars, readerVars, Goto, Registering
  <1>2. ASSUME NEW c \in Callers, Call(c) \/ NextXid(c) \/ Insert(c)
        PROVE  /\ d # c => UNCHANGED <<pc[d], xid[d], calls[d]>>
               /\ d = c => /\ pc[d] \notin Registering
                           /\ pc[d] # "idle" => calls'[d] = calls[d]
                           /\ pc[d] = "idle" =>
                                calls'[d] = calls[d] + 1 /\ pc'[d] \in {"idle", "xid"}
               /\ closed' = closed
    BY <1>2, Zenon DEF Call, NextXid, Insert
  <1>3. ASSUME NEW c \in Callers, Enqueue(c) \/ Passes(c) \/ Ends(c)
        PROVE  /\ d # c => UNCHANGED <<pc[d], xid[d]>>
               /\ d = c => \/ pc'[d] = "idle" /\ pc[d] \in Registering
                           \/ /\ xid'[d] = xid[d]
                              /\ \/ pc[d] = "check" /\ ~closed /\ pc'[d] = "send"
                                 \/ pc[d] = "send" /\ pc'[d] = "sent"
                                 \/ pc[d] = "sent" /\ pc'[d] = "await"
               /\ UNCHANGED <<calls, closed>>
    BY <1>3, Zenon DEF Enqueue, Passes, Ends, End
  <1>4. CASE WriterRecv \/ WriterFill \/ WriteRecord \/ WriteError \/ WriterEnd \/ WriterClose
    BY <1>4 DEF WriterRecv, WriterFill, WriteRecord, WriteError, WriterEnd, WriterClose
  <1>5. CASE ReadError \/ ReaderClose \/ Drains \/ SendReply
    BY <1>5 DEF ReadError, ReaderClose, Drains, SendReply
  <1>6. ASSUME NEW r \in wire, ReadReply(r) PROVE UNCHANGED <<pc, xid, calls, closed>>
    BY <1>6, Zenon DEF ReadReply
  <1>7. CASE UNCHANGED vars
    BY <1>7 DEF vars
  <1> QED
    BY <1>2, <1>3, <1>4, <1>5, <1>6, <1>7, NextCases DEF IInv

\* A call that is over stays over, and a queued one stays queued.
LEMMA QueuedStep ==
  ASSUME IInv, [Next]_vars, NEW id \in Calls, id[2] <= calls[id[1]]
  PROVE  /\ id[2] <= calls'[id[1]]
         /\ Ended(id) => Ended(id)'
         /\ Queued(id) => Queued(id)'
         /\ Queued(id) /\ ~Ended(id)' => xid'[id[1]] = xid[id[1]]
  <1>1. id[1] \in Callers /\ id[2] \in Nat
    BY MaxCallsAssumption DEF Calls
  <1> DEFINE d == id[1]
  <1>2. /\ calls[d] \in Nat
        /\ pc[d] # "idle" => calls'[d] = calls[d]
        /\ pc[d] = "idle" => \/ calls'[d] = calls[d] /\ pc'[d] = "idle"
                             \/ calls'[d] = calls[d] + 1 /\ pc'[d] \in {"idle", "xid"}
        /\ pc[d] \in {"sent", "await"} =>
              pc'[d] = "idle" \/ (pc'[d] \in {"sent", "await"} /\ xid'[d] = xid[d])
    BY <1>1, CallerEffect, Zenon
  <1> HIDE DEF d
  <1>3. calls'[d] \in Nat /\ (calls'[d] = calls[d] \/ calls'[d] = calls[d] + 1)
    BY <1>2
  <1>4. id[2] <= calls'[d]
    BY <1>1, <1>2, <1>3 DEF d
  <1>5. Ended(id) => Ended(id)'
    BY <1>1, <1>2, <1>3 DEF d, Ended
  <1> QED
    BY <1>1, <1>2, <1>3, <1>4, <1>5, Zenon DEF d, Ended, Queued

\* The records in flight after a step, and where they are.
LEMMA RecordEffect ==
  ASSUME IInv, [Next]_vars
  PROVE  \/ \E c \in Callers :
              /\ Enqueue(c)
              /\ RecordOf(c) \in Record
              /\ InFlight' = InFlight \cup {RecordOf(c)}
              /\ Ids(queue)' = Ids(queue) \cup {CurrentCall(c)}
              /\ UNCHANGED <<batch, written, wire>>
              /\ CurrentCall(c) \notin Ids(queue) => Distinct(queue)'
         \/ /\ InFlight' \subseteq InFlight
            /\ \/ /\ Ids(queue)' \cup Ids(batch)' = Ids(queue) \cup Ids(batch)
                  /\ Ids(queue)' \subseteq Ids(queue)
                  /\ UNCHANGED written /\ wire' \subseteq wire
               \/ WriteRecord \/ WriteError \/ WriterEnd
            /\ QueueInv => /\ Distinct(queue)' /\ Distinct(batch)'
                           /\ Ids(queue)' \cap Ids(batch)' = {}
  <1>1. TypeOK /\ queue \in Seq(Record) /\ batch \in Seq(Record) /\ wire \in SUBSET Record
    BY Zenon DEF IInv, TypeOK
  <1> USE DEF callerVars, writerVars, readerVars, Goto
  <1>2. ASSUME UNCHANGED <<queue, batch, written>>, wire' \subseteq wire
        PROVE  /\ InFlight' \subseteq InFlight
               /\ Ids(queue)' \cup Ids(batch)' = Ids(queue) \cup Ids(batch)
               /\ Ids(queue)' \subseteq Ids(queue)
               /\ QueueInv => /\ Distinct(queue)' /\ Distinct(batch)'
                              /\ Ids(queue)' \cap Ids(batch)' = {}
    BY <1>2 DEF InFlight, QueueInv, Members, Ids, Distinct
  <1>3. ASSUME NEW c \in Callers, Enqueue(c)
        PROVE  /\ RecordOf(c) \in Record
               /\ InFlight' = InFlight \cup {RecordOf(c)}
               /\ Ids(queue)' = Ids(queue) \cup {CurrentCall(c)}
               /\ UNCHANGED <<batch, written, wire>>
               /\ CurrentCall(c) \notin Ids(queue) => Distinct(queue)'
    <2>1. RecordOf(c) \in Record /\ RecordOf(c).id = CurrentCall(c)
      BY <1>1, Zenon DEF RecordOf, Record, CurrentCall, Calls, TypeOK
    <2>2. queue' = Append(queue, RecordOf(c)) /\ UNCHANGED <<batch, written, wire>>
      BY <1>3, Zenon DEF Enqueue
    <2>3. /\ Ids(queue') = Ids(queue) \cup {CurrentCall(c)}
          /\ Members(queue') = Members(queue) \cup {RecordOf(c)}
          /\ CurrentCall(c) \notin Ids(queue) /\ Distinct(queue) => Distinct(queue')
      BY <1>1, <2>1, <2>2, IdsAppend
    <2>4. Distinct(queue)
      BY Zenon DEF IInv, QueueInv
    <2> QED
      BY <2>1, <2>2, <2>3, <2>4, Zenon DEF InFlight
  <1>4. ASSUME NEW c \in Callers, Call(c) \/ NextXid(c) \/ Insert(c) \/ Passes(c) \/ Ends(c)
        PROVE  UNCHANGED <<queue, batch, written, wire>>
    BY <1>4, Zenon DEF Call, NextXid, Insert, Passes, Ends, End
  <1>5. CASE WriterClose \/ ReadError \/ ReaderClose \/ SendReply
    BY <1>2, <1>5, Zenon DEF WriterClose, ReadError, ReaderClose, SendReply
  <1>6. CASE Drains
    BY <1>2, <1>6, Zenon DEF Drains
  <1>7. ASSUME NEW r \in wire, ReadReply(r)
        PROVE  UNCHANGED <<queue, batch, written>> /\ wire' \subseteq wire
    BY <1>7, Zenon DEF ReadReply
  <1>8. CASE UNCHANGED vars
    BY <1>2, <1>8, Zenon DEF vars
  <1>9. ASSUME queue # <<>>, NEW b \in Seq(Record), Ids(b) \cap Ids(queue) = {}, Distinct(b),
               queue' = Tail(queue), batch' = Append(b, Head(queue)), Distinct(queue),
               Ids(b) \subseteq Ids(batch), Members(b) \subseteq Members(batch),
               UNCHANGED <<wire, written>>, Ids(batch) \subseteq Ids(b)
        PROVE  /\ InFlight' \subseteq InFlight
               /\ Ids(queue)' \cup Ids(batch)' = Ids(queue) \cup Ids(batch)
               /\ Ids(queue)' \subseteq Ids(queue)
               /\ Distinct(queue)' /\ Distinct(batch)' /\ Ids(queue)' \cap Ids(batch)' = {}
    <2>1. /\ Head(queue) \in Record
          /\ Ids(queue) = Ids(queue') \cup {Head(queue).id}
          /\ Members(queue) = Members(queue') \cup {Head(queue)}
          /\ Distinct(queue') /\ Head(queue).id \notin Ids(queue')
      BY <1>1, <1>9, IdsTail, Zenon
    <2>2. /\ Ids(batch') = Ids(b) \cup {Head(queue).id}
          /\ Members(batch') = Members(b) \cup {Head(queue)}
          /\ Head(queue).id \notin Ids(b) => Distinct(batch')
      BY <1>9, <2>1, IdsAppend, Zenon
    <2>3. Head(queue).id \notin Ids(b)
      BY <1>9, <2>1, Zenon
    <2> QED
      BY <1>9, <2>1, <2>2, <2>3, Zenon DEF InFlight
  <1>10. CASE WriterRecv
    <2>1. batch = <<>> /\ <<Head(queue)>> = Append(<<>>, Head(queue))
      BY <1>10 DEF WriterRecv, IInv, QueueInv
    <2>2. Ids(<<>>) \cap Ids(queue) = {} /\ Distinct(<<>>) /\ <<>> \in Seq(Record)
      BY IdsEmpty, Zenon
    <2> QED
      BY <1>9, <1>10, <2>1, <2>2, Zenon DEF WriterRecv, IInv, QueueInv
  <1>11. CASE WriterFill
    BY <1>1, <1>2, <1>9, <1>11, Zenon DEF WriterFill, IInv, QueueInv
  <1>12. CASE WriteRecord
    <2>1. /\ batch # <<>> /\ batch' = Tail(batch) /\ queue' = queue
          /\ wire' = wire \cup {Head(batch)}
      BY <1>12, Zenon DEF WriteRecord
    <2>2. /\ Ids(batch) = Ids(batch') \cup {Head(batch).id}
          /\ Members(batch) = Members(batch') \cup {Head(batch)}
          /\ Distinct(batch) => Distinct(batch')
      BY <1>1, <2>1, IdsTail, Zenon
    <2>3. InFlight' \subseteq InFlight
      BY <2>1, <2>2, Zenon DEF InFlight
    <2> QED
      BY <1>12, <2>1, <2>2, <2>3, Zenon DEF QueueInv
  <1>13. CASE WriteError \/ WriterEnd
    BY <1>1, <1>13, IdsEmpty, Zenon DEF WriteError, WriterEnd, InFlight, QueueInv
  <1> QED
    BY <1>1, <1>2, <1>3, <1>4, <1>5, <1>6, <1>7, <1>8, <1>10, <1>11, <1>12, <1>13, NextCases, Zenon DEF IInv

LEMMA FlightIds ==
  ASSUME TypeOK, FlightInv
  PROVE  /\ InFlight \subseteq Record
         /\ \A id \in Ids(queue) \cup Ids(batch) : id \in Calls /\ Queued(id)
  <1>1. InFlight \subseteq Record
    <2>1. queue \in Seq(Record) /\ batch \in Seq(Record) /\ wire \subseteq Record
      BY Zenon DEF TypeOK
    <2>2. Members(queue) \subseteq Record /\ Members(batch) \subseteq Record
      BY <2>1 DEF Members
    <2> QED
      BY <2>1, <2>2, Zenon DEF InFlight
  <1>2. \A id \in Ids(queue) \cup Ids(batch) : \E r \in InFlight : r.id = id
    BY Zenon DEF Ids, InFlight, Members
  <1> QED
    BY <1>1, <1>2, Zenon DEF FlightInv, Record

LEMMA FlightStep ==
  ASSUME IInv, [Next]_vars
  PROVE  FlightInv'
  <1>1. TypeOK /\ FlightInv /\ InFlight \subseteq Record
    BY FlightIds, Zenon DEF IInv
  <1>2. ASSUME NEW r \in InFlight
        PROVE  (Queued(r.id) /\ (~Ended(r.id) => xid[r.id[1]] = r.xid))'
    <2>1. r.id \in Calls /\ Queued(r.id) /\ (~Ended(r.id) => xid[r.id[1]] = r.xid)
      BY <1>1, Zenon DEF FlightInv, Record
    <2>2. /\ Ended(r.id) => Ended(r.id)'
          /\ Queued(r.id)'
          /\ ~Ended(r.id)' => xid'[r.id[1]] = xid[r.id[1]]
      BY <2>1, QueuedStep, Zenon DEF Queued
    <2> QED
      BY <2>1, <2>2, Zenon
  <1>3. ASSUME NEW c \in Callers, Enqueue(c), NEW r, r = RecordOf(c)
        PROVE  (Queued(r.id) /\ (~Ended(r.id) => xid[r.id[1]] = r.xid))'
    <2>1. r.id = <<c, calls[c]>> /\ r.xid = xid[c] /\ UNCHANGED <<calls, xid>> /\ pc'[c] = "sent"
      BY <1>1, <1>3, Zenon DEF RecordOf, CurrentCall, Enqueue, Goto, TypeOK
    <2>2. calls[c] <= calls[c]
      BY <1>1, MaxCallsAssumption DEF TypeOK
    <2> QED
      BY <2>1, <2>2 DEF Queued
  <1>4. ASSUME NEW c \in Callers, Enqueue(c), InFlight' = InFlight \cup {RecordOf(c)}
        PROVE  FlightInv'
    BY <1>2, <1>3, <1>4, Zenon DEF FlightInv
  <1>5. ASSUME InFlight' \subseteq InFlight PROVE FlightInv'
    BY <1>2, <1>5, Zenon DEF FlightInv
  <1> QED
    BY <1>4, <1>5, RecordEffect, Zenon

LEMMA QueueStep ==
  ASSUME IInv, [Next]_vars
  PROVE  QueueInv'
  <1>1. TypeOK /\ FlightInv /\ QueueInv /\ written \subseteq Calls /\ batch \in Seq(Record)
    BY Zenon DEF IInv, TypeOK
  <1>2. \A id \in Ids(queue) \cup Ids(batch) \cup written : id \in Calls /\ Queued(id)
    BY <1>1, FlightIds, Zenon DEF QueueInv
  <1>3. \A id \in Ids(queue) \cup Ids(batch) \cup written : Queued(id)'
    BY <1>2, QueuedStep, Zenon DEF Queued
  <1>4. wpc' = "recv" => batch' = <<>>
    <2> USE DEF callerVars, writerVars, readerVars
    <2>1. ASSUME NEW c \in Callers,
                 Call(c) \/ NextXid(c) \/ Insert(c) \/ Enqueue(c) \/ Passes(c) \/ Ends(c)
          PROVE  UNCHANGED <<wpc, batch>>
      BY <2>1, Zenon DEF Call, NextXid, Insert, Enqueue, Passes, Ends, End
    <2>2. ASSUME NEW r \in wire, ReadReply(r) PROVE UNCHANGED <<wpc, batch>>
      BY <2>2, Zenon DEF ReadReply
    <2>3. CASE ReadError \/ ReaderClose \/ SendReply \/ UNCHANGED vars
      BY <1>1, <2>3, Zenon DEF ReadError, ReaderClose, SendReply, vars, QueueInv
    <2>4. CASE Drains
      BY <1>1, <2>4, Zenon DEF Drains, QueueInv
    <2>5. CASE WriterRecv \/ WriterFill \/ WriteError \/ WriterEnd \/ WriterClose
      BY <1>1, <2>5, Zenon DEF WriterRecv, WriterFill, WriteError, WriterEnd, WriterClose, QueueInv
    <2>6. CASE WriteRecord
      BY <1>1, <2>6 DEF WriteRecord
    <2> QED
      BY <1>1, <2>1, <2>2, <2>3, <2>4, <2>5, <2>6, NextCases, Zenon DEF IInv, QueueInv
  <1>5. ASSUME NEW c \in Callers, Enqueue(c),
               Ids(queue)' = Ids(queue) \cup {CurrentCall(c)},
               UNCHANGED <<batch, written, wire>>,
               CurrentCall(c) \notin Ids(queue) => Distinct(queue)'
        PROVE  QueueInv'
    <2>1. ~Queued(CurrentCall(c))
      BY <1>5, Zenon DEF Enqueue, Queued, Ended, CurrentCall
    <2>2. CurrentCall(c) \notin Ids(queue) \cup Ids(batch) \cup written
      BY <1>2, <2>1, Zenon
    <2>3. Ids(batch)' = Ids(batch) /\ Distinct(batch)'
      BY <1>1, <1>5 DEF Ids, Distinct, QueueInv
    <2> QED
      BY <1>1, <1>3, <1>4, <1>5, <2>2, <2>3, Zenon DEF QueueInv
  <1>6. ASSUME Ids(queue)' \cup Ids(batch)' = Ids(queue) \cup Ids(batch),
               UNCHANGED written, wire' \subseteq wire,
               Distinct(queue)', Distinct(batch)', Ids(queue)' \cap Ids(batch)' = {}
        PROVE  QueueInv'
    <2>1. Ids(queue)' \cap written' = {} /\ Ids(batch)' \cap written' = {}
      BY <1>1, <1>6, Zenon DEF QueueInv
    <2> QED
      BY <1>1, <1>3, <1>4, <1>6, <2>1, Zenon DEF QueueInv
  <1>7. ASSUME WriteRecord, Distinct(queue)', Distinct(batch)', Ids(queue)' \cap Ids(batch)' = {}
        PROVE  QueueInv'
    <2>1. /\ wire' = wire \cup {Head(batch)} /\ written' = written \cup {Head(batch).id}
          /\ batch' = Tail(batch) /\ batch # <<>> /\ queue' = queue
      BY <1>7, Zenon DEF WriteRecord
    <2>2. /\ Ids(batch) = Ids(batch') \cup {Head(batch).id}
          /\ Head(batch).id \notin Ids(batch') /\ Ids(queue)' = Ids(queue)
      BY <1>1, <2>1, IdsTail, Zenon DEF QueueInv
    <2>3. Ids(queue)' \cap written' = {} /\ Ids(batch)' \cap written' = {}
      BY <1>1, <2>1, <2>2, Zenon DEF QueueInv
    <2>4. \A id \in written' : Queued(id)'
      BY <1>3, <2>1, <2>2, Zenon
    <2>5. \A r \in wire' : r.id \in written'
      BY <1>1, <2>1, Zenon DEF QueueInv
    <2> QED
      BY <1>4, <1>7, <2>3, <2>4, <2>5, Zenon DEF QueueInv
  <1>8. ASSUME WriteError \/ WriterEnd, Distinct(queue)', Distinct(batch)',
               Ids(queue)' \cap Ids(batch)' = {}
        PROVE  QueueInv'
    <2>1. /\ UNCHANGED <<wire, written>> /\ (queue' = queue \/ queue' = <<>>)
          /\ (batch' = batch \/ batch' = <<>>)
      BY <1>8, Zenon DEF WriteError, WriterEnd
    <2>2. Ids(queue)' \subseteq Ids(queue) /\ Ids(batch)' \subseteq Ids(batch)
      BY <2>1, IdsEmpty, Zenon
    <2>3. Ids(queue)' \cap written' = {} /\ Ids(batch)' \cap written' = {}
      BY <1>1, <2>1, <2>2, Zenon DEF QueueInv
    <2> QED
      BY <1>1, <1>3, <1>4, <1>8, <2>1, <2>3, Zenon DEF QueueInv
  <1> QED
    BY <1>1, <1>5, <1>6, <1>7, <1>8, RecordEffect, Zenon
-----------------------------------------------------------------------------
LEMMA WrittenGrows ==
  ASSUME IInv, [Next]_vars
  PROVE  written \subseteq written'
  BY RecordEffect, Zenon DEF WriteRecord, WriteError, WriterEnd

\* A reply is handed to the call it answers, unless a drain has come between.
LEMMA HandOwner ==
  ASSUME IInv, NEW r \in wire, Arrives(r), pending[r.xid].tx
  PROVE  LET d == pending[r.xid].caller
         IN  d \in Callers /\ (r.id = CurrentCall(d) \/ (pc[d] = "check" /\ closed))
  <1>1. r \in Record /\ r.xid \in Xids /\ r.id \in Calls
    BY Zenon DEF IInv, TypeOK, Record
  <1>2. pending[r.xid] # Free /\ pending[r.xid].caller \in Callers
    BY <1>1, Entries, Zenon DEF IInv
  <1> DEFINE d == pending[r.xid].caller
  <1>3. CASE Drained
    BY <1>1, <1>2, <1>3, Zenon DEF IInv, OwnerInv, ClosedInv, Drained
  <1>4. CASE ~Drained
    <2>1. ~Ended(r.id)
      BY <1>2, Zenon DEF Arrives
    <2>2. /\ pc[r.id[1]] \in Registering /\ xid[r.id[1]] = r.xid /\ r.id[1] \in Callers
          /\ r.id = CurrentCall(r.id[1])
      BY <1>1, <2>1 DEF IInv, FlightInv, InFlight, Queued, Registering, Calls, Ended, CurrentCall
    <2>3. pending[xid[r.id[1]]].caller = r.id[1]
      BY <1>4, <2>2, Zenon DEF IInv, RegInv
    <2> QED
      BY <1>2, <2>2, <2>3, Zenon
  <1> QED
    BY <1>2, <1>3, <1>4, Zenon

LEMMA HandStep ==
  ASSUME IInv, [Next]_vars
  PROVE  HandInv'
  <1>1. TypeOK /\ HandInv /\ written \subseteq written'
    BY WrittenGrows, Zenon DEF IInv
  <1>2. ASSUME UNCHANGED hand, rpc' = rpc \/ (rpc # "reply" /\ rpc' # "reply")
        PROVE  HandInv'
    <2>1. CASE rpc # "reply"
      BY <1>1, <1>2, <2>1, Zenon DEF HandInv
    <2>2. CASE rpc = "reply"
      <3>1. hand.to \in Calls /\ hand.to[1] \in Callers /\ hand.to[2] <= calls[hand.to[1]]
        BY <1>1, <2>2, Zenon DEF HandInv, Calls
      <3>2. hand.to[2] <= calls'[hand.to[1]] /\ (Ended(hand.to) => (Ended(hand.to))')
        BY <1>2, <3>1, QueuedStep, Zenon
      <3>3. pc[hand.to[1]] = "check" /\ closed =>
              pc'[hand.to[1]] = "idle" \/ (pc'[hand.to[1]] = "check" /\ closed')
        BY <3>1, CallerEffect, Zenon
      <3> QED
        BY <1>1, <1>2, <2>2, <3>2, <3>3, Zenon DEF HandInv, Ended
    <2> QED
      BY <2>1, <2>2, Zenon
  <1>3. ASSUME NEW r \in wire, ReadReply(r) PROVE HandInv'
    <2>1. CASE ~pending[r.xid].tx
      BY <1>2, <1>3, <2>1, Zenon DEF ReadReply
    <2>2. CASE pending[r.xid].tx
      <3> DEFINE d == pending[r.xid].caller
      <3>1. /\ rpc' = "reply" /\ hand' = [to |-> CurrentCall(d), of |-> r.id] /\ Arrives(r)
            /\ UNCHANGED <<pc, calls, closed, written>>
        BY <1>3, <2>2, Zenon DEF ReadReply, callerVars, writerVars
      <3>2. d \in Callers /\ (r.id = CurrentCall(d) \/ (pc[d] = "check" /\ closed))
        BY <2>2, <3>1, HandOwner, Zenon
      <3>3. CurrentCall(d) \in Calls /\ r.id \in Calls /\ r.id \in written
        BY <1>1, <3>2, Zenon DEF TypeOK, CurrentCall, Calls, Record, IInv, QueueInv
      <3>4. calls[d] \in Nat
        BY <1>1, <3>2, MaxCallsAssumption DEF TypeOK
      <3> HIDE DEF d
      <3> QED
        BY <3>1, <3>2, <3>3, <3>4 DEF HandInv, CurrentCall
    <2> QED
      BY <2>1, <2>2, Zenon
  <1>4. CASE SendReply
    BY <1>4, Zenon DEF SendReply, HandInv
  <1> USE DEF callerVars, writerVars, readerVars
  <1>5. ASSUME NEW c \in Callers,
               Call(c) \/ NextXid(c) \/ Insert(c) \/ Enqueue(c) \/ Passes(c) \/ Ends(c)
        PROVE  UNCHANGED <<rpc, hand>>
    BY <1>5, Zenon DEF Call, NextXid, Insert, Enqueue, Passes, Ends, End
  <1>6. CASE WriterRecv \/ WriterFill \/ WriteRecord \/ WriteError \/ WriterEnd \/ WriterClose
    BY <1>2, <1>6, Zenon DEF WriterRecv, WriterFill, WriteRecord, WriteError, WriterEnd, WriterClose
  <1>7. CASE ReadError \/ ReaderClose \/ Drains \/ UNCHANGED vars
    BY <1>2, <1>7, Zenon DEF ReadError, ReaderClose, Drains, vars
  <1> QED
    BY <1>1, <1>2, <1>3, <1>4, <1>5, <1>6, <1>7, NextCases, Zenon DEF IInv

LEMMA InboxStep ==
  ASSUME IInv, [Next]_vars
  PROVE  InboxInv'
  <1>1. /\ TypeOK /\ InboxInv /\ written \subseteq written'
        /\ inbox \in [Callers -> {NoMsg, LostMsg} \cup ReplyMsg]
    BY WrittenGrows, Zenon DEF IInv, TypeOK
  <1> DEFINE Kept(c) == inbox'[c] # NoMsg =>
                          /\ pc'[c] \in Registering
                          /\ inbox'[c] # LostMsg =>
                               /\ inbox'[c].of \in written'
                               /\ \/ inbox'[c].of = CurrentCall(c)'
                                  \/ pc'[c] = "check" /\ closed'
  <1>2. ASSUME NEW c \in Callers, inbox'[c] = inbox[c], inbox[c] # NoMsg => pc'[c] # "idle"
        PROVE  Kept(c)
    <2>1. CASE inbox[c] = NoMsg
      BY <1>2, <2>1, Zenon
    <2>2. CASE inbox[c] # NoMsg
      <3>1. /\ pc[c] \in Registering
            /\ inbox[c] # LostMsg =>
                 /\ inbox[c].of \in written
                 /\ inbox[c].of = CurrentCall(c) \/ (pc[c] = "check" /\ closed)
        BY <1>1, <2>2, Zenon DEF InboxInv
      <3>2. /\ calls'[c] = calls[c] /\ pc'[c] \in Registering
            /\ pc[c] = "check" /\ closed => pc'[c] = "check" /\ closed'
        BY <1>2, <2>2, <3>1, CallerEffect, Zenon DEF Registering
      <3> QED
        BY <1>1, <1>2, <2>2, <3>1, <3>2, Zenon DEF CurrentCall
    <2> QED
      BY <2>1, <2>2, Zenon
  <1>3. ASSUME UNCHANGED <<pc, inbox>> PROVE InboxInv'
    BY <1>1, <1>2, <1>3, Zenon DEF InboxInv, Registering
  <1> USE DEF callerVars, writerVars, readerVars, Goto
  <1>4. ASSUME NEW c \in Callers,
               Call(c) \/ NextXid(c) \/ Insert(c) \/ Enqueue(c) \/ Passes(c)
        PROVE  InboxInv'
    <2>1. \A d \in Callers : inbox'[d] = inbox[d] /\ (inbox[d] # NoMsg => pc'[d] # "idle")
      BY <1>1, <1>4, Zenon DEF Call, NextXid, Insert, Enqueue, Passes, InboxInv, Registering, TypeOK
    <2> QED
      BY <1>2, <2>1, Zenon DEF InboxInv
  <1>5. ASSUME NEW c \in Callers, Ends(c) PROVE InboxInv'
    <2>1. inbox' = [inbox EXCEPT ![c] = NoMsg] /\ pc' = [pc EXCEPT ![c] = "idle"]
      BY <1>5, Zenon DEF Ends, End
    <2>2. \A d \in Callers : d # c => inbox'[d] = inbox[d] /\ (inbox[d] # NoMsg => pc'[d] # "idle")
      BY <1>1, <2>1, Zenon DEF InboxInv, Registering, TypeOK
    <2>3. inbox'[c] = NoMsg
      BY <1>1, <2>1, Zenon
    <2> QED
      BY <1>2, <2>2, <2>3, Zenon DEF InboxInv
  <1>6. CASE WriterRecv \/ WriterFill \/ WriteRecord \/ WriteError \/ WriterEnd \/ WriterClose
    BY <1>3, <1>6, Zenon DEF WriterRecv, WriterFill, WriteRecord, WriteError, WriterEnd, WriterClose
  <1>7. CASE ReadError \/ ReaderClose \/ UNCHANGED vars
    BY <1>3, <1>7, Zenon DEF ReadError, ReaderClose, vars
  <1>8. ASSUME NEW r \in wire, ReadReply(r) PROVE InboxInv'
    BY <1>3, <1>8, Zenon DEF ReadReply
  <1>9. CASE Drains
    <2>1. ASSUME NEW c \in Callers PROVE Kept(c)
      <3>1. CASE \E x \in Xids : pending[x] = Registered(c)
        <4>1. inbox'[c] = LostMsg /\ pc' = pc
          BY <1>9, <3>1, Zenon DEF Drains, FailAll
        <4>2. pc[c] \in Registering
          BY <3>1, RegisteredEntry, Zenon DEF IInv, OwnerInv
        <4> QED
          BY <4>1, <4>2, Zenon
      <3>2. CASE ~\E x \in Xids : pending[x] = Registered(c)
        <4>1. inbox'[c] = inbox[c] /\ pc' = pc
          BY <1>9, <3>2, Zenon DEF Drains, FailAll
        <4> QED
          BY <1>1, <1>2, <4>1, Zenon DEF InboxInv, Registering
      <3> QED
        BY <3>1, <3>2, Zenon
    <2> QED
      BY <2>1, Zenon DEF InboxInv
  <1>10. CASE SendReply
    <2>1. /\ hand \in [to : Calls, of : Calls] /\ hand.of \in written
          /\ hand.to = hand.of \/ Ended(hand.to) \/ (pc[hand.to[1]] = "check" /\ closed)
      BY <1>10, Zenon DEF SendReply, IInv, HandInv
    <2>2. UNCHANGED <<pc, calls, closed, written>>
      BY <1>10, Zenon DEF SendReply
    <2>3. PICK k \in {"reply", "bad"} :
            inbox' = IF Ended(hand.to) THEN inbox
                     ELSE [inbox EXCEPT ![hand.to[1]] = [kind |-> k, of |-> hand.of]]
      BY <1>10, Zenon DEF SendReply
    <2>4. ASSUME NEW c \in Callers PROVE Kept(c)
      <3>1. CASE Ended(hand.to) \/ c # hand.to[1]
        <4>1. inbox'[c] = inbox[c]
          BY <1>1, <2>3, <3>1, Zenon
        <4> QED
          BY <1>1, <1>2, <2>2, <4>1, Zenon DEF InboxInv, Registering
      <3>2. CASE ~Ended(hand.to) /\ c = hand.to[1]
        <4>1. inbox'[c] = [kind |-> k, of |-> hand.of]
          BY <1>1, <2>3, <3>2, Zenon
        <4>2. inbox'[c].of = hand.of
          BY <4>1
        <4>3. pc[c] # "idle" /\ hand.to = CurrentCall(c)
          BY <2>1, <3>2 DEF Ended, CurrentCall, Calls
        <4>4. CASE hand.to = hand.of
          <5>1. Queued(CurrentCall(c)) /\ ~Ended(CurrentCall(c))
            BY <2>1, <3>2, <4>3, <4>4, Zenon DEF IInv, QueueInv
          <5>2. pc[c] \in {"sent", "await"}
            BY <5>1, Zenon DEF Queued, CurrentCall
          <5> QED
            BY <2>1, <2>2, <4>2, <4>3, <4>4, <5>2, Zenon DEF Registering, CurrentCall
        <4>5. CASE pc[c] = "check" /\ closed
          BY <2>1, <2>2, <4>2, <4>5, Zenon DEF Registering
        <4> QED
          BY <2>1, <3>2, <4>4, <4>5, Zenon
      <3> QED
        BY <3>1, <3>2, Zenon
    <2> QED
      BY <2>4, Zenon DEF InboxInv
  <1> QED
    BY <1>1, <1>4, <1>5, <1>6, <1>7, <1>8, <1>9, <1>10, NextCases, Zenon DEF IInv
-----------------------------------------------------------------------------
LEMMA InitInv == Init => IInv
  <1> SUFFICES ASSUME Init PROVE IInv
    BY Zenon
  <1> USE DEF Init
  <1>1. TypeOK
    BY XidsType, IdsEmpty, MaxCallsAssumption DEF TypeOK, CallerPCs, Results
  <1>2. ClosedInv /\ OwnerInv /\ RegInv /\ SenderInv /\ HandInv /\ InboxInv
    BY Zenon DEF ClosedInv, OwnerInv, RegInv, SenderInv, HandInv, InboxInv, Registering
  <1>3. FlightInv /\ QueueInv
    BY IdsEmpty, Zenon DEF FlightInv, QueueInv, InFlight
  <1> QED
    BY <1>1, <1>2, <1>3, Zenon DEF IInv

LEMMA InvStep == IInv /\ [Next]_vars => IInv'
  BY TypeStep, ClosedStep, OwnerStep, SenderStep, FlightStep, QueueStep, HandStep, InboxStep, Zenon
  DEF IInv

LEMMA RpcInvariant == Spec => []IInv
  BY InitInv, InvStep, PTL DEF Spec

(***************************************************************************)
(* A waiting call is owed a message, and the reply it gets answers it: of  *)
(* any number of callers, xids and calls, however the drains of the two    *)
(* tasks, timeouts and the reuse of xids interleave in rpc.rs.             *)
(***************************************************************************)
THEOREM RpcSafety == Spec => [](AwaitHasSender /\ ReplyIsOwn)
  <1>1. ASSUME IInv PROVE AwaitHasSender
    BY <1>1, Zenon DEF IInv, SenderInv, AwaitHasSender
  <1>2. ASSUME IInv PROVE ReplyIsOwn
    <2> SUFFICES ASSUME NEW c \in Callers, pc[c] = "await", inbox[c] \in ReplyMsg
                 PROVE  inbox[c].of = CurrentCall(c)
      BY Zenon DEF ReplyIsOwn
    <2>1. inbox[c] # NoMsg /\ inbox[c] # LostMsg
      BY DEF ReplyMsg, NoMsg, LostMsg
    <2> QED
      BY <1>2, <2>1, Zenon DEF IInv, InboxInv
  <1> QED
    BY <1>1, <1>2, RpcInvariant, PTL
-----------------------------------------------------------------------------
Active == [c \in Callers |-> pc[c] # "idle"]

LEMMA ActiveEnds ==
  ASSUME NEW c \in Callers, pc \in [Callers -> CallerPCs], pc' = [pc EXCEPT ![c] = "idle"]
  PROVE  Active' = [Active EXCEPT ![c] = FALSE]
  BY ZenonT(60) DEF Active

LEMMA ActiveKept ==
  ASSUME NEW c \in Callers, pc \in [Callers -> CallerPCs],
         NEW label, pc' = [pc EXCEPT ![c] = label], label # "idle", pc[c] # "idle"
  PROVE  Active' = Active
  BY ZenonT(60) DEF Active

LEMMA ActiveBegins ==
  ASSUME NEW c \in Callers, pc \in [Callers -> CallerPCs],
         NEW label, pc' = [pc EXCEPT ![c] = label], label # "idle"
  PROVE  Active' = [Active EXCEPT ![c] = TRUE]
  BY ZenonT(60) DEF Active
\* A call that has its record in the queue or on the wire is not preparing it.
LEMMA PreparingIsNotQueued ==
  ASSUME IInv, NEW c \in Callers, pc[c] \in Preparing
  PROVE  CurrentCall(c) \notin Ids(queue) \cup Ids(batch) \cup written
  <1>1. ~Queued(CurrentCall(c))
    BY Zenon DEF Queued, Ended, CurrentCall, Preparing
  <1>2. \A id \in Ids(queue) \cup Ids(batch) \cup written : Queued(id)
    BY FlightIds, Zenon DEF IInv, QueueInv
  <1> QED
    BY <1>1, <1>2, Zenon

LEMMA PreparedEnds ==
  ASSUME IInv, NEW c \in Callers, pc' = [pc EXCEPT ![c] = "idle"], UNCHANGED calls
  PROVE  /\ pc[c] \in Preparing => Prepared' = Prepared \ {CurrentCall(c)}
         /\ pc[c] \notin Preparing => Prepared' = Prepared
  <1>1. pc \in [Callers -> CallerPCs]
    BY Zenon DEF IInv, TypeOK
  <1> QED
    BY <1>1 DEF Prepared, CurrentCall, Preparing

LEMMA ReturnStep ==
  ASSUME IInv, NEW c \in Callers, NEW r, End(c, r), UNCHANGED queue, pc[c] \in Registering,
         \/ r = "not_sent" /\ pc[c] \in {"check", "send"}
         \/ r \in {"reply", "bad"} /\ pc[c] = "await" /\ CurrentCall(c) \in written
         \/ r \in {"lost", "timeout", "cancelled"}
  PROVE  Promise!Return(c)
  <1>1. /\ pc' = [pc EXCEPT ![c] = "idle"] /\ result' = [result EXCEPT ![c] = r]
        /\ UNCHANGED <<calls, written, batch, queue>> /\ pc \in [Callers -> CallerPCs]
    BY Zenon DEF End, Goto, writerVars, IInv, TypeOK
  <1>2. Active' = [Active EXCEPT ![c] = FALSE] /\ Active[c]
    BY <1>1, ActiveEnds, Zenon DEF Active, Registering
  <1>3. CASE pc[c] \in Preparing
    <2>1. Unsent' = Unsent \ {CurrentCall(c)} /\ CurrentCall(c) \notin written
      BY <1>1, <1>3, PreparedEnds, PreparingIsNotQueued, Zenon DEF Unsent
    <2>2. r \notin {"reply", "bad"}
      BY <1>3, Zenon DEF Preparing
    <2> QED
      BY <1>1, <1>2, <2>1, <2>2, Zenon DEF Active, Promise!Return, Promise!CurrentCall, CurrentCall
  <1>4. CASE pc[c] \notin Preparing
    <2>1. Unsent' = Unsent
      BY <1>1, <1>4, PreparedEnds, Zenon DEF Unsent
    <2>2. r # "not_sent"
      BY <1>4, Zenon DEF Preparing
    <2> QED
      BY <1>1, <1>2, <2>1, <2>2, Zenon DEF Active, Promise!Return, Promise!CurrentCall, CurrentCall
  <1> QED
    BY <1>3, <1>4, Zenon

LEMMA CallerImplements ==
  ASSUME IInv, NEW c \in Callers, Call(c) \/ CallerStep(c) \/ Timeout(c) \/ Cancel(c)
  PROVE  [Promise!Next]_(Promise!promiseVars)
  <1>1. /\ pc \in [Callers -> CallerPCs] /\ calls \in [Callers -> 0 .. MaxCalls] /\ TypeOK
    BY Zenon DEF IInv, TypeOK
  <1> USE DEF Goto, callerVars, writerVars
  <1>2. ASSUME Promise!Return(c) \/ Promise!Begin(c) \/ Promise!Refuse(c)
        PROVE  [Promise!Next]_(Promise!promiseVars)
    BY <1>2, Zenon DEF Promise!Next
  <1>3. ASSUME Active' = Active, Unsent' = Unsent, UNCHANGED <<calls, result, written>>
        PROVE  [Promise!Next]_(Promise!promiseVars)
    BY <1>3, Zenon DEF Promise!promiseVars, Active
  <1>4. CASE Call(c)
    <2>1. /\ pc[c] = "idle" /\ calls' = [calls EXCEPT ![c] = @ + 1]
          /\ UNCHANGED <<queue, batch, written>>
      BY <1>4, Zenon DEF Call
    <2>2. ~Active[c]
      BY <2>1, Zenon DEF Active
    <2>3. CASE closed
      <3>1. result' = [result EXCEPT ![c] = "not_sent"] /\ pc' = pc
        BY <1>4, <2>3, Zenon DEF Call
      <3>2. Prepared' = Prepared
        BY <1>1, <2>1, <3>1, Zenon DEF Prepared, CurrentCall, Preparing
      <3>3. Unsent' = Unsent /\ Active' = Active
        BY <2>1, <3>1, <3>2, Zenon DEF Unsent, Active
      <3> QED
        BY <1>2, <2>1, <2>2, <3>1, <3>3, Zenon DEF Promise!Refuse, Active
    <2>4. CASE ~closed
      <3>1. result' = [result EXCEPT ![c] = "none"] /\ pc' = [pc EXCEPT ![c] = "xid"]
        BY <1>4, <2>4, Zenon DEF Call
      <3>2. Prepared' = Prepared \cup {<<c, calls[c] + 1>>}
        BY <1>1, <2>1, <3>1, Zenon DEF Prepared, CurrentCall, Preparing
      <3>3. Unsent' = Unsent \cup {<<c, calls[c] + 1>>}
        BY <2>1, <3>2, Zenon DEF Unsent
      <3>4. Active' = [Active EXCEPT ![c] = TRUE]
        BY <1>1, <3>1, ActiveBegins, Zenon
      <3> QED
        BY <1>2, <2>1, <2>2, <3>1, <3>3, <3>4, Zenon DEF Promise!Begin, Active
    <2> QED
      BY <2>3, <2>4, Zenon
  <1>5. ASSUME NEW label \in CallerPCs \ {"idle"}, pc[c] # "idle", pc' = [pc EXCEPT ![c] = label],
               label \in Preparing <=> pc[c] \in Preparing,
               UNCHANGED <<calls, result, written, queue, batch>>
        PROVE  [Promise!Next]_(Promise!promiseVars)
    <2>1. Prepared' = Prepared
      BY <1>1, <1>5, Zenon DEF Prepared, CurrentCall
    <2> QED
      BY <1>1, <1>3, <1>5, <2>1, ActiveKept, Zenon DEF Unsent
  <1>6. CASE NextXid(c) \/ Insert(c)
    BY <1>5, <1>6, Zenon DEF NextXid, Insert, Preparing, CallerPCs
  <1>7. CASE Enqueue(c)
    <2>1. /\ pc[c] = "send" /\ pc' = [pc EXCEPT ![c] = "sent"] /\ queue' = Append(queue, RecordOf(c))
          /\ UNCHANGED <<calls, result, batch, written>>
      BY <1>7, Zenon DEF Enqueue
    <2>2. RecordOf(c) \in Record /\ RecordOf(c).id = CurrentCall(c) /\ queue \in Seq(Record)
      BY <1>1, Zenon DEF RecordOf, Record, CurrentCall, Calls, TypeOK
    <2>3. Ids(queue') = Ids(queue) \cup {CurrentCall(c)}
      BY <2>1, <2>2, IdsAppend
    <2>4. Prepared = Prepared' \cup {CurrentCall(c)}
      BY <1>1, <2>1, Zenon DEF Prepared, CurrentCall, Preparing
    <2> QED
      BY <1>1, <1>3, <2>1, <2>3, <2>4, ActiveKept, Zenon DEF Unsent
  <1>8. CASE CheckOpen(c) \/ CheckStill(c)
    BY <1>2, <1>5, <1>8, ReturnStep, Zenon DEF CheckOpen, CheckStill, Preparing, CallerPCs, Registering
  <1>9. CASE Receive(c)
    <2>1. inbox[c].kind \in {"lost", "reply", "bad"}
      <3>1. inbox[c] \in {LostMsg} \cup ReplyMsg
        BY <1>1, <1>9, Zenon DEF Receive, TypeOK
      <3> QED
        BY <3>1 DEF LostMsg, ReplyMsg
    <2>2. inbox[c] # LostMsg => CurrentCall(c) \in written
      BY <1>9, Zenon DEF Receive, IInv, InboxInv
    <2>3. inbox[c].kind \in {"reply", "bad"} => inbox[c] # LostMsg
      BY DEF LostMsg
    <2> QED
      BY <1>2, <1>9, <2>1, <2>2, <2>3, ReturnStep, Zenon DEF Receive, Registering
  <1>10. CASE EnqueueFails(c) \/ Timeout(c) \/ Cancel(c)
    BY <1>2, <1>10, ReturnStep, Zenon DEF EnqueueFails, Timeout, Cancel, Registering
  <1> QED
    BY <1>4, <1>6, <1>7, <1>8, <1>9, <1>10, Zenon DEF CallerStep

LEMMA TaskImplements ==
  ASSUME IInv, WriterStep \/ ReaderStep \/ UNCHANGED vars
  PROVE  [Promise!Next]_(Promise!promiseVars)
  <1>1. /\ TypeOK /\ queue \in Seq(Record) /\ batch \in Seq(Record)
    BY Zenon DEF IInv, TypeOK
  <1> USE DEF callerVars, writerVars, readerVars
  <1>2. UNCHANGED <<pc, calls, result>>
    BY Zenon DEF WriterStep, WriterRecv, WriterFill, WriteRecord, WriteError, WriterClose, WriterFail,
           WriterEnd, ReaderStep, ReadReply, SendReply, ReadError, ReaderClose, ReaderFail, vars
  <1>3. Prepared' = Prepared /\ Active' = Active
    BY <1>2, Zenon DEF Prepared, CurrentCall, Active
  <1>4. ASSUME Ids(queue)' \cup Ids(batch)' = Ids(queue) \cup Ids(batch), UNCHANGED written
        PROVE  [Promise!Next]_(Promise!promiseVars)
    BY <1>2, <1>3, <1>4, Zenon DEF Unsent, Promise!promiseVars, Active
  <1>5. ASSUME Ids(queue)' \cup Ids(batch)' \subseteq Ids(queue) \cup Ids(batch), UNCHANGED written
        PROVE  [Promise!Next]_(Promise!promiseVars)
    <2>1. Unsent' \subseteq Unsent
      BY <1>3, <1>5, Zenon DEF Unsent
    <2> QED
      BY <1>2, <1>3, <1>5, <2>1, Zenon DEF Promise!Next, Promise!Discard, Active
  <1>6. CASE WriterRecv \/ WriterFill
    <2>1. UNCHANGED written
      BY <1>6, Zenon DEF WriterRecv, WriterFill
    <2>2. Ids(queue)' \cup Ids(batch)' = Ids(queue) \cup Ids(batch)
      <3>1. CASE WriterRecv
        <4>1. batch = <<>> /\ batch' = Append(<<>>, Head(queue)) /\ queue # <<>> /\ queue' = Tail(queue)
          BY <3>1 DEF WriterRecv, IInv, QueueInv
        <4>2. Ids(queue) = Ids(queue') \cup {Head(queue).id} /\ Head(queue) \in Record
          BY <1>1, <4>1, IdsTail, Zenon
        <4>3. Ids(batch') = Ids(batch) \cup {Head(queue).id}
          BY <1>1, <4>1, <4>2, IdsAppend, Zenon
        <4> QED
          BY <4>2, <4>3, Zenon
      <3>2. CASE WriterFill /\ queue' = queue
        BY <1>1, <3>2 DEF WriterFill
      <3>3. CASE WriterFill /\ queue' # queue
        <4>1. batch' = Append(batch, Head(queue)) /\ queue # <<>> /\ queue' = Tail(queue)
          BY <3>3, Zenon DEF WriterFill
        <4>2. Ids(queue) = Ids(queue') \cup {Head(queue).id} /\ Head(queue) \in Record
          BY <1>1, <4>1, IdsTail, Zenon
        <4>3. Ids(batch') = Ids(batch) \cup {Head(queue).id}
          BY <1>1, <4>1, <4>2, IdsAppend, Zenon
        <4> QED
          BY <4>2, <4>3, Zenon
      <3> QED
        BY <1>6, <3>1, <3>2, <3>3, Zenon
    <2> QED
      BY <1>4, <2>1, <2>2, Zenon
  <1>7. CASE WriteRecord
    <2> DEFINE id == Head(batch).id
    <2>1. /\ written' = written \cup {id} /\ batch' = Tail(batch) /\ batch # <<>> /\ queue' = queue
      BY <1>7, Zenon DEF WriteRecord
    <2>2. Ids(batch) = Ids(batch') \cup {id} /\ id \notin Ids(batch')
      BY <1>1, <2>1, IdsTail, Zenon DEF IInv, QueueInv
    <2>3. id \notin Ids(queue) /\ id \notin Prepared
      BY <2>2, PreparingIsNotQueued, Zenon DEF IInv, QueueInv, Prepared
    <2>4. Unsent' = Unsent \ {id} /\ id \in Unsent
      BY <1>3, <2>1, <2>2, <2>3, Zenon DEF Unsent
    <2> HIDE DEF id
    <2>5. Promise!Transmit(id)
      BY <1>2, <1>3, <2>1, <2>4, Zenon DEF Promise!Transmit, Active
    <2> QED
      BY <2>4, <2>5, Zenon DEF Promise!Next
  <1>8. CASE WriteError \/ WriterEnd
    <2>1. /\ UNCHANGED written /\ (queue' = queue \/ queue' = <<>>)
          /\ (batch' = batch \/ batch' = <<>>)
      BY <1>8, Zenon DEF WriteError, WriterEnd
    <2> QED
      BY <1>5, <2>1, IdsEmpty, Zenon
  <1>9. CASE WriterClose \/ WriterFail \/ ReaderStep \/ UNCHANGED vars
    <2>1. UNCHANGED <<queue, batch, written>>
      BY <1>9, Zenon DEF WriterClose, WriterFail, ReaderStep, ReadReply, SendReply, ReadError,
                  ReaderClose, ReaderFail, vars
    <2> QED
      BY <1>4, <2>1, Zenon
  <1> QED
    BY <1>6, <1>7, <1>8, <1>9, Zenon DEF WriterStep

(***************************************************************************)
(* The transport implements RpcPromise: a call of call_with_timeout that   *)
(* fails with request_not_sent is never written afterwards, and one that   *)
(* returns a reply was written.                                            *)
(***************************************************************************)
THEOREM RpcRefines == Spec => KeepsPromise
  <1>1. Init => Promise!Init
    <2> SUFFICES ASSUME Init PROVE Promise!Init
      BY Zenon
    <2>1. Prepared = {}
      BY Zenon DEF Init, Prepared, Preparing
    <2>2. Unsent = {}
      BY <2>1, IdsEmpty, Zenon DEF Init, Unsent
    <2>3. Active = [c \in Callers |-> FALSE]
      BY Zenon DEF Active, Init
    <2> QED
      BY <2>2, <2>3, Zenon DEF Init, Promise!Init, Active
  <1>2. IInv /\ [Next]_vars => [Promise!Next]_(Promise!promiseVars)
    BY CallerImplements, TaskImplements, Zenon DEF Next, Quiescent
  <1> QED
    BY <1>1, <1>2, RpcInvariant, PTL DEF Spec, KeepsPromise, Promise!Spec
=============================================================================
