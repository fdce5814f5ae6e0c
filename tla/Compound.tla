------------------------------ MODULE Compound ------------------------------
(***************************************************************************)
(* One call of a method of NfsSession (src/src/nfs4/session.rs) from its   *)
(* request to its result: the limits a request is checked against, the     *)
(* compound the server runs operation by operation, the reply as words,    *)
(* its decoding, and the transient retries around them.                    *)
(*                                                                         *)
(* The server stops at the first operation that fails. Its reply may       *)
(* arrive cut short, miscounted, with a foreign operation or an odd        *)
(* result, or not at all.                                                  *)
(***************************************************************************)
EXTENDS Requests, Answers

CONSTANTS
  Depths,           \* lengths of the paths in the compounds
  Pages,            \* max_entries_hint of the listings, -1 for none
  TransientRetries, \* NfsConfig::transient_retries
  CallOverhead,     \* RPC header, credential and verifier, in bytes
  Lens,             \* lengths of the arguments, and the negotiated limits
  Files

ASSUME DepthsAssumption == Depths \subseteq Nat
ASSUME LensAssumption ==
  \A l \in Lens :
    \A f \in {"fh", "name", "other", "owner", "data", "tag", "max_compound_ops", "max_request_size"} :
      l[f] \in Nat

VARIABLES
  call,     \* the method called: its request, its decoder and what follows
  lens,     \* the lengths of its arguments, and the limits of the session
  pc,       \* "idle", "issue", "wire", "reply", "sleep", "done"
  attempts, \* transient retries used
  reply,    \* the words received
  out,      \* what the last exchange returned: Decode, or an error
  open,     \* the server's open states
  served,   \* history: the compounds issued, and how many operations ran
  truth,    \* history: the values the server sent
  fault     \* history: what happened to a reply on the way

exchangeVars == <<reply, out, truth, fault>>
vars == <<call, lens, pc, attempts, exchangeVars, open, served>>

NoOut == [out |-> Walking, vals |-> <<>>]
Failed(e) == [out |-> e, vals |-> <<>>]
LostError == Plain("lost")
-----------------------------------------------------------------------------
(* The calls *)

\* file is the file the call finds open, path the depth of its path.
Call(req, dec) == [req |-> req, dec |-> dec, then |-> "return", path |-> 0, file |-> 0]
OnOpen(f, req, dec) == [Call(req, dec) EXCEPT !.file = f]
Setup(op, dec) == [Call(Once(<<Op(op)>>), dec) EXCEPT !.then = "setup"]

\* encoded_call_len of a compound with nothing but its SEQUENCE.
CallLen(payload) == CallOverhead + payload + XdrPadding(payload)
MinimumRequestSize(l) == CallLen(CompoundWithSequenceEncodedLen(<<>>, [l EXCEPT !.tag = 0]))

Publish(n, f, create_new, commit) ==
  [OnOpen(f, ClosePublish(n, f, create_new, commit), DecodeClosePublish(n, create_new, commit))
   EXCEPT !.then = IF create_new THEN "link" ELSE "rename", !.path = n]
AfterClose(c) ==
  Call(PublishAfterClose(c.path, c.file, c.then = "link"),
       IF c.then = "link" THEN DecodeLinkRemovePublish(c.path) ELSE DecodeRenamePublish(c.path))

PathCalls(n) ==
  {Call(LookupFileHandle(n), DecodeGetFh("PutFh", n)),
   Call(LookupFileHandleAttrs(n), DecodeGetFhAttrs(n)),
   Call(ResolveExportRoot(n), DecodeGetFh("PutRootFh", n)),
   Call(ReadPathAnonymous(n), DecodeReadPath(n)),
   Call(ReadPathAnonymousWithHandle(n), DecodeReadPathHandle(n)),
   Call(ReadPathAnonymousWithSize(n), DecodeReadPathSize(n)),
   Call(CreateDir(n), DecodeCreateDir(n)),
   Call(CreateDirWithHandle(n), DecodeCreateDirHandle(n)),
   Call(RemoveName(n), DecodeRemove(n))}
PageCalls(n, limit) ==
  {Call(ReadDirPathPage(n), DecodeReaddirPath(n, limit)),
   Call(ReadDirPathPageWithoutHandle(n), DecodeReaddirPathWithoutHandle(n, limit))}
FileCalls(n, f) ==
  {Call(OpenFile(n, f), DecodeOpenFile(n)),
   OnOpen(f, CloseFile(f), DecodeCloseFile),
   OnOpen(f, CloseBatch(<<f>>), DecodeCloseBatch(1)),
   OnOpen(f, WriteAt(f), DecodeWrite),
   OnOpen(f, WriteAndCommit(f), DecodeWriteCommit)}
    \cup {Call(TryPutFused(n, f, c), DecodeFusedPut(n, c)) : c \in BOOLEAN}
    \cup {Publish(n, f, c, commit) : c \in BOOLEAN, commit \in BOOLEAN}
HandleCalls(limit) ==
  {Call(ReadDirPage, DecodeReaddirPage(limit)),
   Call(ReadAnonymous, DecodeRead),
   Call(LookupChildHandle, DecodeGetFh("PutFh", 1)),
   Call(ReclaimComplete, DecodeNoResult("ReclaimComplete"))}
SetupCalls(l) ==
  {Setup("ExchangeId", DecodeExchangeIdCompound),
   Setup("CreateSession", DecodeCreateSessionCompound(1, MinimumRequestSize(l)))}
-----------------------------------------------------------------------------
(* The server *)

STALE == 70
StatusesOf(o) ==
  IF o.op = "Close" /\ o.file \notin open THEN {BAD_STATEID}
  ELSE {DELAY, STALE}
         \cup (CASE o.op \in {"Open", "Create", "Link"} -> {EXIST, GRACE}
                 [] o.op \in {"PutFh", "Lookup", "Remove"} -> {NOENT}
                 [] OTHER -> {})

All(c) == (IF c.then = "setup" THEN <<>> ELSE <<Op("Sequence")>>) \o c.req.ops
UserOps(c, ran) == ran - (IF c.then = "setup" \/ ran = 0 THEN 0 ELSE 1)

\* The results of the first ran operations: the usual ones, but for the v-th of the
\* x-th operation.
Results(c, ran, x, v) ==
  [i \in 1 .. ran |->
     LET op == All(c)[i].op IN [op |-> op, sent |-> Bodies(op, c.dec)[IF i = x THEN v ELSE 1]]]
Items(results) == [i \in DOMAIN results |-> Item(results[i].op, results[i].sent.words)]
Truth(results) ==
  LET kept == SelectSeq(results, LAMBDA r : Kept(r.op, NewDecoder(<<>>)) # <<>>)
  IN [i \in DOMAIN kept |-> [op |-> kept[i].op, val |-> kept[i].sent.val]]
-----------------------------------------------------------------------------
(* Errors *)

TransientStatus(e) == e.err = "nfs" /\ e.status \in {DELAY, GRACE}

\* completed_operation: reply 0 is that of the SEQUENCE.
CompletedOps(ops, e) == SubSeq(ops, 1, e.at - 1)
Includes(ops, names) == \E i \in DOMAIN ops : ops[i].op \in names
CompletedOperation(ops, e, op) == Includes(CompletedOps(ops, e), {op})

TransientCompoundRetryIsSafe(ops, e) ==
  e.at # -1 /\ ~Includes(CompletedOps(ops, e), {"Open", "Close", "Link", "Rename"})

\* decode_sequence_result, for session <<9, 9, 9, 9>>, sequence 1 and slot 0.
SequenceError(words) ==
  LET d == ReadU32SkipOpaqueAndReadU32(NewDecoder(words))
      head == Read(d, 2)
      data == Read(head, 9)
  IN CASE ~Ok(d) -> Plain(d.err)
       [] d.val[2] = 0 -> IF d.val[1] = OK THEN Plain("protocol") ELSE Nfs(d.val[1], "Sequence", -1)
       [] ~Ok(head) -> Plain(head.err)
       [] head.val[1] # Code["Sequence"] -> Plain("protocol")
       [] head.val[2] # OK -> Nfs(head.val[2], "Sequence", -1)
       [] ~Ok(data) -> Plain(data.err)
       [] SubSeq(data.val, 1, 6) # <<9, 9, 9, 9, 1, 0>> -> Plain("protocol")
       [] OTHER -> Walking

\* validate_compound_request_limits, and the length of the call that is sent.
RequestFits(ops, l) ==
  /\ Len(ops) + 1 <= l.max_compound_ops
  /\ CallLen(CompoundWithSequenceEncodedLen(ops, l)) <= l.max_request_size
SentLen(ops, l) == CallLen(PayloadLen(EncodeCompoundWithSequence(ops, l)))
-----------------------------------------------------------------------------
TypeOK ==
  /\ call.dec.expected = Len(call.dec.steps) /\ call.then \in {"return", "setup", "link", "rename"}
  /\ lens \in Lens
  /\ pc \in {"idle", "issue", "wire", "reply", "sleep", "done"}
  /\ attempts \in 0 .. TransientRetries
  /\ open \subseteq Files

NoCall == Call(Once(<<>>), Decoder(0, <<>>))
Init ==
  /\ call = NoCall /\ lens \in Lens /\ pc = "idle" /\ attempts = 0
  /\ reply = <<>> /\ out = NoOut /\ truth = <<>> /\ fault = "none"
  /\ open = {} /\ served = <<>>

\* A method is called, and its caller takes the result.
Start(c) ==
  /\ call' = c /\ pc' = "issue"
  /\ UNCHANGED <<lens, attempts, exchangeVars, served>>
Leave ==
  /\ call' = NoCall /\ pc' = "idle" /\ attempts' = 0 /\ served' = <<>>
  /\ reply' = <<>> /\ out' = NoOut /\ truth' = <<>> /\ fault' = "none"
  /\ UNCHANGED <<lens, open>>
Begin(f) ==
  /\ pc = "idle"
  /\ \E n \in Depths, limit \in Pages :
       \E c \in PathCalls(n) \cup PageCalls(n, limit) \cup FileCalls(n, f)
                  \cup HandleCalls(limit) \cup SetupCalls(lens) :
         Start(c) /\ open' = {c.file} \ {0}

Return(o) == pc' = "done" /\ out' = o

\* compound_raw_once up to the call: a request over the limits is not sent, nor one
\* on a session without slots or with a fatal flag.
Issue ==
  /\ pc = "issue"
  /\ call.then = "setup" \/ RequestFits(call.req.ops, lens)
  /\ pc' = "wire"
  /\ UNCHANGED <<call, lens, attempts, exchangeVars, open, served>>
Refuse ==
  /\ pc = "issue" /\ call.then # "setup"
  /\ Return(Failed(Plain(IF RequestFits(call.req.ops, lens) THEN "unusable" ELSE "limits")))
  /\ UNCHANGED <<call, lens, attempts, reply, truth, fault, open, served>>

\* The server has run the first ran operations of the compound.
Execute(ran) ==
  LET done == SubSeq(All(call), 1, ran)
      files(op) == {done[i].file : i \in {k \in DOMAIN done : done[k].op = op}}
  IN /\ files("Close") \subseteq open
     /\ open' = (open \cup files("Open")) \ files("Close")
     /\ served' = Append(served, [ops |-> call.req.ops, ran |-> UserOps(call, ran)])
Answer(words, results, f) ==
  /\ pc' = "reply" /\ reply' = words /\ truth' = Truth(results) /\ fault' = f
  /\ UNCHANGED <<call, lens, attempts, out>>

\* Every operation ran, and any of its results may be another one.
ServeAll ==
  /\ pc = "wire"
  /\ Execute(Len(All(call)))
  /\ \E x \in DOMAIN All(call) : \E v \in DOMAIN Bodies(All(call)[x].op, call.dec) :
       \E results \in {Results(call, Len(All(call)), x, v)} :
         Answer(Message(OK, Items(results)), results, fault)

\* An operation failed, or is not known to the server.
ServeSome ==
  /\ pc = "wire"
  /\ \E ran \in 0 .. Len(All(call)) - 1 :
       /\ Execute(ran)
       /\ \E o \in {All(call)[ran + 1]}, results \in {Results(call, ran, 0, 1)} :
            \/ \E status \in StatusesOf(o) :
                 Answer(Message(status, Append(Items(results), <<Code[o.op], status>>)),
                        results, fault)
            \/ /\ o.op # "Sequence"
               /\ Answer(Message(OP_ILLEGAL,
                                 Append(Items(results), <<Code["Illegal"], OP_ILLEGAL>>)),
                         results, fault)

\* The compound was refused as a whole.
ServeNone ==
  /\ pc = "wire" /\ Execute(0)
  /\ Answer(Message(STALE, <<>>), <<>>, fault)

\* A reply the protocol does not allow, or one cut short: at most one for a call.
\* It lists too few results, ends early, has an odd result or a foreign operation in
\* some place, a status that none of its results has, or one result too many.
ServeShort ==
  /\ pc = "wire" /\ fault = "none"
  /\ \E ran \in 1 .. Len(All(call)) - 1 :
       /\ Execute(ran)
       /\ \E results \in {Results(call, ran, 0, 1)} :
            Answer(Message(OK, Items(results)), results, "short")
ServeOdd ==
  /\ pc = "wire" /\ fault = "none"
  /\ Execute(Len(All(call)))
  /\ \E results \in {Results(call, Len(All(call)), 0, 1)} : \E items \in {Items(results)} :
       \/ \E whole \in {Message(OK, items)} : \E cut \in 0 .. Len(whole) - 1 :
            Answer(SubSeq(whole, 1, cut), results, "cut")
       \/ \E x \in DOMAIN items : \E odd \in OddBodies(All(call)[x].op, call.dec) :
            Answer(Message(OK, [items EXCEPT ![x] = Item(All(call)[x].op, odd)]), results, "odd")
       \/ \E x \in DOMAIN items :
            Answer(Message(OK, [items EXCEPT ![x] = <<Code["Illegal"], OK>>]), results, "foreign")
       \/ Answer(Message(DELAY, items), results, "status")
       \/ Answer(Message(OK, Append(items, <<Code["GetFh"], OK>>)), results, "long")

\* The call ends without a reply; the server may have run any part of it.
Lose ==
  /\ pc = "wire"
  /\ \E ran \in 0 .. Len(All(call)) : Execute(ran)
  /\ Return(Failed(LostError))
  /\ UNCHANGED <<call, lens, attempts, reply, truth, fault>>

\* compound_decode_detailed and retry_transient_compound_error: what a reply says, and
\* a retry if one is claimed.
Outcome ==
  IF call.then # "setup" /\ SequenceError(reply) # Walking THEN Failed(SequenceError(reply))
  ELSE Decode(call.dec, reply)
Retries(e) ==
  /\ call.req.retry /\ TransientStatus(e) /\ attempts < TransientRetries
  /\ TransientCompoundRetryIsSafe(call.req.ops, e)

PublishesAgain(e) ==
  /\ call.then \in {"link", "rename"} /\ TransientStatus(e) /\ attempts < TransientRetries
  /\ CompletedOperation(call.req.ops, e, "Close")
\* close_publish goes on with publish_after_close.
PublishesAfterClose(e) ==
  /\ call.then \in {"link", "rename"} /\ TransientStatus(e) /\ attempts < TransientRetries
  /\ CompletedOperation(call.req.ops, e, "Close")
  /\ ~CompletedOperation(call.req.ops, e, "Link")
  /\ ~CompletedOperation(call.req.ops, e, "Rename")

FreshAttempts ==
  /\ pc = "reply" /\ reply' = <<>>
  /\ UNCHANGED <<lens, truth, fault, open, served>>
  /\ \E o \in {Outcome} :
       IF PublishesAfterClose(o.out)
       THEN pc' = "sleep" /\ attempts' = 0 /\ call' = AfterClose(call) /\ UNCHANGED out
       ELSE Return(o) /\ UNCHANGED <<call, attempts>>
Receive ==
  /\ pc = "reply"
  /\ \E o \in {Outcome} :
       \/ /\ Retries(o.out)
          /\ pc' = "sleep" /\ attempts' = attempts + 1
          /\ UNCHANGED <<call, out>>
       \/ /\ ~Retries(o.out) /\ PublishesAfterClose(o.out)
          /\ pc' = "sleep" /\ attempts' = attempts + 1 /\ call' = AfterClose(call)
          /\ UNCHANGED out
       \/ /\ ~Retries(o.out) /\ ~PublishesAfterClose(o.out)
          /\ Return(o)
          /\ UNCHANGED <<call, attempts>>
  /\ reply' = <<>>
  /\ UNCHANGED <<lens, truth, fault, open, served>>

\* sleep_before_transient_retry.
Sleep ==
  /\ pc = "sleep" /\ pc' = "issue"
  /\ truth' = <<>>
  /\ UNCHANGED <<call, lens, attempts, reply, out, fault, open, served>>

Step ==
  \/ Issue \/ Refuse \/ Receive \/ Sleep
  \/ ServeAll \/ ServeSome \/ ServeNone \/ ServeShort \/ Lose
-----------------------------------------------------------------------------
(* Properties *)

Returned(kinds) == pc = "done" /\ out.out.kind \in kinds
Latest == served[Len(served)]

\* A page is a prefix of the listing without its dot names, and its cookie is that of
\* the last entry the prefix passed; an end of the directory is the server's.
PageAgrees(page, listing) ==
  \E k \in 0 .. Len(listing.names) :
    LET names == SelectSeq(SubSeq(listing.names, 1, k), LAMBDA m : m \notin {46, 4646})
    IN /\ page.entries = [i \in DOMAIN names |-> <<names[i]>>]
       /\ page.last_cookie = <<0, k>>
       /\ page.eof => listing.eof /\ k = Len(listing.names)
Agrees(vals) ==
  /\ Len(vals) = Len(truth)
  /\ \A i \in DOMAIN truth :
       IF truth[i].op = "ReadDir" THEN PageAgrees(vals[i], truth[i].val)
       ELSE vals[i] = truth[i].val

\* A call that succeeds has had every operation of its compound run, and returns what
\* the server sent (CompoundReplies and the decode functions of codec.rs). This holds
\* even if the reply was cut short or lists fewer results than were asked for.
OkMeansRun ==
  Returned({"ok"}) /\ fault \in {"none", "cut", "short"} =>
    Latest.ran = Len(Latest.ops) /\ Agrees(out.vals)

\* A publishing compound only succeeds with a COMMIT of the verifier its unstable
\* bytes were written under: that of its own WRITE (decode_fused_put_compound), or that
\* of the writes before it (decode_close_compound), which is <<7, 7>>.
CommitHolds ==
  Returned({"ok"}) /\ fault = "none" /\ call.dec.verifier # "none" =>
    \A i, k \in DOMAIN truth : truth[k].op = "Commit" =>
      /\ truth[i].op = "Write" /\ RequiresCommit(truth[i].val) =>
           SubSeq(truth[i].val, 3, 4) = truth[k].val
      /\ call.dec.verifier = "earlier" => truth[k].val = <<7, 7>>

\* So Ok of a decode function means that the whole compound was done, and is durable if
\* it was published.
OkMeansDone == OkMeansRun /\ CommitHolds

\* The status of an NFS error is that of the operation it names: those before it ran,
\* and it did not (decode_expected_op). The callers classify their outcomes by it.
ErrorNamesStop ==
  Returned({"err"}) /\ fault = "none" /\ out.out.err = "nfs" =>
    /\ out.out.op \notin {"Illegal", "Sequence"} =>
         Latest.ran < Len(Latest.ops) /\ Latest.ops[Latest.ran + 1].op = out.out.op
    /\ out.out.op = "Sequence" => Latest.ran = 0

\* A server that keeps to the protocol is never taken for one that does not: no reply
\* of its own is refused as malformed or unsupported.
HonestRepliesAreRead ==
  Returned({"err"}) /\ fault = "none" => out.out.err \in {"nfs", "lost", "limits", "unusable"}

\* An error of CompoundReplies is true of the server, and of where the compound stopped.
ErrorIsTrue == ErrorNamesStop /\ HonestRepliesAreRead

\* No OPEN, CLOSE, LINK or RENAME is sent again once it has run
\* (transient_compound_retry_is_safe, close_publish), not even if a reply to the call
\* was malformed: a second one would meet the state the first has left.
NotReplayed ==
  \A i, k \in DOMAIN served : i < k =>
    \A x \in 1 .. served[i].ran, y \in DOMAIN served[k].ops :
      served[i].ops[x].op \in {"Open", "Close", "Link", "Rename"} =>
        served[k].ops[y].op # served[i].ops[x].op

\* A request on the wire respects the negotiated limits: what is checked before it is
\* sent (encoded_len) is what the encoder writes, however it is split into segments.
WithinLimits ==
  pc = "wire" /\ call.then # "setup" =>
    /\ Len(call.req.ops) + 1 <= lens.max_compound_ops
    /\ SentLen(call.req.ops, lens) <= lens.max_request_size

\* Every operation's announced length is that of its encoding, which keeps the words
\* of the message aligned (NfsOp::encoded_len and NfsOp::encode).
LengthIsExact ==
  pc = "issue" =>
    \A i \in DOMAIN call.req.ops :
      /\ Sum(Encode(call.req.ops[i], lens)) = EncodedLen(call.req.ops[i], lens)
      /\ EncodedLen(call.req.ops[i], lens) % 4 = 0

\* The segments of a request hold what the contiguous encoding holds, in its order.
SegmentsAgree ==
  pc = "issue" /\ call.then # "setup" =>
    FlattenSeq(Payload(EncodeCompoundWithSequence(call.req.ops, lens)))
      = EncodeCompound(call.req.ops, TRUE, lens)

\* validate_compound_request_limits checks what encode_compound_with_sequence writes.
RequestIsExact == WithinLimits /\ LengthIsExact /\ SegmentsAgree

\* No reply, however cut or odd, makes a decoder read past its end (xdr.rs).
NoPanic == out.out.err # "panic"

\* The fast paths of decode_fattr return what the general decoder returns, and leave
\* the decoder at the same place.
FattrPathsAgree ==
  pc = "reply" =>
    \A i \in DOMAIN reply :
      reply[i] = Code["GetAttr"] =>
        LET d == [NewDecoder(reply) EXCEPT !.pos = i + 1]
        IN \E slow \in {SlowFattr(d)}, fast \in {DecodeFattr(d)} :
             Ok(slow) = Ok(fast) /\ (Ok(slow) => slow = fast)

\* The reads of xdr.rs named after_require, and the fast paths of decode_fattr that use
\* them, stay within the reply and within their attribute block.
UncheckedReadsAreSafe == NoPanic /\ FattrPathsAgree

\* Every step of a call brings its end nearer, so that it returns once its exchanges
\* end: the attempts are shared by a compound and by the publication that goes on
\* after its CLOSE (close_publish), and bounded.
Stage == [idle |-> 5, sleep |-> 4, issue |-> 3, wire |-> 2, reply |-> 1, done |-> 0]
Rank == 6 * (TransientRetries - attempts) + Stage[pc]
CallProgresses == [][pc \notin {"idle", "done"} /\ pc' # pc => Rank' < Rank]_vars
=============================================================================
