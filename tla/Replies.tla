------------------------------ MODULE Replies ------------------------------
(***************************************************************************)
(* The decoders of compound replies in src/src/nfs4/codec.rs: the results  *)
(* of single operations, CompoundReplies, which walks the replies of a     *)
(* compound, and the decode function of every compound.                    *)
(*                                                                         *)
(* A reply is a sequence of XDR words. Every decode function has the same  *)
(* plan: announce how many replies it expects, consume them in order while *)
(* some remain, finish, and insist on the results it needs. Its record     *)
(* below holds what differs.                                               *)
(***************************************************************************)
EXTENDS Xdr, SequencesExt, FiniteSets

Code == [Close |-> 4, Commit |-> 5, Create |-> 6, GetAttr |-> 9, GetFh |-> 10, Link |-> 11,
         Lookup |-> 15, Open |-> 18, PutFh |-> 22, PutRootFh |-> 24, Read |-> 25,
         ReadDir |-> 26, Remove |-> 28, Rename |-> 29, RestoreFh |-> 31, SaveFh |-> 32,
         Verify |-> 37, Write |-> 38, ExchangeId |-> 42, CreateSession |-> 43,
         Sequence |-> 53, ReclaimComplete |-> 58, Illegal |-> 10044]

OK == 0
NOENT == 2
EXIST == 17
DELAY == 10008
GRACE == 10013
BAD_STATEID == 10025
OP_ILLEGAL == 10044
-----------------------------------------------------------------------------
(* Results of single operations *)

\* skip_stateid, skip_change_info, skip_sequence_data.
StateId(d) == Read(d, 4)
ChangeInfo(d) == ReadBoolAndSkip(d, 16)
SequenceData(d) == SkipBytes(d, 16 + 5 * 4)

\* require_bitmap_words, then an unchecked skip.
SkipBitmapAfterLen(d, len) == AfterRequire(Require(d, len), len)
SkipBitmap(d) == Then(Read(d, 1), LAMBDA e : SkipBitmapAfterLen(e, e.val[1]))

DecodeFileHandle(d) ==
  Then(Read(d, 1), LAMBDA e :
    LET handle == ReadOpaqueBytes(e, e.val[1])
    IN IF e.val[1] > 128 THEN Fail(handle, "protocol") ELSE handle)

\* WriteStability::from_raw; the value is count, committed and verifier.
DecodeWriteData(d) ==
  Then(Read(d, 4), LAMBDA e : IF e.val[2] \in 0 .. 2 THEN e ELSE Fail(e, "protocol"))
RequiresCommit(write) == write[2] # 2

\* OPEN_DELEGATE_NONE, NONE_EXT with WND4_CONTENTION or WND4_RESOURCE, READ, WRITE.
DecodeOpenDelegation(d) ==
  Then(Read(d, 1), LAMBDA e :
    CASE e.val[1] = 0 -> e
      [] e.val[1] = 3 -> Then(Read(e, 1), LAMBDA f :
                           IF f.val[1] \in {1, 2} THEN ReadBool(f) ELSE f)
      [] e.val[1] \in {1, 2} -> Fail(e, "unsupported")
      [] OTHER -> Fail(e, "protocol"))

\* OPEN4_RESULT_CONFIRM is the second bit of rflags.
DecodeOpenStateid(d) ==
  Then(StateId(d), LAMBDA s :
    Then(Read(ChangeInfo(s), 2), LAMBDA e :
      With(DecodeOpenDelegation(SkipBitmapAfterLen(e, e.val[2])), LAMBDA rest :
        IF (e.val[1] \div 2) % 2 = 1 THEN Fail(rest, "unsupported")
        ELSE Returns(rest, s.val))))

\* BitmapAttrs: the attributes of a bitmap in ascending order. The bits of a word
\* that are modelled are the first AttrBits.
AttrBits == 8
Attrs(bitmap) ==
  LET word(i) == SelectSeq([b \in 1 .. AttrBits |-> b - 1],
                           LAMBDA b : (bitmap[i] \div 2 ^ b) % 2 = 1)
  IN FlattenSeq([i \in DOMAIN bitmap |-> [k \in DOMAIN word(i) |-> 32 * (i - 1) + word(i)[k]]])

NoAttrs == [type |-> <<>>, size |-> <<>>]

\* decode_fattr_values: TYPE, SIZE and MODE in any combination.
FattrStep(s, attr) ==
  LET needed == IF attr = 4 THEN 8 ELSE 4
  IN CASE ~Ok(s.d) -> s
       [] attr \notin {1, 4, 33} -> [s EXCEPT !.d = Fail(s.d, "unsupported")]
       [] s.left < needed -> [s EXCEPT !.d = Fail(s.d, "xdr")]
       [] OTHER -> With(AfterRequire(s.d, needed \div 4), LAMBDA d :
                     [d |-> d, left |-> s.left - needed,
                      attrs |-> CASE attr = 1 -> [s.attrs EXCEPT !.type = d.val]
                                  [] attr = 4 -> [s.attrs EXCEPT !.size = d.val]
                                  [] OTHER -> s.attrs])
DecodeFattrValues(d, bitmap) ==
  Then(ReadOpaqueExtentLen(d), LAMBDA e :
    With(Fold(FattrStep, [d |-> e, left |-> e.val[1], attrs |-> NoAttrs], Attrs(bitmap)),
         LAMBDA end : Returns(FinishOpaque(end.d, e.val[1], e.val[1] - end.left), end.attrs)))

\* The fast paths for the two bitmaps this client asks for.
DecodeSizeAttr(d) ==
  Then(ReadOpaqueExtentLen(d), LAMBDA e :
    LET len == e.val[1]
        size == AfterRequire(IF len < 8 THEN Fail(e, "xdr") ELSE e, 2)
    IN Then(size, LAMBDA s :
         Returns(IF len > 8 THEN FinishOpaque(s, len, 8) ELSE s,
                 [type |-> <<>>, size |-> s.val])))
DecodeTypeAndSizeAttrs(d) ==
  Then(ReadOpaqueExtentLen(d), LAMBDA e :
    LET len == e.val[1]
        both == AfterRequire(IF len < 12 THEN Fail(e, "xdr") ELSE e, 3)
    IN Then(both, LAMBDA s :
         Returns(IF len > 12 THEN FinishOpaque(s, len, 12) ELSE s,
                 [type |-> <<s.val[1]>>, size |-> Tail(s.val)])))

\* Bitmap::decode_after_len.
DecodeBitmap(d, len) == AfterRequire(Require(d, len), len)
DecodeFattr(d) ==
  Then(Read(d, 1), LAMBDA e :
    Then(DecodeBitmap(e, e.val[1]), LAMBDA b :
      CASE b.val = <<16>> -> DecodeSizeAttr(b)
        [] b.val = <<18>> -> DecodeTypeAndSizeAttrs(b)
        [] OTHER -> DecodeFattrValues(b, b.val)))
SlowFattr(d) ==
  Then(Read(d, 1), LAMBDA e :
    Then(DecodeBitmap(e, e.val[1]), LAMBDA b : DecodeFattrValues(b, b.val)))

\* Names are one word; 46 and 4646 are the dot names, 255 is not UTF-8.
DotReaddirNames == {<<46>>, <<4646>>}
Utf8 == {<<name>> : name \in 0 .. 254}
DirPage(entries, eof, last) == [entries |-> entries, eof |-> eof, last_cookie |-> last]

\* decode_readdir after the verifier; limit is -1 for none.
RECURSIVE DecodeEntries(_, _, _, _)
DecodeEntries(d, limit, entries, last) ==
  Then(ReadBool(d), LAMBDA e :
    IF e.val[1] = 0
    THEN Then(ReadBool(e), LAMBDA f : Returns(f, DirPage(entries, f.val[1] = 1, last)))
    ELSE IF Len(entries) = limit THEN Returns(e, DirPage(entries, FALSE, last))
    ELSE Then(Read(e, 2), LAMBDA cookie :
      Then(ReadStringUnless(cookie, DotReaddirNames, Utf8), LAMBDA name :
        Then(ReadOpaque(SkipBitmap(name)), LAMBDA a :
          DecodeEntries(a, limit, IF name.val = <<>> THEN entries ELSE Append(entries, name.val),
                        cookie.val)))))
DecodeReaddir(d, limit) ==
  Then(Read(d, 2), LAMBDA e : DecodeEntries(e, limit, <<>>, <<0, 0>>))

\* decode_state_protect, skip_impl_id_array and decode_exchange_id.
DecodeStateProtect(d) ==
  Then(Read(d, 1), LAMBDA e : CASE e.val[1] = 0 -> e
                                [] e.val[1] \in {1, 2} -> Fail(e, "unsupported")
                                [] OTHER -> Fail(e, "protocol"))
SkipImplIdArray(d) ==
  Then(Read(d, 1), LAMBDA e :
    IF e.val[1] > Remaining(e) \div 5 THEN Fail(e, "xdr")
    ELSE Fold(LAMBDA s, i : SkipBytes(ReadOpaque(ReadOpaque(s)), 12), e,
              [i \in 1 .. e.val[1] |-> i]))
DecodeExchangeId(d) ==
  Then(Read(d, 2), LAMBDA client :
    Then(Read(client, 1), LAMBDA seq :
      LET owners == ReadOpaque(ReadOpaque(Read(DecodeStateProtect(Read(seq, 1)), 2)))
      IN Returns(SkipImplIdArray(owners), <<client.val, seq.val>>)))

\* decode_channel_attrs: header padding, request size, response size, cached size,
\* operations, requests, and the RDMA array; nonzero_channel_limit.
DecodeChannelAttrs(d) ==
  LET field(s, limit) ==
        With(Read(s.d, 1), LAMBDA w :
          [d |-> IF limit /\ w.val = <<0>> THEN Fail(w, "protocol") ELSE w,
           vals |-> s.vals \o w.val])
  IN With(Fold(field, [d |-> d, vals |-> <<>>], <<FALSE, TRUE, TRUE, FALSE, TRUE, TRUE>>),
          LAMBDA six :
       Then(Read(six.d, 1), LAMBDA e :
         IF e.val[1] > Remaining(e) THEN Fail(e, "xdr")
         ELSE Returns(AfterRequire(e, e.val[1]),
                      [request |-> six.vals[2], response |-> six.vals[3],
                       ops |-> six.vals[5], requests |-> six.vals[6]])))

\* validate_fore_channel_minimums; min is the size of a request with nothing but its
\* SEQUENCE, and 80 that of its reply.
ForeChannelUsable(attrs, min) ==
  attrs.ops >= 2 /\ attrs.request >= min /\ attrs.response >= 24 + 12 + 8 + 36
DecodeCreateSession(d, sequenceid, min) ==
  Then(Read(Read(d, 4), 1), LAMBDA seq :
    IF seq.val # <<sequenceid>> THEN Fail(seq, "protocol")
    ELSE Then(DecodeChannelAttrs(Read(seq, 1)), LAMBDA fore :
           IF ~ForeChannelUsable(fore.val, min) THEN Fail(fore, "protocol")
           ELSE Returns(DecodeChannelAttrs(fore), fore.val)))
-----------------------------------------------------------------------------
(* CompoundReplies *)

\* An error carries the status and the operation of an NFS error, and the index of
\* the reply it was met in: reply_index, or -1. get_or_insert keeps a first index.
Error(err, status, op, at) ==
  [kind |-> "err", err |-> err, status |-> status, op |-> op, at |-> at]
Plain(err) == Error(err, 0, "none", -1)
Nfs(status, op, at) == Error("nfs", status, op, at)
Success(kind) == [Plain("none") EXCEPT !.kind = kind]
Walking == Success("walking")

DecodeBody(op, d, dec) ==
  CASE op = "Sequence" -> SequenceData(d)
    [] op = "GetFh" -> DecodeFileHandle(d)
    [] op = "GetAttr" -> DecodeFattr(d)
    [] op = "Read" -> ReadBoolAndOpaque(d)
    [] op = "Write" -> DecodeWriteData(d)
    [] op = "Commit" -> Read(d, 2)
    [] op = "Open" -> DecodeOpenStateid(d)
    [] op = "Close" -> StateId(d)
    [] op = "Create" -> SkipBitmap(ChangeInfo(d))
    [] op \in {"Remove", "Link"} -> ChangeInfo(d)
    [] op = "Rename" -> ChangeInfo(ChangeInfo(d))
    [] op = "ReadDir" -> DecodeReaddir(d, dec.limit)
    [] op = "ExchangeId" -> DecodeExchangeId(d)
    [] op = "CreateSession" -> DecodeCreateSession(d, dec.sequenceid, dec.limit)
    [] OTHER -> d

\* decode_compound_header and CompoundReplies::new.
NewReplies(words, expected) ==
  With(ReadU32SkipOpaqueAndReadU32(NewDecoder(words)), LAMBDA d :
     LET r(out) == [d |-> d, status |-> 0, count |-> 0, decoded |-> 0, vals |-> <<>>, out |-> out]
     IN
     IF ~Ok(d) THEN r(Plain(d.err))
     ELSE IF d.val[2] > Remaining(d) \div 2 THEN r(Plain("xdr"))
     ELSE IF d.val[2] > expected THEN r(Plain("protocol"))
     ELSE [r(Walking) EXCEPT !.status = d.val[1], !.count = d.val[2]])

\* The value a decoder keeps of a reply: nothing of those it only skips.
Kept(op, d) ==
  IF op \in {"GetFh", "GetAttr", "Read", "Write", "Commit", "Open", "ReadDir",
            "ExchangeId", "CreateSession"}
  THEN <<d.val>> ELSE <<>>

BlamesLink(dec, op, raw, status, at) == Nfs(status, IF op = "Remove" THEN "Link" ELSE op, at)
\* decode_expected_op with validate_expected_reply_op, decode_expected_op_or_exist
\* (every OPEN and CREATE), decode_remove_expected_op (dec.missing), and the checks of
\* a COMMIT verifier: against the WRITE of the compound if that asked for a COMMIT,
\* or against the verifier of earlier writes.
Refused(dec, op, raw, status, at) ==
  CASE raw # Code[op] /\ ~(raw = Code["Illegal"] /\ status = OP_ILLEGAL) ->
         Error("protocol", 0, "none", at)
    [] raw # Code[op] -> Nfs(status, "Illegal", at)
    [] op \in {"Open", "Create"} /\ status = EXIST -> Success("exists")
    [] dec.missing /\ op \in {"PutFh", "Lookup", "Remove"} /\ status = NOENT ->
         Success("missing")
    [] OTHER -> Nfs(status, op, at)
VerifierHolds(dec, vals, commit) ==
  CASE dec.verifier = "write" ->
         LET write == vals[Len(vals)]
         IN RequiresCommit(write) => SubSeq(write, 3, 4) = commit
    [] dec.verifier = "earlier" -> commit = <<7, 7>>
    [] OTHER -> TRUE

\* advance and advance_with: nothing once the replies are used up.
Advance(dec, r, op) ==
  IF r.out # Walking \/ r.decoded >= r.count THEN r
  ELSE With(Read(r.d, 2), LAMBDA head :
    CASE ~Ok(head) -> [r EXCEPT !.out = Error(head.err, 0, "none", r.decoded)]
      [] head.val # <<Code[op], OK>> ->
           [r EXCEPT !.out = Refused(dec, op, head.val[1], head.val[2], r.decoded)]
      [] OTHER -> With(DecodeBody(op, head, dec), LAMBDA body :
           CASE ~Ok(body) -> [r EXCEPT !.out = Plain(body.err)]
             [] op = "Commit" /\ ~VerifierHolds(dec, r.vals, body.val) ->
                  [r EXCEPT !.out = Plain("lost")]
             [] OTHER -> [r EXCEPT !.d = body, !.decoded = @ + 1, !.vals = @ \o Kept(op, body)]))

\* validate_file_attrs.
AttrsComplete(dec, vals) ==
  \A i \in DOMAIN vals : i = dec.attrs =>
    vals[i].size # <<>> /\ (dec.type => vals[i].type # <<>>)

FinishEarly(dec, r) ==
  CASE r.out # Walking -> r.out
    [] r.status # OK -> Nfs(r.status, "Illegal", -1)
    [] OTHER -> Success("ok")
\* finish, and what every decode function asks for after it.
Finish(dec, r) ==
  CASE r.out # Walking -> r.out
    [] r.decoded < r.count -> Plain("protocol")
    [] r.status # OK -> Nfs(r.status, "Illegal", -1)
    [] r.decoded < Len(dec.steps) -> Plain("protocol")
    [] ~AttrsComplete(dec, r.vals) -> Plain("protocol")
    [] OTHER -> Success("ok")
Decode(dec, words) ==
  With(Fold(LAMBDA r, op : Advance(dec, r, op), NewReplies(words, dec.expected), dec.steps),
       LAMBDA r : [out |-> Finish(dec, r), vals |-> r.vals])
-----------------------------------------------------------------------------
(* The decode functions, for n path lookups *)

Decoder(expected, steps) ==
  [expected |-> expected, steps |-> steps, limit |-> -1, missing |-> FALSE,
   verifier |-> "none", attrs |-> 0, type |-> FALSE, sequenceid |-> 0]
Names(n) == [i \in 1 .. n |-> "Lookup"]
Path(n) == <<"Sequence", "PutFh">> \o Names(n)

\* link_remove_publish.
LinkRemovePublish(n) == <<"SaveFh", "PutFh">> \o Names(n) \o <<"Link", "Remove">>

\* decode_setup_compound: the two compounds without a SEQUENCE.
DecodeExchangeIdCompound == Decoder(1, <<"ExchangeId">>)
DecodeCreateSessionCompound(sequenceid, min) ==
  [Decoder(1, <<"CreateSession">>) EXCEPT !.sequenceid = sequenceid, !.limit = min]
DecodeNoResult(op) == Decoder(2, <<"Sequence", op>>)
DecodeRead == Decoder(3, <<"Sequence", "PutFh", "Read">>)
DecodeReadPath(n) == Decoder(3 + n, Path(n) \o <<"Read">>)
DecodeReadPathHandle(n) == Decoder(4 + n, Path(n) \o <<"GetFh", "Read">>)
DecodeReadPathSize(n) ==
  [Decoder(5 + n, Path(n) \o <<"GetFh", "GetAttr", "Read">>) EXCEPT !.attrs = 2]
DecodeGetFh(start, n) ==
  Decoder(3 + n, <<"Sequence", start>> \o Names(n) \o <<"GetFh">>)
DecodeGetFhAttrs(n) ==
  [Decoder(4 + n, Path(n) \o <<"GetFh", "GetAttr">>) EXCEPT !.attrs = 2, !.type = TRUE]
DecodeOpenFile(n) == Decoder(4 + n, Path(n) \o <<"Open", "GetFh">>)
DecodeWrite == Decoder(3, <<"Sequence", "PutFh", "Write">>)
DecodeWriteCommit == Decoder(4, <<"Sequence", "PutFh", "Write", "Commit">>)
DecodeReaddirPage(limit) ==
  [Decoder(3, <<"Sequence", "PutFh", "ReadDir">>) EXCEPT !.limit = limit]
DecodeReaddirPath(n, limit) ==
  [Decoder(4 + n, Path(n) \o <<"GetFh", "ReadDir">>) EXCEPT !.limit = limit]
DecodeReaddirPathWithoutHandle(n, limit) ==
  [Decoder(3 + n, Path(n) \o <<"ReadDir">>) EXCEPT !.limit = limit]
DecodeCreateDir(n) == Decoder(3 + n, Path(n) \o <<"Create">>)
DecodeCreateDirHandle(n) == Decoder(4 + n, Path(n) \o <<"Create", "GetFh">>)
DecodeRemove(n) == [Decoder(3 + n, Path(n) \o <<"Remove">>) EXCEPT !.missing = TRUE]
DecodeRenamePublish(n) == Decoder(4 + n, Path(n) \o <<"SaveFh", "Rename">>)
DecodeLinkRemovePublish(n) ==
  Decoder(6 + n, <<"Sequence", "PutFh">> \o LinkRemovePublish(n))

\* decode_close_compound and CloseShape::reply_count.
DecodeCloseFile == Decoder(3, <<"Sequence", "PutFh", "Close">>)
DecodeClosePublish(n, create_new, commit) ==
  [Decoder((IF create_new THEN 8 ELSE 7) + n + (IF commit THEN 1 ELSE 0),
           <<"Sequence", "PutFh">> \o (IF commit THEN <<"Commit">> ELSE <<>>)
             \o <<"Verify", "Close">>
             \o (IF create_new THEN LinkRemovePublish(n)
                 ELSE <<"PutFh">> \o Names(n) \o <<"SaveFh", "Rename">>))
   EXCEPT !.verifier = "earlier"]
DecodeCloseBatch(k) ==
  Decoder(1 + 2 * k, <<"Sequence">> \o FlattenSeq([i \in 1 .. k |-> <<"PutFh", "Close">>]))

DecodeFusedPut(n, create_new) ==
  [Decoder(IF create_new THEN 11 + 2 * n ELSE 10 + n,
           Path(n) \o (IF create_new THEN <<>> ELSE <<"SaveFh">>)
             \o <<"Open", "GetFh", "Write", "Commit", "Verify">>
             \o (IF create_new THEN LinkRemovePublish(n) ELSE <<"RestoreFh", "Rename">>))
   EXCEPT !.verifier = "write"]
=============================================================================
