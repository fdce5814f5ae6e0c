------------------------------ MODULE Requests ------------------------------
(***************************************************************************)
(* The compounds NfsSession sends (src/src/nfs4/session.rs, nfs4.rs) and   *)
(* their encoding (src/src/nfs4/ops.rs, codec.rs).                         *)
(*                                                                         *)
(* An operation is its name and the file it is about; what the encoding    *)
(* depends on are the lengths of its variable arguments, the record l of   *)
(* byte counts. An encoding is the sequence of the byte counts of its      *)
(* fields.                                                                 *)
(***************************************************************************)
EXTENDS Xdr, SequencesExt

Op(name) == [op |-> name, file |-> 0]
On(name, file) == [op |-> name, file |-> file]
Lookups(n) == [i \in 1 .. n |-> Op("Lookup")]

\* extend_export_path_ops and root_path_ops_with_extra, for a path of n names.
PathOps(n) == <<Op("PutFh")>> \o Lookups(n)
RootPathOps(n) == <<Op("PutRootFh")>> \o Lookups(n)

\* A method's compound, and whether it is sent again after a transient status.
Request(ops) == [ops |-> ops, retry |-> TRUE]
Once(ops) == [ops |-> ops, retry |-> FALSE]
-----------------------------------------------------------------------------
(* Reads and directories *)

LookupFileHandle(n) == Request(PathOps(n) \o <<Op("GetFh")>>)
LookupFileHandleAttrs(n) == Request(PathOps(n) \o <<Op("GetFh"), Op("GetAttr")>>)
LookupChildHandle == Request(<<Op("PutFh"), Op("Lookup"), Op("GetFh")>>)
ResolveExportRoot(n) == Request(RootPathOps(n) \o <<Op("GetFh")>>)
ReadAnonymous == Request(<<Op("PutFh"), Op("Read")>>)
ReadPathAnonymous(n) == Request(PathOps(n) \o <<Op("Read")>>)
ReadPathAnonymousWithHandle(n) == Request(PathOps(n) \o <<Op("GetFh"), Op("Read")>>)
ReadPathAnonymousWithSize(n) ==
  Request(PathOps(n) \o <<Op("GetFh"), Op("GetAttr"), Op("Read")>>)
ReadDirPage == Request(<<Op("PutFh"), Op("ReadDir")>>)
ReadDirPathPage(n) == Request(PathOps(n) \o <<Op("GetFh"), Op("ReadDir")>>)
ReadDirPathPageWithoutHandle(n) == Request(PathOps(n) \o <<Op("ReadDir")>>)
CreateDir(n) == Request(PathOps(n) \o <<Op("Create")>>)
CreateDirWithHandle(n) == Request(PathOps(n) \o <<Op("Create"), Op("GetFh")>>)
ReclaimComplete == Request(<<Op("ReclaimComplete")>>)
-----------------------------------------------------------------------------
(* Files *)

OpenFile(n, f) == Request(PathOps(n) \o <<On("Open", f), Op("GetFh")>>)
CloseFile(f) == Request(<<On("PutFh", f), On("Close", f)>>)
CloseBatch(files) ==
  Once(FlattenSeq([i \in DOMAIN files |-> <<On("PutFh", files[i]), On("Close", files[i])>>]))
WriteAt(f) == Request(<<On("PutFh", f), On("Write", f)>>)
WriteAndCommit(f) == Request(<<On("PutFh", f), On("Write", f), On("Commit", f)>>)
RemoveName(n) == Request(PathOps(n) \o <<Op("Remove")>>)

LinkRemoveOps(n, f) ==
  <<Op("SaveFh")>> \o PathOps(n) \o <<On("Link", f), Op("Remove")>>
RenameOps(n, f) == PathOps(n) \o <<Op("SaveFh"), On("Rename", f)>>

ClosePublish(n, f, create_new, commit) ==
  Request(<<On("PutFh", f)>> \o (IF commit THEN <<On("Commit", f)>> ELSE <<>>)
    \o <<On("Verify", f), On("Close", f)>>
    \o (IF create_new THEN LinkRemoveOps(n, f) ELSE RenameOps(n, f)))

PublishAfterClose(n, f, create_new) ==
  Request(IF create_new THEN <<On("PutFh", f)>> \o LinkRemoveOps(n, f) ELSE RenameOps(n, f))

TryPutFused(n, f, create_new) ==
  Once(PathOps(n) \o (IF create_new THEN <<>> ELSE <<Op("SaveFh")>>)
    \o <<On("Open", f), Op("GetFh"), On("Write", f), On("Commit", f), On("Verify", f)>>
    \o (IF create_new THEN LinkRemoveOps(n, f) ELSE <<Op("RestoreFh"), On("Rename", f)>>))
-----------------------------------------------------------------------------
(* Encoding *)

Fields(fields) == SelectSeq(fields, LAMBDA n : n > 0)
PutOpaque(len) == Fields(<<4, len, XdrPadding(len)>>)

\* SetAttrs: size is in the first word of the bitmap, mode in the second.
BitmapWords(size, mode) == IF mode THEN 2 ELSE IF size THEN 1 ELSE 0
ValuesLen(size, mode) == (IF size THEN 8 ELSE 0) + (IF mode THEN 4 ELSE 0)
EncodeSetAttrs(size, mode) ==
  Fields(<<4>> \o [i \in 1 .. BitmapWords(size, mode) |-> 4]
           \o <<4, IF size THEN 8 ELSE 0, IF mode THEN 4 ELSE 0>>)
SetAttrsLen(size, mode) ==
  4 + BitmapWords(size, mode) * 4 + XdrOpaqueLen(ValuesLen(size, mode))

EncodeStateId == <<4, 12>>
StateIdLen == 4 + XdrFixedOpaqueLen(12)

\* encode_channel_attrs and channel_attrs_len.
EncodeChannelAttrs == <<4, 4, 4, 4, 4, 4, 4>>
ChannelAttrsLen == 7 * 4

\* NfsOp::encode: the operation code and its arguments. The bitmap of a GETATTR has
\* one word, that of a READDIR none.
Encode(o, l) ==
  <<4>> \o
  CASE o.op \in {"PutRootFh", "GetFh", "SaveFh", "RestoreFh"} -> <<>>
    [] o.op = "PutFh" -> PutOpaque(l.fh)
    [] o.op \in {"Lookup", "Link", "Remove"} -> PutOpaque(l.name)
    [] o.op = "Verify" -> EncodeSetAttrs(TRUE, FALSE)
    [] o.op = "GetAttr" -> <<4, 4>>
    [] o.op = "Open" ->
         <<4, 4, 4, 8>> \o PutOpaque(l.owner) \o <<4, 4>> \o EncodeSetAttrs(TRUE, TRUE)
           \o <<4>> \o PutOpaque(l.name)
    [] o.op = "Close" -> <<4>> \o EncodeStateId
    [] o.op = "Read" -> EncodeStateId \o <<8, 4>>
    [] o.op = "Write" -> EncodeStateId \o <<8, 4>> \o PutOpaque(l.data)
    [] o.op = "Commit" -> <<8, 4>>
    [] o.op = "Rename" -> PutOpaque(l.name) \o PutOpaque(l.other)
    [] o.op = "Create" -> <<4>> \o PutOpaque(l.name) \o EncodeSetAttrs(FALSE, TRUE)
    [] o.op = "ReadDir" -> <<8, 8, 4, 4, 4>>
    [] o.op = "ExchangeId" -> <<8>> \o PutOpaque(l.owner) \o <<4, 4, 4>>
    [] o.op = "CreateSession" ->
         <<8, 4, 4>> \o EncodeChannelAttrs \o EncodeChannelAttrs \o <<4, 4>>
    [] o.op = "ReclaimComplete" -> <<4>>

UnpaddedWriteLen(o, l) ==
  IF o.op = "Write" THEN 4 + StateIdLen + 8 + 4 + 4 + l.data
  ELSE Fold(LAMBDA a, b : a + b, 0, Encode(o, l))
\* NfsOp::encoded_len, which the request limits are checked with.
EncodedLen(o, l) ==
  4 + CASE o.op \in {"PutRootFh", "GetFh", "SaveFh", "RestoreFh"} -> 0
    [] o.op = "Verify" -> SetAttrsLen(TRUE, FALSE)
    [] o.op = "PutFh" -> XdrOpaqueLen(l.fh)
    [] o.op \in {"Lookup", "Link", "Remove"} -> XdrOpaqueLen(l.name)
    [] o.op = "GetAttr" -> 4 + 4
    [] o.op = "Open" ->
         4 + 4 + 4 + 8 + XdrOpaqueLen(l.owner) + 4 + (4 + SetAttrsLen(TRUE, TRUE)) + 4
           + XdrOpaqueLen(l.name)
    [] o.op = "Close" -> 4 + StateIdLen
    [] o.op = "Read" -> StateIdLen + 8 + 4
    [] o.op = "Write" -> StateIdLen + 8 + 4 + XdrOpaqueLen(l.data)
    [] o.op = "Commit" -> 8 + 4
    [] o.op = "Rename" -> XdrOpaqueLen(l.name) + XdrOpaqueLen(l.other)
    [] o.op = "Create" -> 4 + XdrOpaqueLen(l.name) + SetAttrsLen(FALSE, TRUE)
    [] o.op = "ReadDir" -> 8 + XdrFixedOpaqueLen(8) + 4 + 4 + 4
    [] o.op = "ExchangeId" -> XdrFixedOpaqueLen(8) + XdrOpaqueLen(l.owner) + 4 + 4 + 4
    [] o.op = "CreateSession" -> 8 + 4 + 4 + ChannelAttrsLen + ChannelAttrsLen + 4 + 4
    [] o.op = "ReclaimComplete" -> 4
-----------------------------------------------------------------------------
Sum(s) == Fold(LAMBDA a, b : a + b, 0, s)

\* encode_sequence_op and sequence_op_encoded_len.
EncodeSequenceOp == <<4, 16, 4, 4, 4, 4>>
SequenceOpLen == 4 + XdrFixedOpaqueLen(16) + 4 + 4 + 4 + 4

Header(l) == PutOpaque(l.tag) \o <<4, 4>>
CompoundEncodedLen(ops, l) ==
  XdrOpaqueLen(l.tag) + 4 + 4 + Sum([i \in DOMAIN ops |-> EncodedLen(ops[i], l)])
CompoundWithSequenceEncodedLen(ops, l) == CompoundEncodedLen(ops, l) + SequenceOpLen

\* encode_compound_inner: one contiguous buffer.
EncodeCompound(ops, sequence, l) ==
  Header(l) \o (IF sequence THEN EncodeSequenceOp ELSE <<>>)
    \o FlattenSeq([i \in DOMAIN ops |-> Encode(ops[i], l)])

\* encode_compound_with_sequence: the data of a WRITE is a segment of its own, and
\* its padding opens the next one.
PutWrite(segs, l) ==
  LET last == segs[Len(segs)]
  IN Front(segs)
       \o <<last \o <<4>> \o EncodeStateId \o <<8, 4, 4>>, Fields(<<l.data>>),
            Fields(<<XdrPadding(l.data)>>)>>
EncodeCompoundWithSequence(ops, l) ==
  Fold(LAMBDA segs, o :
         IF o.op = "Write" THEN PutWrite(segs, l)
         ELSE Front(segs) \o <<segs[Len(segs)] \o Encode(o, l)>>,
       <<Header(l) \o EncodeSequenceOp>>, ops)

\* RpcPayload::from_segments drops empty segments.
Payload(segs) == SelectSeq(segs, LAMBDA s : s # <<>>)
PayloadLen(segs) == Sum([i \in DOMAIN Payload(segs) |-> Sum(Payload(segs)[i])])
=============================================================================
