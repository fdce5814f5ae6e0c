-------------------------------- MODULE Get --------------------------------
(***************************************************************************)
(* get, get_known_size and get_range of src/src/client.rs: the first READ  *)
(* by path, the sequential continuation on a file handle, and the          *)
(* pipelined one, which requests chunks ahead (ChunkScheduler) and puts    *)
(* their replies, short ones included, back in order (PipelinedEmit).      *)
(*                                                                         *)
(* The path may be replaced or removed at any moment; a handle stays with  *)
(* the file it was resolved to. A file is normally written once; a foreign *)
(* writer may nevertheless change its length, and a server may withhold an *)
(* EOF flag or answer out of shape: the history variable odd records that. *)
(* Lengths are counted in bytes small enough for TLC; a byte of a reply is *)
(* the pair of its file and its position.                                  *)
(***************************************************************************)
EXTENDS Integers, FiniteSets, SequencesExt

CONSTANTS
  Versions,         \* files the path may come to name
  Lengths,          \* the lengths files may have
  Requests,         \* the calls to make, as [kind, start, end]
  Limit,            \* max_buffered_read_size
  Granularity,      \* read_granularity
  ChunkSize,        \* read_chunk_size
  Depths,           \* operation_pipeline_depth of the sessions there may be
  ReconnectRetries, \* RECONNECT_RETRIES
  MaxFaults,        \* bound: failed or odd READs
  MaxChanges,       \* bound: changes of the path or of a file's length
  Absent

ASSUME LengthsAssumption == Lengths \subseteq Nat /\ 0 \in Lengths
ASSUME RequestsAssumption ==
  Requests \subseteq [kind : {"get", "known", "range"}, start : Nat, end : Nat]
ASSUME GranularityAssumption ==
  /\ Granularity \in Nat \ {0}
  /\ ChunkSize \in Nat /\ ChunkSize >= Granularity
ASSUME DepthAssumption == Depths \subseteq Nat \ {0}
ASSUME LimitAssumption == Limit \in Nat
ASSUME AbsentAssumption == Absent \notin Versions

VARIABLES
  path,     \* the file the path names, or Absent
  size,     \* size[v]: the length of file v
  named,    \* history: what the path has named during the call
  was,      \* history: was[v], the lengths v has had during the call
  odd,      \* history: a length changed or the server broke the protocol
  faults, changes,
  req, pc, attempts, result,
  depth,    \* operation_pipeline_depth of this attempt's session
  fh,       \* the file handle of this attempt
  fsize,    \* the size resolved with it
  emit,     \* the output so far, and PipelinedEmit
  sched     \* the READs in flight, and ChunkScheduler; its end is the end of
            \* the range in the sequential loop as well

world == <<path, size, named, was, changes>>
vars == <<world, odd, faults, req, pc, attempts, result, depth, fh, fsize, emit,
          sched>>

NoEof == -1
AtMost(a, b) == IF a < b THEN a ELSE b
Bytes(v, offset, len) == [i \in 1 .. len |-> <<v, offset + i - 1>>]

\* PipelinedEmit::new: nothing emitted but out, the next byte is at offset.
NewEmit(out, offset) ==
  [out |-> out, next |-> offset, completed |-> {}, eofAt |-> NoEof,
   upper |-> NoEof, err |-> "none"]
\* ChunkScheduler::new, with no READ in flight.
NewSched(offset, end) ==
  [reads |-> {}, gaps |-> <<>>, next |-> offset, end |-> end]

Errors == {"lost", "status", "noent", "protocol", "mismatch", "toolarge"}
\* ReadTaskOutput
Chunks == [offset : Nat, len : 0 .. Granularity, eof : BOOLEAN]
EmitStates ==
  [out : Seq(Versions \X Nat), next : Nat, completed : SUBSET Chunks,
   eofAt : Nat \cup {NoEof}, upper : Nat \cup {NoEof},
   err : Errors \cup {"none"}]

TypeOK ==
  /\ path \in Versions \cup {Absent}
  /\ size \in [Versions -> Lengths]
  /\ named \subseteq Versions \cup {Absent}
  /\ was \in [Versions -> SUBSET Lengths]
  /\ odd \in BOOLEAN
  /\ faults \in 0 .. MaxFaults
  /\ changes \in 0 .. MaxChanges
  /\ req \in Requests
  /\ pc \in {"begin", "probe", "probe_read", "empty", "one", "lookup", "first",
             "attrs", "single", "seq", "pipe", "done"}
  /\ attempts \in 0 .. ReconnectRetries
  /\ depth \in Depths
  /\ result \in Errors \cup {"none", "ok"}
  /\ fh \in Versions \cup {Absent}
  /\ fsize \in Lengths
  /\ emit \in EmitStates
  /\ \A q \in sched.reads : q \in [offset : Nat, count : 1 .. Granularity]
  /\ Cardinality(sched.reads) <= depth
  /\ sched.gaps \in Seq(Nat \X (1 .. Granularity))
  /\ sched.next \in Nat
  /\ sched.end \in Nat

Init ==
  /\ path \in Versions \cup {Absent}
  /\ \E n \in Lengths : size = [v \in Versions |-> IF v = path THEN n ELSE 0]
  /\ named = {path}
  /\ was = [v \in Versions |-> {size[v]}]
  /\ odd = FALSE
  /\ faults = 0
  /\ changes = 0
  /\ req \in Requests
  /\ pc = "begin"
  /\ attempts = 0
  /\ depth \in Depths
  /\ result = "none"
  /\ fh = Absent
  /\ fsize = 0
  /\ emit = NewEmit(<<>>, 0)
  /\ sched = NewSched(0, 0)
-----------------------------------------------------------------------------
(* External: the path, the files and the answers to READ.                  *)

\* Another client replaces or removes the file.
Replace ==
  /\ pc # "done"
  /\ changes < MaxChanges
  /\ \/ /\ path' = Absent
        /\ UNCHANGED <<size, was>>
     \/ \E v \in Versions \ named, n \in Lengths :
          /\ path' = v
          /\ size' = [size EXCEPT ![v] = n]
          /\ was' = [was EXCEPT ![v] = {n}]
  /\ named' = named \cup {path'}
  /\ changes' = changes + 1
  /\ UNCHANGED <<odd, faults, req, pc, attempts, result, depth, fh, fsize, emit,
                 sched>>

\* A foreign writer changes a file in place.
Resize(v) ==
  /\ pc # "done"
  /\ v \in named
  /\ changes < MaxChanges
  /\ \E n \in Lengths \ {size[v]} :
       /\ size' = [size EXCEPT ![v] = n]
       /\ was' = [was EXCEPT ![v] = @ \cup {n}]
  /\ odd' = TRUE
  /\ changes' = changes + 1
  /\ UNCHANGED <<path, named, faults, req, pc, attempts, result, depth, fh, fsize,
                 emit, sched>>

\* A READ returns what it likes of the bytes there are, at least one of them,
\* and EOF with the last.
GoodReplies(v, offset, count) ==
  LET most == IF offset < size[v] THEN AtMost(count, size[v] - offset) ELSE 0
  IN {[len |-> n, eof |-> offset + n >= size[v]] :
        n \in IF most = 0 THEN {0} ELSE 1 .. most}

\* EOF is withheld at the end of the file, or too many bytes are returned.
OddReplies(v, offset, count) ==
  {[len |-> r.len, eof |-> FALSE] : r \in GoodReplies(v, offset, count)}
    \cup {[len |-> count + 1, eof |-> FALSE]}

Replies(v, offset, count) ==
  GoodReplies(v, offset, count) \cup OddReplies(v, offset, count)

\* The server answers a READ of v with r.
Answer(v, offset, count, r) ==
  IF r \in GoodReplies(v, offset, count)
  THEN UNCHANGED <<odd, faults>>
  ELSE faults < MaxFaults /\ faults' = faults + 1 /\ odd' = TRUE

\* A call fails: the session is lost, or a status is returned.
Failure(e) ==
  /\ e \in {"lost", "status"}
  /\ faults < MaxFaults
  /\ faults' = faults + 1
  /\ UNCHANGED odd
-----------------------------------------------------------------------------
(* Checks on a reply.                                                       *)

\* validate_read_reply
Malformed(r, count) == r.len > count \/ (count > 0 /\ r.len = 0 /\ ~r.eof)

\* read_needs_retry
NeedsRetry(r, count) == r.len < count /\ ~r.eof

\* ExpectedEof::offset: the size the caller supplied or the one resolved.
ExpectedEnd == IF req.kind = "known" THEN req.end ELSE fsize

\* size_expectation_error
SizeError == IF req.kind = "known" THEN "mismatch" ELSE "protocol"

\* validate_optional_expected_eof: a read ended at offset at.
EofCheck(at, eof) ==
  CASE req.kind = "range" -> "ok"
    [] req.kind # "range" /\ eof -> IF at = ExpectedEnd THEN "ok" ELSE SizeError
    [] OTHER -> IF at >= ExpectedEnd THEN SizeError ELSE "ok"

EofOptional(at) ==
  IF req.kind = "range" \/ at \in {ExpectedEnd, NoEof} THEN "ok" ELSE SizeError

\* validate_optional_observed_eof: all is read, EOF was seen at at.
ObservedCheck(at) ==
  IF req.kind = "range" \/ at = ExpectedEnd THEN "ok" ELSE SizeError

\* ensure_known_size_within_limit, ensure_buffered_read_within_limit
TooLarge(len) == len > Limit

\* small_get_probe_count
ProbeCount == AtMost(Limit, Granularity)

\* buffered_range_len
RangeLen(length) ==
  IF req.start >= length THEN 0 ELSE AtMost(req.end, length) - req.start
-----------------------------------------------------------------------------
(* ChunkScheduler. *)

\* short_read_gap
ShortReadGap(q, r) ==
  IF ~r.eof /\ r.len < q.count
  THEN <<<<q.offset + r.len, q.count - r.len>>>>
  ELSE <<>>

\* next_range, and the READ it makes: the last gap, or else the next chunk.
NextRange(s, em) ==
  CASE s.gaps # <<>> ->
         [s EXCEPT !.gaps = Front(@),
                   !.reads = @ \cup {[offset |-> Last(s.gaps)[1],
                                      count |-> AtMost(Last(s.gaps)[2], Granularity)]}]
    [] s.gaps = <<>> /\ em.upper = NoEof /\ s.next < s.end ->
         LET len == AtMost(s.end - s.next, Granularity)
         IN [s EXCEPT !.next = @ + len,
                      !.reads = @ \cup {[offset |-> s.next, count |-> len]}]
    [] OTHER -> s

\* reads.len() < depth
HasRoom(s) == Cardinality(s.reads) < depth

\* The scheduling loop: at most depth READs are in flight.
Schedule(s, em) ==
  LET after[n \in 0 .. depth] ==
        IF n = 0 THEN s
        ELSE IF em.err = "none" /\ HasRoom(after[n - 1])
             THEN NextRange(after[n - 1], em)
             ELSE after[n - 1]
  IN after[depth]
-----------------------------------------------------------------------------
(* PipelinedEmit. *)

\* record_error keeps the first error.
RecordError(em, e) == IF em.err = "none" THEN [em EXCEPT !.err = e] ELSE em

RecordIf(em, cond) == IF cond THEN RecordError(em, "protocol") ELSE em

ObserveUpperBound(em, at) ==
  [RecordIf(em, em.eofAt > at) EXCEPT
     !.upper = IF @ = NoEof THEN at ELSE AtMost(@, at)]

ObserveExactEof(em, at) ==
  LET checked == RecordIf(em, em.upper # NoEof /\ at > em.upper)
  IN ObserveUpperBound(
       IF em.eofAt = NoEof
       THEN [checked EXCEPT !.eofAt = at]
       ELSE RecordIf(checked, em.eofAt # at),
       at)

ObserveAsExact(em, c) == ObserveExactEof(em, c.offset + c.len)

\* An empty EOF reply ahead of the output only bounds the end of the file.
ObserveReadEof(em, c) ==
  IF c.len = 0 /\ c.offset # em.next
  THEN ObserveUpperBound(em, c.offset)
  ELSE ObserveExactEof(em, c.offset + c.len)

BeyondEof(em, c) == em.eofAt # NoEof /\ c.len > 0 /\ c.offset + c.len > em.eofAt

\* emit: the chunk at the output's end.
Emit(em, c) ==
  LET grown == [em EXCEPT !.next = @ + c.len,
                          !.out = @ \o Bytes(fh, c.offset, c.len)]
  IN CASE c.len = 0 -> ObserveExactEof(em, c.offset)
       [] c.len > 0 /\ TooLarge(Len(em.out) + c.len) -> RecordError(em, "toolarge")
       [] OTHER -> IF c.eof THEN ObserveExactEof(grown, grown.next) ELSE grown

\* drain_queued: what waited for the output to come this far.
DrainQueued(em) ==
  LET drain[e \in EmitStates] ==
        LET fits == {c \in e.completed : c.offset = e.next}
            c == CHOOSE c \in fits : TRUE
            n == Emit([e EXCEPT !.completed = @ \ {c}], c)
        IN CASE fits = {} \/ (e.eofAt # NoEof /\ e.next >= e.eofAt) -> e
             [] OTHER -> IF n.err # "none" THEN n ELSE drain[n]
  IN drain[em]

\* record
Record(em, c) ==
  LET seen == IF c.eof THEN ObserveReadEof(em, c) ELSE em
  IN CASE BeyondEof(seen, c) -> RecordError(seen, "protocol")
       [] ~BeyondEof(seen, c) /\ c.offset = seen.next -> DrainQueued(Emit(seen, c))
       [] OTHER -> [seen EXCEPT !.completed = @ \cup {c}]

\* finish
FinishResult(em) ==
  CASE em.err # "none" -> em.err
    [] em.err = "none" /\ \/ \E c \in em.completed : BeyondEof(em, c)
                          \/ em.next < em.eofAt
                          \/ em.eofAt = NoEof /\ em.next < em.upper -> "protocol"
    [] OTHER -> ObservedCheck(em.eofAt)
-----------------------------------------------------------------------------
(* The calls. *)

\* The attempt ends with r. If its session was lost,
\* retrying_session_operation makes another one on a new session, unless the
\* reconnect fails too.
Return(r, out) ==
  /\ \/ /\ r = "lost"
        /\ attempts < ReconnectRetries
        /\ pc' = "begin"
        /\ attempts' = attempts + 1
        /\ depth' \in Depths
        /\ UNCHANGED result
     \/ /\ pc' = "done"
        /\ result' = r
        /\ UNCHANGED <<attempts, depth>>
  /\ emit' = NewEmit(IF r = "ok" THEN out ELSE <<>>, 0)
  /\ sched' = NewSched(0, 0)
  /\ fh' = Absent
  /\ fsize' = 0

\* Go on to another await point with nothing read yet.
Await(label) ==
  /\ pc' = label
  /\ UNCHANGED <<attempts, result, depth, emit, sched>>

\* Read from a handle, sequentially, from offset to end.
ReadInto(label, out, offset, end) ==
  /\ pc' = label
  /\ emit' = NewEmit(out, offset)
  /\ sched' = NewSched(offset, end)
  /\ UNCHANGED <<attempts, result, depth>>

\* read_handle_to_bytes_pipelined_into, up to its first await.
ReadPipelined(out, offset, end) ==
  /\ pc' = "pipe"
  /\ emit' = NewEmit(out, offset)
  /\ sched' = Schedule(NewSched(offset, end), NewEmit(out, offset))
  /\ UNCHANGED <<attempts, result, depth>>

\* read_handle_to_bytes_after_prefix
ReadAfterPrefix(out, offset, end) ==
  IF end - offset <= Granularity \/ depth <= 1
  THEN ReadInto("seq", out, offset, end)
  ELSE ReadPipelined(out, offset, end)

\* read_handle_to_bytes
ReadHandle(offset, end) ==
  CASE end - offset <= Granularity -> ReadInto("single", <<>>, offset, end)
    [] end - offset > Granularity /\ depth <= 1 -> ReadInto("seq", <<>>, offset, end)
    [] OTHER -> ReadPipelined(<<>>, offset, end)

\* get_once, get_known_size_once, get_range_once and read_range_anonymous up to
\* their first await.
Begin ==
  /\ pc = "begin"
  /\ LET len == req.end - req.start
     IN CASE req.kind = "get" -> Await("probe") /\ UNCHANGED <<fh, fsize>>
          [] req.kind = "range" /\ len <= 0 -> Return("ok", <<>>)
          [] req.kind = "known" /\ TooLarge(len) -> Return("toolarge", <<>>)
          [] req.kind = "known" /\ len = 0 -> Await("empty") /\ UNCHANGED <<fh, fsize>>
          [] req.kind = "range" /\ TooLarge(len) ->
               Await("attrs") /\ UNCHANGED <<fh, fsize>>
          [] OTHER ->
               /\ Await(IF len <= Granularity THEN "one" ELSE "first")
               /\ UNCHANGED <<fh, fsize>>
  /\ UNCHANGED <<world, odd, faults, req>>

\* read_path_anonymous_with_size: LOOKUP, GETFH and GETATTR at the server ...
ProbeSize ==
  /\ pc = "probe"
  /\ path # Absent
  /\ fh' = path
  /\ fsize' = size[path]
  /\ Await("probe_read")
  /\ UNCHANGED <<world, odd, faults, req>>

\* ... then its READ, and get_once on the reply.
ProbeRead ==
  /\ pc = "probe_read"
  /\ \E r \in Replies(fh, 0, ProbeCount) :
       /\ Answer(fh, 0, ProbeCount, r)
       /\ LET data == Bytes(fh, 0, r.len)
          IN CASE Malformed(r, ProbeCount) -> Return("protocol", <<>>)
               [] ~Malformed(r, ProbeCount) /\ TooLarge(fsize) ->
                    Return("toolarge", <<>>)
               [] OTHER ->
                    IF r.len = fsize THEN Return(EofCheck(r.len, r.eof), data)
                    ELSE IF r.len > fsize \/ r.eof THEN Return(SizeError, <<>>)
                    ELSE ReadAfterPrefix(data, r.len, fsize) /\ UNCHANGED <<fh, fsize>>
  /\ UNCHANGED <<world, req>>

\* get_known_size of an empty file: a READ of one byte by path.
EmptyRead ==
  /\ pc = "empty"
  /\ path # Absent
  /\ \E r \in Replies(path, 0, 1) :
       /\ Answer(path, 0, 1, r)
       /\ Return(IF Malformed(r, 1) THEN "protocol" ELSE EofCheck(r.len, r.eof), <<>>)
  /\ UNCHANGED <<world, req>>

\* A read that ends with reply r, which began at offset of file v.
EndsRead(v, offset, count, r) ==
  CASE Malformed(r, count) -> Return("protocol", <<>>)
    [] ~Malformed(r, count) /\ TooLarge(r.len) -> Return("toolarge", <<>>)
    [] OTHER -> Return(EofCheck(offset + r.len, r.eof), Bytes(v, offset, r.len))

\* Neither of its first two errors.
Acceptable(count, r) == ~Malformed(r, count) /\ ~TooLarge(r.len)

\* read_range_anonymous of a single chunk: a READ by path. A short reply is
\* thrown away and the range read again from a handle.
OneRead ==
  /\ pc = "one"
  /\ path # Absent
  /\ LET count == req.end - req.start
     IN \E r \in Replies(path, req.start, count) :
          /\ Answer(path, req.start, count, r)
          /\ IF Acceptable(count, r) /\ NeedsRetry(r, count)
             THEN Await("lookup") /\ UNCHANGED <<fh, fsize>>
             ELSE EndsRead(path, req.start, count, r)
  /\ UNCHANGED <<world, req>>

\* lookup_file_handle
LookupHandle ==
  /\ pc = "lookup"
  /\ path # Absent
  /\ fh' = path
  /\ ReadHandle(req.start, req.end)
  /\ UNCHANGED <<world, odd, faults, req, fsize>>

\* read_range_anonymous of several chunks: the first by path, with the handle.
FirstRead ==
  /\ pc = "first"
  /\ path # Absent
  /\ \E r \in Replies(path, req.start, Granularity) :
       /\ Answer(path, req.start, Granularity, r)
       /\ IF Acceptable(Granularity, r) /\ ~r.eof
          THEN /\ fh' = path
               /\ ReadAfterPrefix(Bytes(path, req.start, r.len), req.start + r.len,
                                  req.end)
               /\ UNCHANGED fsize
          ELSE EndsRead(path, req.start, Granularity, r)
  /\ UNCHANGED <<world, req>>

\* get_range of more than the limit: lookup_file_handle_attrs first.
LookupAttrs ==
  /\ pc = "attrs"
  /\ path # Absent
  /\ LET len == RangeLen(size[path])
     IN CASE TooLarge(len) -> Return("toolarge", <<>>)
          [] ~TooLarge(len) /\ len = 0 -> Return("ok", <<>>)
          [] OTHER -> /\ fh' = path
                      /\ ReadHandle(req.start, req.start + len)
                      /\ UNCHANGED fsize
  /\ UNCHANGED <<world, odd, faults, req>>

\* The path names nothing when the server looks it up.
NotFound ==
  /\ pc \in {"probe", "empty", "one", "lookup", "first", "attrs"}
  /\ path = Absent
  /\ Return("noent", <<>>)
  /\ UNCHANGED <<world, odd, faults, req>>

\* read_handle_single_chunk_or_continue
SingleRead ==
  /\ pc = "single"
  /\ LET count == sched.end - emit.next
     IN \E r \in Replies(fh, emit.next, count) :
          /\ Answer(fh, emit.next, count, r)
          /\ IF Acceptable(count, r) /\ NeedsRetry(r, count)
             THEN /\ ReadInto("seq", Bytes(fh, emit.next, r.len), emit.next + r.len,
                              sched.end)
                  /\ UNCHANGED <<fh, fsize>>
             ELSE EndsRead(fh, emit.next, count, r)
  /\ UNCHANGED <<world, req>>

\* The loop goes on: no EOF, and some of the range is missing.
ReadsOn(r, offset, end) == r.len > 0 /\ ~r.eof /\ offset < end

\* One round of read_handle_to_bytes_sequential_into.
SequentialRead ==
  /\ pc = "seq"
  /\ LET count == AtMost(sched.end - emit.next, ChunkSize)
     IN \E r \in Replies(fh, emit.next, count) :
          /\ Answer(fh, emit.next, count, r)
          /\ LET at == emit.next + r.len
                 out == emit.out \o Bytes(fh, emit.next, r.len)
             IN CASE Malformed(r, count) -> Return("protocol", <<>>)
                  [] ~Malformed(r, count) /\ TooLarge(Len(out)) /\ r.len > 0 ->
                       Return("toolarge", <<>>)
                  [] OTHER ->
                       IF ReadsOn(r, at, sched.end)
                       THEN /\ ReadInto("seq", out, at, sched.end)
                            /\ UNCHANGED <<fh, fsize>>
                       ELSE Return(ObservedCheck(IF r.eof THEN at ELSE NoEof), out)
  /\ UNCHANGED <<world, req>>

\* A call of the phases above fails.
CallFails ==
  /\ pc \in {"probe", "probe_read", "empty", "one", "lookup", "first", "attrs",
              "single", "seq"}
  /\ \E e \in {"lost", "status"} : Failure(e) /\ Return(e, <<>>)
  /\ UNCHANGED <<world, req>>

\* The pipelined loop after a completion: more READs, or finish.
Continue(s, em) ==
  \E next \in {Schedule(s, em)} :
    IF next.reads = {}
    THEN Return(FinishResult(em), em.out)
    ELSE /\ emit' = em
         /\ sched' = next
         /\ UNCHANGED <<pc, attempts, result, depth, fh, fsize>>

\* A READ in flight completes: read_chunk, push_gap and record.
ChunkRead(q) ==
  /\ pc = "pipe"
  /\ \E r \in Replies(fh, q.offset, q.count) :
       /\ Answer(fh, q.offset, q.count, r)
       /\ LET rest == [sched EXCEPT !.reads = @ \ {q}]
              read == [offset |-> q.offset, len |-> r.len, eof |-> r.eof]
          IN IF Malformed(r, q.count)
             THEN Continue(rest, RecordError(emit, "protocol"))
             ELSE \E em \in {Record(emit, read)} :
                    Continue([rest EXCEPT !.gaps = @ \o ShortReadGap(q, r)], em)
  /\ UNCHANGED <<world, req>>

\* A READ in flight fails.
ChunkFails(q) ==
  /\ pc = "pipe"
  /\ \E e \in {"lost", "status"} :
       /\ Failure(e)
       /\ Continue([sched EXCEPT !.reads = @ \ {q}], RecordError(emit, e))
  /\ UNCHANGED <<world, req>>
-----------------------------------------------------------------------------
ClientStep ==
  \/ Begin \/ ProbeSize \/ ProbeRead \/ EmptyRead \/ OneRead \/ LookupHandle
  \/ FirstRead \/ LookupAttrs \/ NotFound \/ SingleRead \/ SequentialRead
  \/ CallFails
  \/ \E q \in sched.reads : ChunkRead(q) \/ ChunkFails(q)
-----------------------------------------------------------------------------
(***************************************************************************)
(* What a successful read returns are consecutive bytes of one file the    *)
(* path named during the call, from the first requested one on, without a  *)
(* hole, a repetition or a mixture, whatever is short, late or replaced.   *)
(* get and get_known_size return a whole file of the resolved or supplied  *)
(* size; get_range returns less than it was asked for only at the file's   *)
(* end.                                                                    *)
(***************************************************************************)
OkIsTheRange ==
  result = "ok" =>
    IF req.kind = "range" /\ req.end <= req.start THEN emit.out = <<>>
    ELSE \E v \in named \ {Absent} :
      LET len == Len(emit.out)
      IN /\ emit.out = Bytes(v, req.start, len)
         /\ CASE req.kind = "get" -> len \in was[v]
              [] req.kind = "known" -> len = req.end /\ len \in was[v]
              [] OTHER -> /\ len <= req.end - req.start
                          /\ \/ len = req.end - req.start
                             \/ \E s \in was[v] : s <= req.start + len

(***************************************************************************)
(* An error is deserved. On files that are written once and a server that  *)
(* keeps the protocol, no order of replies, short or empty ones included,  *)
(* makes PipelinedEmit report a protocol error, a size mismatch means that *)
(* the supplied size is wrong, and BufferedReadTooLarge that the data      *)
(* would not fit the limit.                                                *)
(***************************************************************************)
ErrorIsDeserved ==
  CASE result = "protocol" -> odd
    [] result = "mismatch" ->
         odd \/ \E v \in named \ {Absent} : req.end \notin was[v]
    [] result = "toolarge" ->
         \/ req.kind = "known" /\ req.end > Limit
         \/ \E v \in named \ {Absent} : \E s \in was[v] : s > Limit
    [] result = "noent" -> Absent \in named
    [] OTHER -> TRUE

(***************************************************************************)
(* While chunks are in flight, every byte between the output and the next  *)
(* fresh chunk, up to the end of the file as far as it is known, is        *)
(* accounted for exactly once: it is in flight, waits in completed, or is  *)
(* in a gap of a short read to be requested again.                         *)
(***************************************************************************)
EveryByteOnce ==
  pc = "pipe" /\ emit.err = "none" =>
    \A p \in emit.next .. sched.next - 1 :
      (emit.upper = NoEof \/ p < emit.upper) =>
        Cardinality({q \in sched.reads : p \in q.offset .. q.offset + q.count - 1})
          + Cardinality({c \in emit.completed : p \in c.offset .. c.offset + c.len - 1})
          + Cardinality({i \in DOMAIN sched.gaps :
                p \in sched.gaps[i][1] .. sched.gaps[i][1] + sched.gaps[i][2] - 1}) = 1

(***************************************************************************)
(* No byte goes astray, neither between ChunkScheduler and PipelinedEmit   *)
(* nor in what a read returns.                                             *)
(***************************************************************************)
BytesAreKept == EveryByteOnce /\ OkIsTheRange
=============================================================================
