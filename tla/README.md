# A TLA+ verification of nfs-crust

nfs-crust is an NFSv4.1 client library: whole-object `put`, `get`, `get_range`,
`delete` and `list_page` over one TCP or TLS connection per session, with session
slots, pipelining, deferred closes and automatic session recovery. This directory
holds TLA+ modules translated from its source (`src/src/`), TLC runs that check them
on small instances, and TLAPS proofs of the most important properties of sessions, of
the transport under them, of their recovery, of chunked writes and of put and delete
for every value of the constants. `PROJECT.json`
lists the runs, the source lines every definition stands for, the hazards and the
findings.

## 1. The system

| part | source | state | operations that change it | module |
|---|---|---|---|---|
| slot table | `nfs4/slots.rs` | slot mutexes, `usable`, `sequenceid`, `active`, semaphore, `live_slots`, `slot_limits`, `state_changed` | `acquire`, `acquire_for_request`, `request_highest_slotid`, `update_limits`, drop of a guard | SlotTable |
| session core | `nfs4/session.rs`, `nfs4/codec.rs` | `fatal_sequence_flags`, the armed guard | `compound_raw_once`: check, acquire, send, decode SEQUENCE | Session |
| RPC transport | `rpc.rs` | pending map, xid counter, writer queue, `transport_closed` | `call_with_timeout`, `write_loop`, `read_loop`, `fail_all` | Rpc, RpcPromise |
| recovery | `client.rs` | current session and generation, `ReconnectState` | `retrying_session_operation`, `reconnect`, `run_reconnect`, `connect_session`, `NfsClientBuilder::connect` | Reconnect, Recovery |
| client owner, session setup | `nfs4.rs`, `nfs4/session.rs`, `nfs4/codec.rs` | the owner's verifier, phase and latched flags of each session | `NfsSession::connect`, `latch_fatal_sequence_flags`, `rotate_verifier_if_current` | ClientOwner, Recovery |
| put, delete | `client.rs`, `nfs4/session.rs`, `nfs4/codec.rs` | temporary file, open state, write verifier, destination name, `fused_put_supported` | fused put, chunked write, `close_publish`, fallbacks, `delete` | Put, Store |
| parent directories | `nfs4/session.rs` | the directory tree, the handle a call has | `create_parent_dirs` | ParentDirs |
| reads | `client.rs` | `ChunkScheduler`, `PipelinedEmit` | `get`, `get_known_size`, `get_range` | Get, Transfer |
| writes | `client.rs` | chunks in flight, `WriteOutcome` | `write_bytes`, `write_chunk`, `write_chunk_all`, pipelining | Write, Transfer |
| compounds, codec, XDR | `nfs4/session.rs`, `nfs4/codec.rs`, `nfs4/ops.rs`, `xdr.rs` | the decoder, retries of the call | every compound method of `NfsSession`: encode, check limits, decode, retry | Xdr, Requests, Replies, Answers, Compound |
| deferred close | `nfs4/session.rs` | bounded queue, worker batch | `defer_close`, `run_deferred_close_worker`, `close_batch` | DeferredClose |
| list, sweep | `client.rs`, `nfs4/codec.rs` | directory cursor, removed names | `list_page`, `sweep_temp_files`, `decode_readdir` | Directory |
| paths, error texts | `path.rs`, `error.rs` | none | validation and classification | where a property needs it |
| configuration, TLS, EFS IAM, benchmarks | `client.rs`, `rpc.rs`, `aws_efs.rs`, `bench/` | none | constants, certificates, signing, measurement | not modelled |

How they interact. A public operation runs in `retrying_session_operation` on a
snapshot of the current session (Reconnect). It issues compounds; each acquires a
slot, sends one request and retires or advances the slot (Session). The request
passes through the connection's writer and its reply through the reader
(Rpc). A reply may also report that the server has lost the client's state, which
rotates the owner's verifier (ClientOwner) and makes the operation's error one
that rebuilds the session. Put, delete and the reads are sequences of compounds
whose errors are classified by what they prove, and that decides whether another
attempt is allowed.

The layers are modelled apart and joined by their contracts:

- Rpc implements RpcPromise, and Session assumes just that of a call: a request
  reported as not sent never reaches the server, any other failure may be late.
  `NotSent` and `RpcLost` of Session are the two cases.
- Session's `OutcomeTruthful` is what Put relies on when it treats a call that was
  not sent as a proof that nothing ran and a lost one as no proof (`ProvesNotRun`).
- Put implements Store, the atomic object that the documentation of `put` and
  `delete` describes.
- Recovery composes Reconnect and ClientOwner and implements both, so that what
  each shows by itself holds of the two together.
- Compound is one exchange down to the words of the reply; its `ErrorIsTrue` and
  `NotReplayed` are what Put assumes when it classifies a failure by the operation
  that it names.
- Write is the detail of Put's chunked write; its `WrittenOrDetected` is what Put
  assumes of the verifier it hands to `close_publish`.
- ParentDirs and Directory take a put for its effect on the directories, Put takes a
  sweep for its effect on one temporary.

What makes this code hard, and what the modules therefore keep: guards dropped in
stages on one thread while another scans; state read before an await and used
after it; a transport that closes between any two steps of a call; replies that
arrive for calls that are gone; compounds that the server runs halfway, or
completely but without an answer; chunks completing short and out of order; files
replaced while they are read; attempts that outlive the caller who started them.

## 2. Modules

Every action is one access to shared state, or one exchange with the server, and
stands for the whole handler up to the next such point. Names are the source's
where TLA+ allows it. Operators named after a plausible mistake (`NeverUnusable`,
`StillNotSent`, ...) stand before the definition they vary; no specification uses
them.

**SlotTable** is the slot table as concurrent tasks use it. `pc[t]` is the
control point of the task's `acquire_for_request`; taking a permit, each
`try_lock` of the scan, dropping a retired slot's lock again, reading the limits,
reading the `active` flags and each of the three stages of dropping a `SlotGuard`
are separate actions. `waiting` is the set of tasks with an enabled `Notified`;
`notify_waiters` empties it. `request_highest_slotid` reads limits and flags in
two steps, as the code does.

**Session** extends it with `compound_raw_once`: the two status checks, arming the
guard, the RPC and its outcomes, `advance_sequence`, `update_limits`, latching
fatal flags, and cancellation at the await points. The server's slot cache is
external: a request may be executed, rejected or lost at any time, also after its
caller has given up.

**RpcPromise** and **Rpc**: callers, the writer and the reader of one connection
with the pending map they share. The three checks of `transport_closed` in
`call_with_timeout`, registration, the queue and the batch of the writer, the
order of flag and drain in both tasks and xid wrap-around are kept; records are
opaque. A caller is a session slot: it makes no further call after an uncertain
outcome, as Session retires the slot.

**Reconnect**: operations that snapshot, run, fail and retry; the coordinator with
its `Idle`, `Connecting` and `Failed` states; detached attempts that publish a
session, record the outcome and send it in three steps; the shared backoff.

**ClientOwner**: the sessions of one owner. Each goes through EXCHANGE_ID,
CREATE_SESSION, RECLAIM_COMPLETE and the lookup of the export root (`phase`), any of
which may fail or report fatal status flags; replies with such flags also reach live
and replaced sessions; `fetch_or` and `compare_exchange` are two steps. The server
remembers which incarnations it has lost and which have reclaimed since its restart.

**Recovery** joins the two: the builder connects, operations send requests on the
session of their snapshot, a reply may make the session unusable or rotate the
verifier before the operation fails, and an attempt tries the resolved addresses in
turn under `connect_timeout`. Its actions are conjunctions of those of its parts and
of `home`, `left`, `at` and `request`, which say whose session is whose.

**Write**: one `write_bytes`. A task per chunk, its WRITEs (short, stable or
unstable), the fused WRITE and COMMIT of a body of one chunk, the refusal of
impossible counts, the merging of outcomes in any order, and draining after the first
error. The server restarts and loses any of its uncommitted bytes; `held[i]` and
`by[i]` follow each byte.

**Transfer** runs either a read of Get or a write of Write.

**Xdr**, **Requests**, **Replies**, **Answers**: the encoder and the decoder in words
of four bytes. Requests has every compound of `NfsSession` and the byte counts its
operations announce and write; Replies has the decoder of every operation and of every
compound, as one plan (expected replies, order, what must be present) with a record
for what differs; Answers is the server: the results it may send, and results that
break the protocol. The decoders are operators; a read past the end of the
buffer that no check has refused is the error `panic`.

**Compound**: one call of any method. `Issue` checks the limits, the `Serve` actions
run the operations up to any of them, which stops with a status, and answer: the
reply arrives whole, cut at any word, short of results, with a foreign operation or
an odd result, or not at all (`Lose`); `Receive` decodes and either returns, sleeps
for a retry, or goes on from `close_publish` to `publish_after_close`.

**DeferredClose**: puts wait for a place in the queue; the worker collects a batch,
yields, slices it by the limits, closes slice by slice with calls of Compound and
falls back to one CLOSE per file; the client may drop the session at any time.

**ParentDirs**: `create_parent_dirs` of several callers, by name until a directory they
made gives them a handle and by handle from then on. A removed and remade directory
is told apart from the old one, to which old handles still point.

**Directory**: one directory with temporaries, files and dot names. A sweep is
`sweep_temp_files` with its pages, its REMOVEs in flight, its restart from the first
page after each page with a removal, and its reconnect; `list` follows the
tokens of `list_page`. The server's cookies are stable, stable but refused after a
change, or positions in what is there now.

**Store** and **Put**: one destination path. The server runs the operations of a
publish-capable compound one by one (`Run`), may stop at any of them with a status
(`Halt`), and continues after the client is gone. The client's side keeps the
fused path with its latch, the multi-compound path, the creation of missing
parents, name collisions, transient retries, chunked unstable writes with their
verifiers, classification of every failure, cleanup and reconnects. File
contents are their size in chunks, whether they are committed, and whether the
server has lost bytes of them.

**Get**: one read call. The probe, known-size, single, sequential and pipelined
paths, `ChunkScheduler` (fresh chunks and gaps of short reads) and
`PipelinedEmit` (reordering, EOF bookkeeping, its protocol errors). A byte is a
pair of file and position, so mixing files or offsets is visible. A foreign
writer may replace, remove or resize files, and a server may answer oddly; the
history variable `odd` records when it did.

The modules ending in **Proofs** hold the theorems (section 5); those beginning with
**MC** fix constants for TLC.

## 3. Runs

| run | configuration | shows |
|---|---|---|
| session_slots | 2 tasks, 2 slots, 2 calls each, ids modulo 3 | permits neither lost nor forged; client and server agree on every slot; `ok` and `request_not_sent` are truthful; no lost wakeup; nobody waits for ever with a slot in hand |
| rpc_calls | 2 callers, 2 calls each, 3 xids, batches of 2 | waiting calls are owed a message (`AwaitHasSender`); replies reach their own call (`ReplyIsOwn`); Rpc implements RpcPromise, so that `request_not_sent` is truthful (`KeepsPromise`); a call reaches its reply wait although the peer stalls (`ReachesReply`); a closed transport ends all calls (`ClosedEndsCalls`) |
| recovery | 2 operations, 2 reconnects each, 2 addresses, 1 loss of state, 1 restart, 1 fault | one attempt at a time, never forgotten, shared, and no failure served twice (`Coordinated`); retries run on newer sessions (`RetriesOnNewerSession`); the verifier is rotated once per loss, and always (`RotatedExactlyOnce`); operations fail only for a reason (`RetryErrorIsDeserved`); the composition implements Reconnect and ClientOwner (`KeepsParts`); every operation ends (`OpEnds`) |
| put_failures | 1 operation, bodies of 1 and 2 chunks, 2 faults, 1 verifier change | published files are committed and complete (`PublishedIsCommitted`); `Ok` is durable (`SuccessIsDurable`); temporaries are removed (`TempsRemoved`); Store is implemented (`KeepsPromise`); the operation ends (`OpEnds`) |
| put_races | 2 operations, 1 fault | two puts or deletes interleaved operation by operation implement Store (`KeepsPromise`) |
| transfers | reads: lengths 0, 5, 9, limit 8, reads of 2 in chunks of 3, depth 1 and 3, 1 fault, 1 change; writes: bodies of 0 to 5 in chunks of 2, depth 1 and 2, 1 restart | a successful read is the requested range of one file, and pipelined bytes are accounted for once (`BytesAreKept`); errors are deserved (`ErrorIsDeserved`); a successful write is complete and carries the verifier that betrays a loss (`WrittenOrDetected`); both return (`TransferReturns`) |
| compound | every method, paths of 0 and 2 names, 3 sets of lengths and limits, 1 transient retry; 3 deferred files, queue of 1, batches of 2 | `Ok` means run, read as sent, and committed (`OkMeansDone`); errors name the operation that stopped, and honest replies are none (`ErrorIsTrue`); nothing that ran is replayed (`NotReplayed`); limits, lengths and segments agree (`RequestIsExact`); no reply makes a decoder panic, and both attribute decoders agree (`UncheckedReadsAreSafe`); a call uses its retries up (`CallProgresses`); waiting puts get their place and every deferred file is closed or tried (`EveryCloseIsTried`) |
| directory | 2 puts under a path of 3, 2 sweeps, 1 lister in seven combinations, 6 names, pages of 2, 1 rmdir, 1 fault | parents are made, on the path only (`PathIsMade`); counts are true (`CountIsTrue`); sweeps miss nothing old (`SweepIsComplete`) and take nothing young (`YoungAreSpared`); listings miss nothing that stayed (`ListIsComplete`); sweeps end (`SweepEnds`) |
| session_exhausted, session_highest, put_transient, put_torn | | counterexamples, section 4 |

Several of these are conjunctions of separately stated parts, which the modules comment
one by one. The type invariants of the modules state what their variables hold. That
of Session is checked by its run and proved; those of Rpc and Write are part of the
inductive invariants of section 5; the others need no run of their own.

Bounds. Two tasks over two slots reach every role the slot table has: holder,
scanner, waiter and releaser, and both a contended slot and a spare one. Two calls
per task with ids modulo 3 let an id come round while the reply of an earlier request
is outstanding. A server reply shrinks the window, reports more slots than the table
has, or carries a fatal flag. Three xids (one of them 0, which is skipped) for two
callers force the counter onto a busy xid. In the code `RECONNECT_RETRIES` is 1;
recovery uses 2, as a second attempt of the same operation is what could meet a stale
failure. Its losses, restart and fault may fall into any phase of any session. The
lengths of Get lie below, at and above the chunk size and the limit, and depth 3
makes three replies arrive in any order. Each fault in Put may hit any operation of
any compound, so that two give every pair, for instance a lost publish followed by a
failed cleanup. A body of 5 in chunks of 2 has a full, a full and a short chunk, more
than are in flight at once; a restart loses at most one byte in the run, as nothing
asked of a byte depends on the others (the proof lets it lose any). The data lengths
of compound (0, 3, 5) take no, one and three bytes of padding; its limits are ample,
too small for long handles, and too small for the longer compounds. One transient
retry is enough to replay an operation. Three files, a queue of one and batches of
two have one file waiting, one queued and one in a batch, and a batch that is sliced.
In directory two sweepers meet at one name and each other's removals; a page of two
in a directory of six needs several pages, one of which begins with a dot name.

Fairness. Weak fairness is assumed of the steps of a task the runtime polls, never
of the caller's decisions, of cancellation, or of the server. Session: a waiting
compound is ended by a reply, by the connection's failure or by the operation
timeout, so a task's steps together are fair (`TaskStep`). That timeout is 30 s by
default (`nfs4.rs:514`); a caller who disables it gets the liveness of Session, Reconnect,
Put and Get only from a server that answers or a connection that fails. Rpc:
neither a timeout nor the network is fair, the writer may hang in a write and the
reader in a read; only callers, and tasks that have seen an error, go on.
Reconnect: operations and connection attempts end by their timeouts, spawned tasks run on
without their callers, and the backoff passes. The others: a call is answered or
times out. In DeferredClose the worker and a waiting put are scheduled, in
Directory a sweep is, while puts, listings and removals by others may stop at any time.

`CHECK_DEADLOCK` is on everywhere; a finished instance stutters explicitly
(`Quiescent`, `Exhausted`, `Over`, `Returned`, `Finished`).

## 4. Findings

Four statements of the repository do not hold of the code; each has a run whose
counterexample shows it.

- **session_exhausted** (`slots.rs:100`): scanning tasks briefly lock retired slots
  and notify nobody when they let go. If all slots up to a lowered target are
  retired, a second scan that meets such a lock waits for ever, where
  `nfs4/tests.rs:2888` expects `ConnectionLost`.
- **session_highest** (`slots.rs:223`): a guard unlocks its slot before
  `SlotRelease::drop` clears `active`, erasing the flag of the slot's next holder.
  Its request can then be missing from `highest_slotid`, against `slots.rs:56`.
- **put_transient** (`client.rs:282`): a transient status of the fused compound is
  returned to the caller; `client.rs:230` and `docs/architecture.md` say it falls
  back to the multi-compound path, where it would be retried.
- **put_torn** (`codec.rs:1214`): the COMMIT verifier of the publishing compound
  is compared when the reply is decoded, after RENAME or LINK has run; a server
  that lost unstable bytes but not the size of the file publishes it torn. The put returns
  `OutcomeUnknown`. `docs/architecture.md:148` says verifiers are verified "before
  publishing data".

Two more were met in Directory and have no run of their own, as the statements are
about one path each:

- `client.rs:530` says of `sweep_temp_files` that "once removal begins, any failed or
  lost reply" returns `OutcomeUnknown`. A READDIR that fails after a removal
  is returned as it is, or, if it lost the session, the sweep begins again with a
  count of zero and may return an `Ok` that is too small. A directory that is gone
  by then gives `Ok(0)`. `CountIsTrue` states the count with these exceptions.
- The cursor of a listing is the cookie of the last entry. After a page without
  entries and without EOF it is 0, so that a listing that had come further would begin
  again. Only a server that sends such a page shows it, and the servers of Directory
  do not.

## 5. Proofs

### Sessions

TLAPS proves, for any sets of tasks, any number of slots and calls, any modulus of
sequence ids and any replies of the server:

- `TypeSafety`: `Spec => []TypeOK`. The interesting part is that `update_limits`
  never stores a slot beyond the table and every scan index is a slot.
- `SequenceSafety`: `Spec => []SequenceAgreement`.
- `OutcomeSafety`: `Spec => []OutcomeTruthful`.
- `PermitSafety`: `Spec => []PermitAccounting`.

Assumptions, all in SlotTable and Session: there is a slot, ids have at least two
values, `NoTask` is not a task, and a reply is two numbers and a flag.

None of them is inductive. `SequenceAgreement` speaks of slots without an
outstanding request; to keep it, one must know who may still have a request out.
The inductive invariant `IInv` (SessionProofs) is

- `GuardInv`: a guard owns the mutex of its slot, which stays usable until the
  guard retires it; hence two guards never share a slot (`GuardsDisjoint`);
- `ArmInv`: `request_outstanding` is set exactly around the RPC, and only a task in
  its RPC has a reply;
- `RequestInv`: each request on the wire is the only one of its slot and next in its
  sequence; either its caller is still armed with that slot and id, or the slot is
  retired or held by a guard that is about to retire it (`OwnerInv`);
- `ReplyInv`: a matching SEQUENCE result means the server has executed the request, so
  that the client is exactly one id behind;
- `FreeInv`: the slots' part of `SequenceAgreement`;
- `ResultInv`: nothing ran for a compound that has not reached its RPC.

The argument in one paragraph: the only step that makes a slot's ids diverge from
the server's is an armed request that is given up. `Abandon` leaves the request on
the wire without an owner, the guard stays outstanding until `DropGuard` retires the
slot, and a retired slot is never issued again, so that whatever the server does
with the request later cannot matter. A request that is not given up is
answered, and `ReceiveOk` advances exactly then.

SessionProofs proves the type part, then `GuardInv` and `ResultInv`, then the effect of
dispatching, abandoning, receiving and dropping a guard on the rest. Each lemma has one
step per action; `AcquireEffect` and `QuietStep` collect the many actions that do not
touch the wire.

`PermitAccounting` needs `PermitInv` besides: a permit is forgotten only by a guard that
has been dropped, between `mark_unusable` and `SlotRelease::drop`, and the tasks that hold
a permit are finitely many, which is not assumed of the tasks. Each step that takes
or returns a permit or retires a slot changes the counts on both sides alike.

### Transport

For any number of callers, calls, xids and any size of the writer's batches (RpcProofs):

- `RpcSafety`: `Spec => [](AwaitHasSender /\ ReplyIsOwn)`, a waiting call is owed a
  message, and the reply it gets answers it;
- `RpcRefines`: `Spec => KeepsPromise`, the transport implements RpcPromise.

The hard part is the drain. Writer and reader both set `transport_closed` and empty the
pending map, at any time with respect to a caller between its two checks of the flag,
and an xid is free again as soon as its entry is gone. The inductive invariant `IInv`
says who owns an xid: an entry belongs to the caller that holds its xid, and after a
drain only to one that the second check is about to end (`OwnerInv`, `RegInv`); from
that check on the entry or the message is there (`SenderInv`); a record is queued once
and written once, and while its call is not over, under the xid that the call registered
(`FlightInv`, `QueueInv`); so the reader hands a reply to its call, or to one that is
over or about to end (`HandInv`, `InboxInv`). RpcPromise's unsent calls are those whose
record is still to be made, queued or in the writer's hands.

### Recovery

For any set of operations and any number of attempts, sessions, losses, restarts and
addresses:

- `CoordinationIsSound` (RecoveryProofs): Reconnect's `Coordinated` (`OneAttempt`,
  `AttemptIsShared`, `FailureSeenOnce`) and `RetriesOnNewerSession`;
- `OwnerIsSound` (RecoveryProofs): ClientOwner's `RotatedExactlyOnce`
  (`OneRotationPerLoss`, `LostVerifierIsGone`) and `SetupFailsForAReason`;
- `RecoveryRefines` (`RecSpec => KeepsParts`): Recovery implements
  Reconnect and ClientOwner; and with it
- `RecoveryIsSound`: all these properties of Recovery.

`CoordInv` adds to the properties of Reconnect the reason for them. While the
generation that an attempt was spawned for is current, the coordinator names that
attempt, from the spawn until `finish_reconnect_attempt`, so that nobody spawns
another one (`TaskInv`); a caller that waits does so for an attempt at the generation
it saw fail, and one that asks again has slept off the failure it was given
(`CallerInv`). `OwnerInv` says what each session knows: its verifier is not ahead of
the owner's, a loss it latched is a loss of that verifier, once that is handled the
owner is ahead, and a session in setup has latched nothing, or something that no
setup survives. The refinement needs `LinkInv`: every generation has its session,
requests belong to running operations, and there is no attempt before the client is
built.

### Writes

`WriteIsDetected` (WriteProofs): `WriteSpec => []WrittenOrDetected` for any length of
the body, any chunk size and depth, any number of restarts and any set of bytes lost
in each. `WrittenOrDetected` says nothing before `write_bytes` returns. `WriteInv`
follows each byte until then: chunks do not overlap and cover what
was issued (`Spans`); a byte that a reply reports was written under the reply's
verifier (`ServedInv`); one that a chunk has passed, under one of the chunk's two
(`AckedInv`); merged chunks have no other verifier than the outcome's (`EndsInv`); and
only a server with a newer verifier has lost a byte (`HeldInv`).

The assumptions of these are named in Reconnect, ClientOwner, Recovery and Write:
bounds are natural numbers, chunk size, depths, retries and addresses at least 1, the
set of operations finite.

### Put and delete

For any set of operations, any sizes, retries of each kind, faults and losses of the
server:

- `PutRefines` (PutProofs): `Spec => KeepsPromise`, put and delete implement Store. An
  operation maps to one of Store with the same result and effect, the destination to the
  put whose temporary it is;
- `PublishedAlways` (PutTempProofs): `Spec => []PublishedIsCommitted`;
- `SuccessAlways` (PutTempProofs): `Spec => []SuccessIsDurable`;
- `TempsRemovedAlways` (PutTempProofs): `Spec => []TempsRemoved`.

Four modules share the work, each extending the ones before it in

    PutInvariantProofs -- PutProofs ------\
                      \-- PutFileProofs ---- PutTempProofs

*Where the operations are* (`ControlInv`, PutInvariantProofs). Store cannot be refined
from the client's state alone: when a caller gives up, its compound is still at the
server and may take effect later. So the invariant ties three things together for each
operation: the compound (`Shape`: blank, or the operations of `try_put_fused`,
`close_publish` or `remove` in the order they build them, run up to `next`), what has
happened to the destination (`Effect`: applied when the publishing operation has run,
and impossible once the compound has stopped before it), and what the client has been
told or will be told (`Told`, `DecodedTrue`). Client steps are of six kinds (`Moves`:
called, working on the temporary, sending, told of a failure, returning, cancelled),
server steps of two (`Kinds`: a compound advances or halts). PutProofs shows
that each action is of one of these, that each kind keeps `ControlInv`, and that each
kind is a step of Store or a stutter.

*What is in the files* (`FileInv`). Write, commit, verify, publish come in this
order in each compound (`Tidy`), so where a compound is tells what holds of its file
(`Checked`): after COMMIT it is on disk, after VERIFY it has its size, and data lost
before the COMMIT shows as a write verifier older than the COMMIT's. Between compounds
the verifier that the chunked write kept says the same (`Steady`). That no other
operation's step can change the file rests on names being used once (`Named`, which
bounds the names by the attempts, and `Fresh`). The server's half is in
PutInvariantProofs (`ServerFile`, `LoseFile`), the client's in PutFileProofs (`FileStep`).

*Which names are left* (`TempsInv`, PutTempProofs). A temporary is the one that its
operation knows of and will remove (`Holds`), or a call of that operation was given up,
or its cleanup failed; and a compound that runs has its caller waiting or was
given up (`Attended`).

Assumptions (Put): sizes are positive numbers, the bounds are numbers, there is at
least one attempt at a temporary name, modes are the three of the code, and `Absent` is
neither an operation nor a name.

### Model-checked only

- All liveness properties: the provers have no rule for fairness.
- `RetryErrorIsDeserved` (Recovery): it counts over a whole behaviour how many failures
  an operation has used up, a measure that no state carries.
- Compound, DeferredClose: the decoders are nested operators over sequences of words, and
  what they return for every reply would be an induction over data, which these provers
  do not do.
- Get, ParentDirs, Directory: what a read returns, the directories of a path and the
  pages of a listing are sequences built piece by piece, and their properties say what
  the whole sequence is; no proof of these has been attempted. `YoungAreSpared` and
  the first half of `CountIsTrue` do not have this difficulty and come first in section 7.
## 6. What is not modelled

- The values of encoded fields: Requests has their lengths and order. Constant field
  values are compared with recorded bytes by the repository's tests.
- The sizes derived from the negotiated channel (`negotiated_config`): chunk sizes,
  depths and limits are constants of the modules, any values of which the
  proofs admit.
- `XdrDecoder` methods that only the tests use.
- Paths, configuration setters and their validation, error texts: pure functions without
  state, a line or two each, covered by unit tests. A path appears as its depth, an
  error as the class that its callers distinguish.
- TLS, IAM signing and benchmarks: I/O and cryptography of libraries, without shared
  state of the client.
- A session's slots and the two or more compounds that use them at once are in Session;
  Compound and DeferredClose have one call in flight, as calls on different slots
  do not disturb each other there.
- Time: a timeout is a step that may happen, a backoff one that will. Directory has a
  clock, as a sweep compares times.

## 7. Further work

1. Proofs: `YoungAreSpared` and the first half of `CountIsTrue` (Directory), then
   `RetryErrorIsDeserved` (Recovery).
2. Put with the writes of Write in place of its own: out of reach of TLC together,
   but the proof of `WrittenOrDetected` would carry over as an assumption of one step.
