-------------------------------- MODULE Put --------------------------------
(***************************************************************************)
(* put and delete of src/src/client.rs on one destination path, with the   *)
(* compounds of src/src/nfs4/session.rs they issue. A put writes a fresh   *)
(* temporary file and publishes it, in one fused compound or in several;   *)
(* every failure is classified by what it proves about the publish, and    *)
(* only a proof that nothing was published lets the operation run again on *)
(* another session.                                                        *)
(*                                                                         *)
(* The server runs the operations of a publish-capable compound one by     *)
(* one, interleaved with those of others; it may stop at any of them with  *)
(* a status, and it goes on after the client has stopped waiting. The      *)
(* other calls of a put touch only its own temporary file: one step each.  *)
(***************************************************************************)
EXTENDS Integers, Sequences, FiniteSets

CONSTANTS
  Ops,              \* calls of put and delete, each made once
  Modes,            \* what they may ask for: "overwrite", "create", "delete"
  Sizes,            \* body sizes, in write chunks
  TempRetries,      \* TEMP_FILE_CREATE_RETRIES
  TransientRetries, \* ClientConfig::transient_retries
  ReconnectRetries, \* RECONNECT_RETRIES
  MaxFaults,        \* bound: statuses, lost calls and cancellations
  MaxLosses,        \* bound: changes of the server's write verifier
  Absent

ASSUME SizesAssumption == Sizes \subseteq Nat \ {0}
ASSUME TempRetriesAssumption == TempRetries \in Nat \ {0}
ASSUME RetriesAssumption == TransientRetries \in Nat /\ ReconnectRetries \in Nat
ASSUME ModesAssumption == Modes \subseteq {"overwrite", "create", "delete"}
ASSUME BoundsAssumption == MaxFaults \in Nat /\ MaxLosses \in Nat

VARIABLES
  parent,     \* the parent directory exists
  dest,       \* the file the destination names, or Absent
  temps,      \* the temporary names in the directory
  file,       \* file[t]: the contents of the file created under t
  boot,       \* the server's write verifier
  generation, \* the current session
  latched,    \* the sessions whose fused_put_supported is off
  pc, mode, size,
  snap,       \* snap[o]: the session this attempt runs on
  attempts,   \* attempts[o]: reconnects so far
  temp,       \* temp[o]: the number of its current temporary name
  created,    \* created[o]: name collisions in this loop
  tries,      \* tries[o]: transient retries of this call
  cmp,        \* cmp[o]: its last publish-capable or removing compound
  unstable,   \* unstable[o]: WriteOutcome::unstable_verifier, or -1
  todo,       \* todo[o]: chunks not yet written
  err,        \* err[o]: the error being handled
  result,
  effect,     \* history: what o has done to the destination
  orphaned,   \* history: o was told nothing about a call on its temporary
  faults

serverVars == <<parent, dest, temps, file, boot, effect>>
sessionVars == <<generation, latched>>
callVars == <<temp, created, tries, unstable, todo>>
vars == <<serverVars, sessionVars, callVars, pc, mode, size, snap, attempts, cmp,
          err, result, orphaned, faults>>

\* Each attempt of a put names at most a fused and a multi-compound temporary.
Names == 1 .. 2 * (ReconnectRetries + 1)
Temps == Ops \X Names
Temp(o) == <<o, temp[o]>>
NoFile == [size |-> 0, dirty |-> FALSE, torn |-> FALSE]

ASSUME AbsentAssumption == Absent \notin Ops /\ Absent \notin Ops \X Nat

\* An NFS status names the operation it stopped; the client's own errors: the
\* reply is lost, does not decode, or carries another verifier; the request was
\* not sent, because the transport was gone or because it was not valid.
Statuses == {"noent", "exist", "notsame", "delay", "rebuild", "notsupp", "other"}
OpNames == {"sequence", "lookup", "open", "write", "commit", "verify", "close",
            "rename", "link", "remove"}
NoError == [op |-> "none", st |-> "none"]
Local(st) == [op |-> "none", st |-> st]
Errors == {NoError} \cup [op : OpNames, st : Statuses]
            \cup {Local(st) : st \in {"lost", "malformed", "verifier", "notsent", "invalid"}}

LostProvesNotRun(e) == e.op # "none" \/ e.st \in {"notsent", "invalid", "lost"}
\* Error::requires_session_rebuild, Error::is_retryable and
\* error_proves_operation_not_run.
RequiresRebuild(e) == e.st \in {"lost", "verifier", "notsent", "rebuild"}
Retryable(e) == RequiresRebuild(e) \/ e.st = "delay"
ProvesNotRun(e) == e.op # "none" \/ e.st \in {"notsent", "invalid"}

NoCompound == [ops |-> <<>>, next |-> 1, st |-> "none", write |-> -1, commit |-> -1]
Compound(ops) == [NoCompound EXCEPT !.ops = ops, !.st = "running"]

PublishOps(o) ==
  IF mode[o] = "create" THEN <<"lookup", "link", "remove">> ELSE <<"rename">>
FusedOps(o) ==
  <<"sequence", "lookup", "open", "write", "commit", "verify">> \o PublishOps(o)
UncommittedOps(o) == <<"sequence", "verify", "close">> \o PublishOps(o)
CloseOps(o) ==
  <<"sequence">> \o (IF unstable[o] >= 0 THEN <<"commit">> ELSE <<>>)
    \o <<"verify", "close">> \o PublishOps(o)
AfterCloseOps(o) == <<"sequence">> \o PublishOps(o)
RemoveOps == <<"sequence", "lookup", "remove">>

Compounds ==
  [ops : Seq(OpNames), next : Nat,
   st : Statuses \cup {"none", "running", "ok", "notsent", "invalid"},
   write : -1 .. MaxLosses, commit : -1 .. MaxLosses]

\* The type invariant.
TypeOK ==
  /\ parent \in BOOLEAN
  /\ dest \in Temps \cup {Absent}
  /\ temps \subseteq Temps
  /\ file \in [Temps -> [size : Nat, dirty : BOOLEAN, torn : BOOLEAN]]
  /\ boot \in 0 .. MaxLosses
  /\ generation \in Nat
  /\ latched \subseteq 0 .. generation
  /\ pc \in [Ops -> {"idle", "begin", "fuse", "fused", "fused_failed", "open", "mkdir",
                     "reopen", "write", "write_failed", "close", "republish", "publish",
                     "publish_failed", "remove", "removing", "reconnect", "done"}]
  /\ mode \in [Ops -> Modes \cup {"none"}]
  /\ size \in [Ops -> Sizes \cup {0}]
  /\ snap \in [Ops -> 0 .. generation]
  /\ attempts \in [Ops -> 0 .. ReconnectRetries]
  /\ temp \in [Ops -> Names \cup {0}]
  /\ created \in [Ops -> 0 .. TempRetries - 1]
  /\ tries \in [Ops -> 0 .. TransientRetries]
  /\ cmp \in [Ops -> Compounds]
  /\ \A o \in Ops : cmp[o].next \in 1 .. Len(cmp[o].ops) + 1
  /\ unstable \in [Ops -> -1 .. MaxLosses]
  /\ \A o \in Ops : todo[o] \subseteq 1 .. size[o]
  /\ err \in [Ops -> Errors]
  /\ result \in [Ops -> {"none", "ok", "exists", "error", "unknown"}]
  /\ effect \in [Ops -> {"none", "applied", "rejected"}]
  /\ orphaned \in [Ops -> BOOLEAN]
  /\ faults \in 0 .. MaxFaults
Init ==
  /\ parent \in BOOLEAN
  /\ dest = Absent
  /\ temps = {}
  /\ file = [t \in Temps |-> NoFile]
  /\ boot = 0
  /\ generation = 0
  /\ latched = {}
  /\ pc = [o \in Ops |-> "idle"]
  /\ mode = [o \in Ops |-> "none"]
  /\ size = [o \in Ops |-> 0]
  /\ snap = [o \in Ops |-> 0]
  /\ attempts = [o \in Ops |-> 0]
  /\ temp = [o \in Ops |-> 0]
  /\ created = [o \in Ops |-> 0]
  /\ tries = [o \in Ops |-> 0]
  /\ cmp = [o \in Ops |-> NoCompound]
  /\ unstable = [o \in Ops |-> -1]
  /\ todo = [o \in Ops |-> {}]
  /\ err = [o \in Ops |-> NoError]
  /\ result = [o \in Ops |-> "none"]
  /\ effect = [o \in Ops |-> "none"]
  /\ orphaned = [o \in Ops |-> FALSE]
  /\ faults = 0

Fault == faults < MaxFaults /\ faults' = faults + 1
Goto(o, label) == pc' = [pc EXCEPT ![o] = label]
NewTemp(o) == temp' = [temp EXCEPT ![o] = @ + 1]
-----------------------------------------------------------------------------
(* The server *)

Proceed(o, c) ==
  cmp' = [cmp EXCEPT ![o] = [c EXCEPT !.next = @ + 1,
                                      !.st = IF c.next = Len(c.ops) THEN "ok" ELSE @]]
Stop(o, st) == cmp' = [cmp EXCEPT ![o].st = st]
TakesEffect(o, what) == effect' = [effect EXCEPT ![o] = what]

\* The operations of a compound that need no state of the directory.
RunStateless(o, c) ==
  /\ c.ops[c.next] \in {"sequence", "close"}
  /\ Proceed(o, c)
  /\ UNCHANGED serverVars

RunLookup(o, c) ==
  /\ c.ops[c.next] = "lookup"
  /\ \/ parent /\ Proceed(o, c) /\ UNCHANGED effect
     \/ /\ ~parent
        /\ Stop(o, "noent")
        /\ IF mode[o] = "delete" THEN TakesEffect(o, "applied") ELSE UNCHANGED effect
  /\ UNCHANGED <<parent, dest, temps, file, boot>>

RunOpen(o, c) ==
  /\ c.ops[c.next] = "open"
  /\ temps' = temps \cup {Temp(o)}
  /\ file' = [file EXCEPT ![Temp(o)] = NoFile]
  /\ Proceed(o, c)
  /\ UNCHANGED <<parent, dest, boot, effect>>

\* The whole body or less, stable or to be committed.
RunWrite(o, c) ==
  /\ c.ops[c.next] = "write"
  /\ \E n \in {size[o] - 1, size[o]}, dirty \in BOOLEAN :
       /\ file' = [file EXCEPT ![Temp(o)] = [size |-> n, dirty |-> dirty, torn |-> FALSE]]
       /\ Proceed(o, [c EXCEPT !.write = IF dirty THEN boot ELSE -1])
  /\ UNCHANGED <<parent, dest, temps, boot, effect>>

RunCommit(o, c) ==
  /\ c.ops[c.next] = "commit"
  /\ file' = [file EXCEPT ![Temp(o)].dirty = FALSE]
  /\ Proceed(o, [c EXCEPT !.commit = boot])
  /\ UNCHANGED <<parent, dest, temps, boot, effect>>

RunVerify(o, c) ==
  /\ c.ops[c.next] = "verify"
  /\ IF file[Temp(o)].size = size[o] THEN Proceed(o, c) ELSE Stop(o, "notsame")
  /\ UNCHANGED serverVars

RunRename(o, c) ==
  /\ c.ops[c.next] = "rename"
  /\ \/ /\ Temp(o) \in temps
        /\ dest' = Temp(o)
        /\ temps' = temps \ {Temp(o)}
        /\ TakesEffect(o, "applied")
        /\ Proceed(o, c)
     \/ /\ Temp(o) \notin temps
        /\ Stop(o, "noent")
        /\ UNCHANGED <<dest, temps, effect>>
  /\ UNCHANGED <<parent, file, boot>>

RunLink(o, c) ==
  /\ c.ops[c.next] = "link"
  /\ \/ /\ dest # Absent
        /\ TakesEffect(o, "rejected")
        /\ Stop(o, "exist")
        /\ UNCHANGED dest
     \/ /\ dest = Absent
        /\ Temp(o) \in temps
        /\ dest' = Temp(o)
        /\ TakesEffect(o, "applied")
        /\ Proceed(o, c)
     \/ /\ dest = Absent
        /\ Temp(o) \notin temps
        /\ Stop(o, "noent")
        /\ UNCHANGED <<dest, effect>>
  /\ UNCHANGED <<parent, temps, file, boot>>

\* A put removes its temporary name, a delete the destination.
RunRemove(o, c) ==
  /\ c.ops[c.next] = "remove"
  /\ \/ /\ mode[o] = "delete"
        /\ dest' = Absent
        /\ IF dest = Absent THEN Stop(o, "noent") ELSE Proceed(o, c)
        /\ TakesEffect(o, "applied")
        /\ UNCHANGED temps
     \/ /\ mode[o] # "delete"
        /\ temps' = temps \ {Temp(o)}
        /\ IF Temp(o) \in temps THEN Proceed(o, c) ELSE Stop(o, "noent")
        /\ UNCHANGED <<dest, effect>>
  /\ UNCHANGED <<parent, file, boot>>

\* One operation of o's compound runs, whether or not o still waits for it.
Run(o) ==
  /\ cmp[o].st = "running"
  /\ LET c == cmp[o] IN
       \/ RunStateless(o, c) \/ RunLookup(o, c) \/ RunOpen(o, c) \/ RunWrite(o, c)
       \/ RunCommit(o, c) \/ RunVerify(o, c) \/ RunRename(o, c) \/ RunLink(o, c)
       \/ RunRemove(o, c)
  /\ UNCHANGED <<sessionVars, callVars, pc, mode, size, snap, attempts, err, result,
                 orphaned, faults>>

\* The server stops o's compound at an operation it could have run.
Halt(o) ==
  /\ cmp[o].st = "running"
  /\ Fault
  /\ \/ \E st \in {"delay", "rebuild", "notsupp", "other"} : Stop(o, st)
     \/ cmp[o].ops[cmp[o].next] = "open" /\ Stop(o, "exist")
  /\ UNCHANGED <<serverVars, sessionVars, callVars, pc, mode, size, snap, attempts, err,
                 result, orphaned>>

\* The server loses what was not committed and changes its write verifier.
LoseWrites ==
  /\ boot < MaxLosses
  /\ boot' = boot + 1
  /\ \E shrinks \in BOOLEAN :
       file' = [t \in Temps |->
                  IF ~file[t].dirty THEN file[t]
                  ELSE [size |-> IF shrinks THEN 0 ELSE file[t].size,
                        dirty |-> FALSE, torn |-> TRUE]]
  /\ UNCHANGED <<parent, dest, temps, effect, sessionVars, callVars, pc, mode, size, snap,
                 attempts, cmp, err, result, orphaned, faults>>

\* sweep_temp_files of another client takes a temporary for an abandoned one.
Sweep ==
  /\ Fault
  /\ \E t \in temps : temps' = temps \ {t}
  /\ UNCHANGED <<parent, dest, file, boot, effect, sessionVars, callVars, pc, mode, size,
                 snap, attempts, cmp, err, result, orphaned>>
-----------------------------------------------------------------------------
(* The client *)

Finish(o, r) ==
  /\ result' = [result EXCEPT ![o] = r]
  /\ Goto(o, "done")
  /\ UNCHANGED attempts

\* retrying_session_operation: should_reconnect.
Fail(o, e) ==
  /\ err' = [err EXCEPT ![o] = e]
  /\ \/ /\ RequiresRebuild(e)
        /\ attempts[o] < ReconnectRetries
        /\ attempts' = [attempts EXCEPT ![o] = @ + 1]
        /\ Goto(o, "reconnect")
        /\ UNCHANGED result
     \/ /\ RequiresRebuild(e) => attempts[o] = ReconnectRetries
        /\ Finish(o, "error")

\* compound_raw_once: the compound is sent, or fails before it is. A verifier
\* that its COMMIT has to match comes with it.
Issue(o, label, ops, verifier) ==
  /\ Goto(o, label)
  /\ \/ /\ cmp' = [cmp EXCEPT ![o] = [Compound(ops) EXCEPT !.write = verifier]]
        /\ UNCHANGED faults
     \/ /\ Fault
        /\ \E st \in {"notsent", "invalid"} :
             cmp' = [cmp EXCEPT ![o] = [NoCompound EXCEPT !.st = st]]

Start(o) ==
  /\ pc[o] = "idle"
  /\ \E m \in Modes, n \in Sizes :
       /\ mode' = [mode EXCEPT ![o] = m]
       /\ size' = [size EXCEPT ![o] = IF m = "delete" THEN 0 ELSE n]
  /\ Goto(o, "begin")
  /\ UNCHANGED <<serverVars, sessionVars, callVars, snap, attempts, cmp, err, result,
                 orphaned, faults>>

\* One attempt on the current session: delete_once or put_once.
Begin(o) ==
  /\ pc[o] = "begin"
  /\ snap' = [snap EXCEPT ![o] = generation]
  /\ created' = [created EXCEPT ![o] = 0]
  /\ tries' = [tries EXCEPT ![o] = 0]
  /\ unstable' = [unstable EXCEPT ![o] = -1]
  /\ todo' = [todo EXCEPT ![o] = {}]
  /\ IF mode[o] = "delete" THEN Goto(o, "remove") /\ UNCHANGED temp
                           ELSE Goto(o, "fuse") /\ NewTemp(o)
  /\ UNCHANGED <<serverVars, sessionVars, mode, size, attempts, cmp, err, result, orphaned,
                 faults>>

\* try_put_fused: a body of one chunk, unless the session has latched the shape
\* off or the request would be too large.
Fuse(o) ==
  /\ pc[o] = "fuse"
  /\ \/ size[o] <= 1 /\ snap[o] \notin latched /\ Issue(o, "fused", FusedOps(o), -1)
     \/ Goto(o, "open") /\ UNCHANGED <<cmp, faults>>
  /\ created' = IF pc'[o] = "open" THEN [created EXCEPT ![o] = 0] ELSE created
  /\ UNCHANGED <<serverVars, sessionVars, temp, tries, unstable, todo, mode, size, snap,
                 attempts, err, result, orphaned>>

DecodedUnverified(c) ==
  IF c.st \in {"notsent", "invalid"} THEN Local(c.st)
  ELSE IF c.st \in {"ok", "running"} THEN NoError
  ELSE [op |-> c.ops[c.next], st |-> c.st]

\* What the reply decodes to: a changed verifier is reported before the status
\* of an operation that comes after COMMIT.
Decoded(c) ==
  IF c.st \in {"notsent", "invalid"} THEN Local(c.st)
  ELSE IF c.write >= 0 /\ c.commit >= 0 /\ c.write # c.commit THEN Local("verifier")
  ELSE IF c.st \in {"ok", "running"} THEN NoError
  ELSE [op |-> c.ops[c.next], st |-> c.st]

\* The client's call returns e: the reply, or the transport's failure.
Returns(o, e) ==
  \/ /\ cmp[o].st # "running"
     /\ e = Decoded(cmp[o])
     /\ UNCHANGED <<faults, orphaned>>
  \/ /\ Fault
     /\ e \in {Local("lost"), Local("malformed")}
     /\ orphaned' = [orphaned EXCEPT ![o] = @ \/ cmp[o].st = "running"]

Outcomes(o) == {Decoded(cmp[o]), Local("lost"), Local("malformed")}

\* The operations that had completed when the compound stopped at e.
Completed(o, e) == IF e.op = "none" THEN OpNames
                   ELSE {cmp[o].ops[i] : i \in 1 .. cmp[o].next - 1}

ReplayAlways(o, e) == e.op # "none"

\* transient_compound_retry_is_safe and claim_transient_retry.
ReplayIsSafe(o, e) == Completed(o, e) \cap {"open", "close", "link", "rename"} = {}
ClaimsRetry(o, e) ==
  /\ e.st = "delay"
  /\ tries[o] < TransientRetries
  /\ tries' = [tries EXCEPT ![o] = @ + 1]

\* note_fused_put_failure.
NoteFusedFailure(o, e) ==
  latched' = IF e.st = "notsupp" THEN latched \cup {snap[o]} ELSE latched

IsNameCollision(e) == e = [op |-> "open", st |-> "exist"]

\* put_once_fused, when try_put_fused returns.
FusedReturns(o) ==
  /\ pc[o] = "fused"
  /\ \E e \in Outcomes(o) :
       /\ Returns(o, e)
       /\ \/ e = NoError /\ Finish(o, "ok") /\ UNCHANGED <<created, cmp, err, latched>>
          \/ /\ IsNameCollision(e)
             /\ IF created[o] + 1 < TempRetries
                THEN created' = [created EXCEPT ![o] = @ + 1] /\ Goto(o, "fuse")
                ELSE created' = [created EXCEPT ![o] = 0] /\ Goto(o, "open")
             /\ UNCHANGED <<cmp, result, attempts, err, latched>>
          \/ /\ e # NoError /\ ~IsNameCollision(e)
             /\ NoteFusedFailure(o, e)
             /\ err' = [err EXCEPT ![o] = e]
             /\ Goto(o, "fused_failed")
             /\ UNCHANGED <<created, cmp, result, attempts>>
  /\ UNCHANGED <<serverVars, generation, temp, tries, unstable, todo, mode, size, snap>>

KeepTemp(o) == UNCHANGED <<temps, faults, orphaned>>

\* The best-effort removal of a temporary after a failure.
RemoveTemp(o) ==
  \/ /\ temps' = temps \ {Temp(o)}
     /\ UNCHANGED <<faults, orphaned>>
  \/ /\ Fault
     /\ orphaned' = [orphaned EXCEPT ![o] = TRUE]
     /\ UNCHANGED temps

\* classify_publish_error.
Published(o, e) == mode[o] = "create" /\ e.op = "remove"
AlreadyExists(o, e) == mode[o] = "create" /\ e = [op |-> "link", st |-> "exist"]
NoPublish(o, e) == ~Published(o, e) /\ ~AlreadyExists(o, e) /\ ProvesNotRun(e)

\* What a classified failure returns, when nothing was published excepted.
Conclude(o, e) ==
  /\ ~NoPublish(o, e)
  /\ Finish(o, IF Published(o, e) THEN "ok"
               ELSE IF AlreadyExists(o, e) THEN "exists" ELSE "unknown")
  /\ UNCHANGED err

\* put_once_fused removes the temporary and classifies the failure.
FusedFailed(o) ==
  /\ pc[o] = "fused_failed"
  /\ RemoveTemp(o)
  /\ \/ Conclude(o, err[o])
     \/ NoPublish(o, err[o]) /\ Retryable(err[o]) /\ Fail(o, err[o])
     \/ /\ NoPublish(o, err[o])
        /\ ~Retryable(err[o])
        /\ Goto(o, "open")
        /\ UNCHANGED <<err, result, attempts>>
  /\ UNCHANGED <<parent, dest, file, boot, effect, sessionVars, callVars, mode, size, snap, cmp>>
-----------------------------------------------------------------------------
(* The multi-compound put. A call that touches only o's temporary fails with an *)
(* error a new session would cure, or with another.                            *)
CallErrors == {Local("lost"), Local("malformed")}

\* open_temp_file. A failed OPEN may have created the file all the same.
OpenTemp(o) ==
  /\ pc[o] \in {"open", "reopen"}
  /\ \/ /\ parent
        /\ NewTemp(o)
        /\ temps' = temps \cup {<<o, temp[o] + 1>>}
        /\ todo' = [todo EXCEPT ![o] = 1 .. size[o]]
        /\ Goto(o, "write")
        /\ UNCHANGED <<created, err, result, attempts, orphaned, faults>>
     \/ /\ ~parent
        /\ pc[o] = "open"
        /\ Goto(o, "mkdir")
        /\ UNCHANGED <<temp, temps, todo, created, err, result, attempts, orphaned, faults>>
     \/ /\ Fault
        /\ created[o] + 1 < TempRetries
        /\ created' = [created EXCEPT ![o] = @ + 1]
        /\ UNCHANGED <<pc, temp, temps, todo, err, result, attempts, orphaned>>
     \/ /\ Fault
        /\ \E e \in CallErrors, leaves \in {{}, {<<o, temp[o] + 1>>}} :
             /\ parent \/ leaves = {}
             /\ Fail(o, e)
             /\ NewTemp(o)
             /\ temps' = temps \cup leaves
             /\ orphaned' = [orphaned EXCEPT ![o] = @ \/ leaves # {}]
        /\ UNCHANGED <<todo, created>>
  /\ UNCHANGED <<parent, dest, file, boot, effect, sessionVars, tries, unstable, mode, size,
                 snap, cmp>>

CreateNothing(o) ==
  /\ pc[o] = "mkdir"
  /\ Goto(o, "open")
  /\ UNCHANGED <<serverVars, sessionVars, callVars, mode, size, snap, attempts, cmp, err,
                 result, orphaned, faults>>

\* create_parent_dirs; a directory that exists already is accepted.
CreateParentDirs(o) ==
  /\ pc[o] = "mkdir"
  /\ \/ /\ parent' = TRUE
        /\ created' = [created EXCEPT ![o] = 0]
        /\ Goto(o, "reopen")
        /\ UNCHANGED <<err, result, attempts, faults>>
     \/ /\ Fault
        /\ parent' \in {parent, TRUE}
        /\ \E e \in CallErrors : Fail(o, e)
        /\ UNCHANGED created
  /\ UNCHANGED <<dest, temps, file, boot, effect, sessionVars, temp, tries, unstable, todo,
                 mode, size, snap, cmp, orphaned>>

\* WriteOutcome::record_unstable: every unstable write has the same verifier.
SameVerifier(o) == unstable[o] \in {-1, boot}

\* write_bytes: the reply to one chunk, in any order when they are pipelined. A
\* single chunk is written and committed in one compound.
WriteChunk(o) ==
  /\ pc[o] = "write"
  /\ \E k \in todo[o], dirty \in BOOLEAN :
       /\ dirty => size[o] > 1
       /\ file' = [file EXCEPT ![Temp(o)].size = IF k > @ THEN k ELSE @,
                               ![Temp(o)].dirty = @ \/ dirty]
       /\ todo' = [todo EXCEPT ![o] = @ \ {k}]
       /\ unstable' = [unstable EXCEPT ![o] = IF dirty THEN boot ELSE @]
       /\ \/ /\ dirty => SameVerifier(o)
             /\ Goto(o, IF todo'[o] = {} THEN "close" ELSE "write")
             /\ UNCHANGED err
          \/ /\ dirty /\ ~SameVerifier(o)
             /\ err' = [err EXCEPT ![o] = Local("verifier")]
             /\ Goto(o, "write_failed")
  /\ UNCHANGED <<parent, dest, temps, boot, effect, sessionVars, temp, created, tries, mode,
                 size, snap, attempts, cmp, result, orphaned, faults>>

WriteFails(o) ==
  /\ pc[o] = "write"
  /\ Fault
  /\ \E e \in CallErrors : err' = [err EXCEPT ![o] = e]
  /\ Goto(o, "write_failed")
  /\ UNCHANGED <<serverVars, sessionVars, callVars, mode, size, snap, attempts, cmp, result,
                 orphaned>>

\* put_once after a failed write: close_file, the removal, with_close_failure.
WriteFailed(o) ==
  /\ pc[o] = "write_failed"
  /\ \/ RemoveTemp(o) /\ Fail(o, err[o])
     \/ /\ Fault
        /\ temps' = temps \ {Temp(o)}
        /\ \E e \in CallErrors : Fail(o, IF RequiresRebuild(err[o]) THEN Local("lost") ELSE e)
        /\ UNCHANGED orphaned
  /\ UNCHANGED <<parent, dest, file, boot, effect, sessionVars, callVars, mode, size, snap, cmp>>

\* close_publish issues its compound, at first or after a transient status.
ClosePublish(o) ==
  /\ pc[o] = "close"
  /\ Issue(o, "publish", CloseOps(o), unstable[o])
  /\ UNCHANGED <<serverVars, sessionVars, callVars, mode, size, snap, attempts, err, result,
                 orphaned>>

PublishAfterClose(o) ==
  /\ pc[o] = "republish"
  /\ Issue(o, "publish", AfterCloseOps(o), -1)
  /\ UNCHANGED <<serverVars, sessionVars, callVars, mode, size, snap, attempts, err, result,
                 orphaned>>

\* close_publish and publish_after_close, when their compound returns.
PublishReturns(o) ==
  /\ pc[o] = "publish"
  /\ \E e \in Outcomes(o) :
       /\ Returns(o, e)
       /\ \/ e = NoError /\ Finish(o, "ok") /\ UNCHANGED <<tries, err>>
          \/ /\ ReplayIsSafe(o, e)
             /\ ClaimsRetry(o, e)
             /\ Goto(o, IF \E i \in DOMAIN cmp[o].ops : cmp[o].ops[i] = "close"
                        THEN "close" ELSE "republish")
             /\ UNCHANGED <<err, result, attempts>>
          \/ /\ "close" \in Completed(o, e)
             /\ Completed(o, e) \cap {"link", "rename"} = {}
             /\ ClaimsRetry(o, e)
             /\ Goto(o, "republish")
             /\ UNCHANGED <<err, result, attempts>>
          \/ /\ e # NoError
             /\ \/ e.st # "delay" \/ tries[o] = TransientRetries
                \/ Completed(o, e) \cap {"link", "rename"} # {}
             /\ err' = [err EXCEPT ![o] = e]
             /\ Goto(o, "publish_failed")
             /\ UNCHANGED <<tries, result, attempts>>
  /\ UNCHANGED <<serverVars, sessionVars, temp, created, unstable, todo, mode, size, snap, cmp>>

\* put_once removes the temporary; publish_result classifies the failure.
PublishFailed(o) ==
  /\ pc[o] = "publish_failed"
  /\ RemoveTemp(o)
  /\ \/ Conclude(o, err[o])
     \/ NoPublish(o, err[o]) /\ Fail(o, err[o])
  /\ UNCHANGED <<parent, dest, file, boot, effect, sessionVars, callVars, mode, size, snap, cmp>>
-----------------------------------------------------------------------------
(* delete, recovery and cancellation *)

Remove(o) ==
  /\ pc[o] = "remove"
  /\ Issue(o, "removing", RemoveOps, -1)
  /\ UNCHANGED <<serverVars, sessionVars, callVars, mode, size, snap, attempts, err, result,
                 orphaned>>

\* decode_remove_compound takes a missing path for a removed one; delete_result.
RemoveReturns(o) ==
  /\ pc[o] = "removing"
  /\ \E e \in Outcomes(o) :
       /\ Returns(o, e)
       /\ \/ /\ e = NoError \/ e.st = "noent"
             /\ Finish(o, "ok")
             /\ UNCHANGED <<tries, err>>
          \/ /\ ClaimsRetry(o, e)
             /\ Goto(o, "remove")
             /\ UNCHANGED <<err, result, attempts>>
          \/ /\ e # NoError /\ e.st # "noent"
             /\ e.st # "delay" \/ tries[o] = TransientRetries
             /\ \/ ProvesNotRun(e) /\ Fail(o, e)
                \/ ~ProvesNotRun(e) /\ Finish(o, "unknown") /\ UNCHANGED err
             /\ UNCHANGED tries
  /\ UNCHANGED <<serverVars, sessionVars, temp, created, unstable, todo, mode, size, snap, cmp>>

\* NfsClient::reconnect, as module Reconnect describes it.
Reconnects(o) ==
  /\ pc[o] = "reconnect"
  /\ \/ /\ generation' = IF snap[o] = generation THEN generation + 1 ELSE generation
        /\ Goto(o, "begin")
        /\ UNCHANGED <<result, attempts, faults>>
     \/ /\ Fault
        /\ Finish(o, "error")
        /\ UNCHANGED generation
  /\ UNCHANGED <<serverVars, latched, callVars, mode, size, snap, cmp, err, orphaned>>

\* The caller drops the future, or dies.
Cancel(o) ==
  /\ pc[o] \notin {"idle", "done"}
  /\ Fault
  /\ Goto(o, "done")
  /\ orphaned' = [orphaned EXCEPT ![o] = TRUE]
  /\ UNCHANGED <<serverVars, sessionVars, callVars, mode, size, snap, attempts, cmp, err, result>>

Step(o) ==
  \/ Start(o) \/ Begin(o) \/ Fuse(o) \/ FusedReturns(o) \/ FusedFailed(o)
  \/ OpenTemp(o) \/ CreateParentDirs(o) \/ WriteChunk(o) \/ WriteFails(o) \/ WriteFailed(o)
  \/ ClosePublish(o) \/ PublishAfterClose(o) \/ PublishReturns(o) \/ PublishFailed(o)
  \/ Remove(o) \/ RemoveReturns(o) \/ Reconnects(o)

Quiescent ==
  /\ \A o \in Ops : pc[o] = "done" /\ cmp[o].st # "running"
  /\ UNCHANGED vars

Next ==
  \/ \E o \in Ops : Step(o) \/ Run(o) \/ Halt(o) \/ Cancel(o)
  \/ LoseWrites \/ Sweep \/ Quiescent

Spec == Init /\ [][Next]_vars

\* Tasks are scheduled, and a call ends: it is answered, fails with its
\* connection (ClosedEndsCalls of Rpc) or is ended by the operation timeout.
FairSpec == Spec /\ \A o \in Ops : WF_vars(Step(o)) /\ WF_vars(Run(o))
-----------------------------------------------------------------------------
(* Properties *)

\* What the destination names was committed and has its full size, however the
\* compound that published it ended: COMMIT and VERIFY come before LINK or
\* RENAME in every publish-capable compound (try_put_fused, close_publish).
PublishedIsCommitted ==
  dest # Absent => file[dest].size = size[dest[1]] /\ ~file[dest].dirty

\* A put that returns Ok has stored bytes the server did not lose: the write
\* verifiers of all its unstable writes and of its COMMIT agree
\* (WriteOutcome::merge, ensure_write_verifier), in spite of other calls.
SuccessIsDurable ==
  \A o \in Ops : result[o] = "ok" /\ mode[o] # "delete" => ~file[Temp(o)].torn

\* An operation that has ended leaves no temporary name behind, whichever way
\* it failed (put_once, put_once_fused), unless a call that concerns one was
\* never answered, its own cleanup failed, or it was cancelled.
TempsRemoved ==
  \A t \in temps : pc[t[1]] = "done" => orphaned[t[1]]

\* Put and delete keep the promise of module Store: at most one effect, in one
\* step; none after an error that is not OutcomeUnknown; Ok only after it;
\* AlreadyExists only when somebody else's file was there.
S == INSTANCE Store WITH dest <- IF dest = Absent THEN Absent ELSE dest[1]
KeepsPromise == S!Spec

\* Every operation ends: the retries of transient statuses, of temporary names
\* and of whole attempts are bounded.
OpEnds == \A o \in Ops : (pc[o] = "begin") ~> (pc[o] = "done")

\* What docs/architecture.md says of fused puts: transient statuses fall back
\* to the multi-compound path. So none is returned for the fused compound.
TransientFallsBack ==
  \A o \in Ops : result[o] = "error" /\ err[o].st = "delay" =>
    \A i \in DOMAIN cmp[o].ops : cmp[o].ops[i] # "open"

\* What the documentation of put says: readers never observe a torn file, as
\* verifiers are verified before data is published.
NeverTorn == dest # Absent => ~file[dest].torn
=============================================================================
