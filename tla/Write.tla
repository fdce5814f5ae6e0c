------------------------------- MODULE Write -------------------------------
(***************************************************************************)
(* write_bytes of src/src/client.rs: the body of a put written to its      *)
(* open temporary file. A body of one chunk is written and committed in    *)
(* one compound; a longer one is written chunk by chunk, in order or with  *)
(* several chunks in flight, and committed when the file is closed. A      *)
(* WRITE may be short: the rest of its chunk follows at the next offset.   *)
(*                                                                         *)
(* The server may restart at any moment. It then has a new write verifier  *)
(* and has lost some of the data it had not committed to stable storage.   *)
(* Each byte of the file carries what the server holds of it; a task is    *)
(* named by the offset of its first byte.                                  *)
(***************************************************************************)
EXTENDS Integers, FiniteSets

CONSTANTS
  MaxLen,    \* bound: the longest body
  MaxWrite,  \* write_chunk_size
  Pipes,     \* the depths write_bytes may come to use; 1 is no pipelining
  MaxBoots   \* bound: restarts of the server

ASSUME WriteAssumption ==
  /\ MaxLen \in Nat /\ MaxWrite \in Nat \ {0} /\ MaxBoots \in Nat
  /\ Pipes \subseteq Nat \ {0}

VARIABLES
  len, pipe,     \* body.len(), depth
  boot,          \* the server's write verifier
  held,          \* held[i]: what the server holds of byte i
  by,            \* by[i]: the verifier under which byte i was written
  next,          \* next_offset
  task,          \* task[s]: where the task that began at s stands
  end, at,       \* end[s], at[s]: where its chunk ends, what is written of it
  count, wrote,  \* the WRITE's reply: how much, under which verifier if unstable
  commit,        \* the COMMIT's verifier
  first, rest,   \* WriteOutcome of write_chunk's first WRITE, of write_chunk_all
  broken,        \* first_error.is_some()
  verifier,      \* outcome.unstable_verifier
  outcome

file == <<boot, held, by>>
replies == <<count, wrote, commit>>
writeVars == <<len, pipe, file, next, task, end, at, replies, first, rest, broken,
               verifier, outcome>>

Offsets == 0 .. MaxLen - 1
None == -1
Verifiers == 0 .. MaxBoots
Optional == Verifiers \cup {None}
InFlight == {"sent", "written", "served"}
Ended == {"done", "failed"}

WriteTypeOK ==
  /\ len \in 0 .. MaxLen /\ pipe \in Nat \ {0} /\ boot \in Verifiers
  /\ held \in [Offsets -> {"none", "unstable", "stable", "lost"}]
  /\ by \in [Offsets -> Verifiers]
  /\ next \in 0 .. len
  /\ task \in [Offsets -> InFlight \cup Ended \cup {"idle", "merged", "dropped"}]
  /\ end \in [Offsets -> 0 .. len] /\ at \in [Offsets -> 0 .. len]
  /\ count \in [Offsets -> 0 .. MaxWrite]
  /\ wrote \in [Offsets -> Optional] /\ commit \in [Offsets -> Verifiers]
  /\ first \in [Offsets -> Optional] /\ rest \in [Offsets -> Optional]
  /\ broken \in BOOLEAN /\ verifier \in Optional
  /\ outcome \in {"none", "ok", "error"}

WriteInit ==
  /\ len \in 0 .. MaxLen /\ pipe \in Pipes
  /\ boot = 0 /\ held = [i \in Offsets |-> "none"] /\ by = [i \in Offsets |-> 0]
  /\ next = 0 /\ task = [s \in Offsets |-> "idle"]
  /\ end = [s \in Offsets |-> 0] /\ at = [s \in Offsets |-> 0]
  /\ count = [s \in Offsets |-> 0] /\ wrote = [s \in Offsets |-> None]
  /\ commit = [s \in Offsets |-> 0]
  /\ first = [s \in Offsets |-> None] /\ rest = [s \in Offsets |-> None]
  /\ broken = FALSE /\ verifier = None /\ outcome = "none"

Smaller(a, b) == IF a < b THEN a ELSE b
Single == len <= MaxWrite
Pipelined == ~Single /\ pipe > 1
Goes(s, where) == task' = [task EXCEPT ![s] = where]
-----------------------------------------------------------------------------
(* The server. *)

Unstable == {i \in Offsets : held[i] = "unstable"}

Restart(lost) ==
  /\ boot < MaxBoots
  /\ boot' = boot + 1
  /\ held' = [i \in Offsets |-> IF i \in lost THEN "lost"
                                ELSE IF i \in Unstable THEN "stable" ELSE held[i]]
  /\ UNCHANGED <<by, len, pipe, next, task, end, at, replies, first, rest, broken, verifier,
                 outcome>>

\* remaining.len()
RequestLen(s) == Smaller(MaxWrite, end[s] - at[s])

\* The WRITE asks for UNSTABLE4; the server may commit it all the same.
ServeWrite(s, n, stable) ==
  /\ task[s] = "sent"
  /\ held' = [i \in Offsets |-> IF at[s] <= i /\ i < at[s] + n
                                THEN IF stable THEN "stable" ELSE "unstable" ELSE held[i]]
  /\ by' = [i \in Offsets |-> IF at[s] <= i /\ i < at[s] + n THEN boot ELSE by[i]]
  /\ count' = [count EXCEPT ![s] = n]
  /\ wrote' = [wrote EXCEPT ![s] = IF stable THEN None ELSE boot]
  /\ Goes(s, IF Single THEN "written" ELSE "served")
  /\ UNCHANGED <<boot, len, pipe, next, end, at, commit, first, rest, broken, verifier, outcome>>

\* The COMMIT in the compound of a single chunk.
ServeCommit(s) ==
  /\ task[s] = "written"
  /\ held' = [i \in Offsets |-> IF i \in Unstable THEN "stable" ELSE held[i]]
  /\ commit' = [commit EXCEPT ![s] = boot]
  /\ Goes(s, "served")
  /\ UNCHANGED <<boot, by, len, pipe, next, end, at, count, wrote, first, rest, broken,
                 verifier, outcome>>
-----------------------------------------------------------------------------
(* The client. *)

\* record_unstable fails when both outcomes have a verifier and they differ.
Agree(u, v) == u = None \/ v = None \/ u = v
Merge(u, v) == IF u = None THEN v ELSE u

\* The scheduling loop may push another chunk.
CanIssue == ~broken /\ next < len
            /\ Cardinality({s \in Offsets : task[s] \in InFlight \cup Ended}) < pipe

\* write_chunk of the next chunk, or the one call for the whole body.
Issue ==
  /\ CanIssue
  /\ next' = IF Pipelined THEN Smaller(next + MaxWrite, len) ELSE len
  /\ end' = [end EXCEPT ![next] = next']
  /\ at' = [at EXCEPT ![next] = next]
  /\ Goes(next, "sent")
  /\ UNCHANGED <<len, pipe, file, replies, first, rest, broken, verifier, outcome>>

\* A short WRITE after which the whole of the remaining chunk is sent again.
Rewrites(s) == at[s]

\* offset += written
Advanced(s) == at[s] + count[s]

\* The second WriteOutcome of a chunk is dropped.
KeepsFirst(s) == TRUE

\* outcome.merge(rest) at the end of write_chunk.
ChunkAgrees(s) == Agree(first'[s], rest'[s])

\* ensure_write_verifier(write.verifier, commit_verifier)
Committed(s) == wrote[s] # None => wrote[s] = commit[s]

\* The reply is taken: the chunk goes on, ends, or fails on its verifiers.
Receive(s) ==
  /\ task[s] = "served"
  /\ LET leads == Pipelined /\ at[s] = s
         more == Advanced(s) < end[s]
         fits == IF Single THEN Committed(s) ELSE leads \/ Agree(rest[s], wrote[s])
     IN /\ at' = IF fits THEN [at EXCEPT ![s] = Advanced(s)] ELSE at
        /\ first' = IF leads THEN [first EXCEPT ![s] = wrote[s]] ELSE first
        /\ rest' = IF Single \/ leads \/ ~fits THEN rest
                   ELSE [rest EXCEPT ![s] = Merge(@, wrote[s])]
        /\ Goes(s, IF fits /\ more THEN "sent"
                   ELSE IF fits /\ ChunkAgrees(s) THEN "done" ELSE "failed")
  /\ UNCHANGED <<len, pipe, file, next, end, replies, broken, verifier, outcome>>

\* The call fails or its reply is refused: a count of zero or above the request
\* (validate_write_reply), or a status.
WriteFails(s) ==
  /\ task[s] \in InFlight
  /\ Goes(s, "failed")
  /\ UNCHANGED <<len, pipe, file, next, end, at, replies, first, rest, broken, verifier,
                 outcome>>

\* outcome.merge(written)
Merges(s) == Agree(verifier, Merge(first[s], rest[s]))

\* writes.next(), after the scheduling loop has pushed what it could.
Collect(s) ==
  /\ task[s] \in Ended /\ ~CanIssue
  /\ LET good == task[s] = "done" /\ Merges(s)
     IN /\ broken' = (broken \/ ~good)
        /\ verifier' = IF good THEN Merge(verifier, Merge(first[s], rest[s])) ELSE verifier
        /\ Goes(s, IF good THEN "merged" ELSE "dropped")
  /\ UNCHANGED <<len, pipe, file, next, end, at, replies, first, rest, outcome>>

\* writes.is_empty()
ReturnWrite ==
  /\ outcome = "none" /\ ~CanIssue
  /\ \A s \in Offsets : task[s] \notin InFlight \cup Ended
  /\ outcome' = IF broken THEN "error" ELSE "ok"
  /\ UNCHANGED <<len, pipe, file, next, task, end, at, replies, first, rest, broken, verifier>>

WriteStep ==
  \/ Issue \/ ReturnWrite
  \/ \E s \in Offsets :
       \/ \E n \in 1 .. RequestLen(s), stable \in BOOLEAN : ServeWrite(s, n, stable)
       \/ ServeCommit(s) \/ Receive(s) \/ WriteFails(s) \/ Collect(s)

WriteNext == WriteStep \/ (\E lost \in SUBSET Unstable : Restart(lost))

WriteSpec == WriteInit /\ [][WriteNext]_writeVars
-----------------------------------------------------------------------------
(***************************************************************************)
(* What write_bytes reports is enough for the COMMIT of the close to       *)
(* decide: when it returns Ok every byte of the body was written, by one   *)
(* WRITE or several, in whatever order they were answered; a byte not yet  *)
(* on stable storage was written under the verifier the outcome carries,   *)
(* and when the server has lost one, that verifier is no longer its own.   *)
(***************************************************************************)
WrittenOrDetected ==
  outcome = "ok" =>
    \A i \in 0 .. len - 1 :
      /\ held[i] # "none"
      /\ held[i] = "unstable" => verifier = boot
      /\ held[i] = "lost" => verifier # None /\ verifier # boot
=============================================================================
