---------------------------- MODULE WriteProofs -----------------------------
(***************************************************************************)
(* WrittenOrDetected of module Write, for every length of the body, size   *)
(* of a chunk, depth of the pipeline and number of restarts of the server. *)
(*                                                                         *)
(* WrittenOrDetected is not inductive: it says nothing before write_bytes  *)
(* returns. The invariant follows each byte from the WRITE that stores it  *)
(* to the outcome: chunks do not overlap and cover what was issued         *)
(* (Spans); a byte a reply reports was written under the reply's verifier  *)
(* (ServedInv); a byte a chunk has passed was written under one of the     *)
(* chunk's verifiers (AckedInv); the chunks merged have no other verifier  *)
(* than the outcome's (EndsInv); and only a server with a newer verifier   *)
(* has lost a byte (HeldInv).                                              *)
(***************************************************************************)
EXTENDS Write, FiniteSetTheorems, TLAPS

Begun(s) == task[s] # "idle"

Spans ==
  /\ \A s \in Offsets : Begun(s) =>
       s <= at[s] /\ at[s] <= end[s] /\ s < end[s] /\ end[s] <= next
  /\ \A s, t \in Offsets : Begun(s) /\ Begun(t) /\ s < t => end[s] <= t
  /\ \A i \in Offsets : i < next => \E s \in Offsets : Begun(s) /\ s <= i /\ i < end[s]

HeldInv ==
  \A i \in Offsets : /\ held[i] = "unstable" => by[i] = boot
                     /\ held[i] = "lost" => by[i] < boot

\* Byte i was written, and under u or v unless it is on stable storage.
Known(i, u, v) == held[i] # "none" /\ (held[i] # "stable" => by[i] \in {u, v})

AckedInv ==
  \A s, i \in Offsets :
    Begun(s) /\ task[s] \notin {"failed", "dropped"} /\ s <= i /\ i < at[s]
      => Known(i, first[s], rest[s])

ServedInv ==
  \A s \in Offsets :
    /\ task[s] = "sent" => at[s] < end[s]
    /\ task[s] \in {"written", "served"} =>
         /\ count[s] > 0 /\ at[s] + count[s] <= end[s]
         /\ \A i \in Offsets : at[s] <= i /\ i < at[s] + count[s] => Known(i, wrote[s], wrote[s])
    /\ Single /\ task[s] = "served" /\ Committed(s) =>
         \A i \in Offsets : at[s] <= i /\ i < at[s] + count[s] => held[i] = "stable"

EndsInv ==
  /\ \A s \in Offsets :
       /\ task[s] \in {"done", "merged"} => at[s] = end[s] /\ Agree(first[s], rest[s])
       /\ task[s] = "merged" => Merge(first[s], rest[s]) \in {None, verifier}
       /\ task[s] = "dropped" => broken
  /\ outcome = "ok" =>
       ~broken /\ next = len /\ \A s \in Offsets : task[s] \in {"idle", "merged"}

WriteInv == WriteTypeOK /\ Spans /\ HeldInv /\ AckedInv /\ ServedInv /\ EndsInv
-----------------------------------------------------------------------------
LEMMA Numbers ==
  ASSUME WriteTypeOK
  PROVE  /\ \A s \in Offsets : s \in Nat /\ at[s] \in Nat /\ end[s] \in Nat /\ count[s] \in Nat
         /\ next \in Nat /\ len \in Nat /\ boot \in Nat
  BY WriteAssumption DEF WriteTypeOK, Offsets, Verifiers

\* The initial states, in which no chunk has begun and no byte is written.
LEMMA InitInv ==
  ASSUME WriteInit
  PROVE  WriteInv
  <1> USE WriteAssumption
  <1>1. WriteTypeOK
    <2>1. /\ len \in 0 .. MaxLen /\ pipe \in Nat \ {0} /\ boot \in Verifiers /\ next \in 0 .. len
          /\ verifier \in Optional /\ 0 \in Verifiers /\ None \in Optional /\ 0 \in 0 .. len
          /\ 0 \in 0 .. MaxWrite
      BY DEF WriteInit, Verifiers, Optional
    <2>2. /\ held \in [Offsets -> {"none", "unstable", "stable", "lost"}]
          /\ by \in [Offsets -> Verifiers] /\ commit \in [Offsets -> Verifiers]
          /\ task \in [Offsets -> InFlight \cup Ended \cup {"idle", "merged", "dropped"}]
      BY <2>1, Zenon DEF WriteInit
    <2>3. /\ end \in [Offsets -> 0 .. len] /\ at \in [Offsets -> 0 .. len]
          /\ count \in [Offsets -> 0 .. MaxWrite]
      BY <2>1, Zenon DEF WriteInit
    <2>4. /\ wrote \in [Offsets -> Optional] /\ first \in [Offsets -> Optional]
          /\ rest \in [Offsets -> Optional]
      BY <2>1, Zenon DEF WriteInit
    <2> QED
      BY ZenonT(60), <2>1, <2>2, <2>3, <2>4 DEF WriteInit, WriteTypeOK
  <1>2. Spans /\ HeldInv /\ AckedInv /\ ServedInv /\ EndsInv
    BY SMTT(30) DEF WriteInit, Spans, HeldInv, AckedInv, ServedInv, EndsInv, Begun, Offsets
  <1> QED
    BY <1>1, <1>2, Zenon DEF WriteInv

\* A restart loses bytes or keeps them; it changes no verifier already sent.
LEMMA RestartInv ==
  ASSUME WriteInv, NEW lost \in SUBSET Unstable, Restart(lost)
  PROVE  WriteInv'
  <1> USE WriteAssumption
  <1>1. WriteTypeOK'
    BY SMTT(30) DEF WriteInv, Restart, Unstable, WriteTypeOK, replies, Verifiers, Optional, None
  <1>2. Spans' /\ EndsInv'
    BY Zenon DEF WriteInv, Restart, Spans, EndsInv, Begun, Agree, Merge
  <1>3. HeldInv'
    BY SMTT(30) DEF WriteInv, WriteTypeOK, Restart, Unstable, HeldInv, Verifiers
  <1>4. ASSUME NEW i \in Offsets, NEW u, NEW v, Known(i, u, v)
        PROVE  Known(i, u, v)'
    BY <1>4, SMTT(30) DEF WriteInv, WriteTypeOK, Restart, Unstable, Known
  <1>5. ASSUME NEW i \in Offsets, held[i] = "stable"
        PROVE  held'[i] = "stable"
    BY <1>5, SMTT(30) DEF WriteInv, WriteTypeOK, Restart, Unstable
  <1>6. AckedInv'
    BY <1>4, Zenon DEF WriteInv, Restart, AckedInv, Begun, replies
  <1>7. ServedInv'
    BY <1>4, <1>5, Zenon DEF WriteInv, Restart, ServedInv, replies, Single, Committed
  <1> QED
    BY <1>1, <1>2, <1>3, <1>6, <1>7, Zenon DEF WriteInv

\* The WRITE of s touches bytes of no other chunk, and none s has passed.
LEMMA ServeWriteInv ==
  ASSUME WriteInv, NEW s \in Offsets, NEW n \in 1 .. RequestLen(s), NEW stable \in BOOLEAN,
         ServeWrite(s, n, stable)
  PROVE  WriteInv'
  <1> USE WriteAssumption DEF WriteInv
  <1>1. /\ n \in Nat /\ n > 0 /\ n <= MaxWrite /\ at[s] + n <= end[s]
        /\ at[s] \in Nat /\ end[s] \in Nat /\ task[s] = "sent"
    BY SMTT(30) DEF ServeWrite, RequestLen, Smaller, WriteTypeOK, ServedInv
  <1>2. WriteTypeOK'
    <2>1. /\ held' \in [Offsets -> {"none", "unstable", "stable", "lost"}]
          /\ by' \in [Offsets -> Verifiers]
      BY Zenon DEF ServeWrite, WriteTypeOK
    <2>2. /\ count' \in [Offsets -> 0 .. MaxWrite] /\ wrote' \in [Offsets -> Optional]
          /\ task' \in [Offsets -> InFlight \cup Ended \cup {"idle", "merged", "dropped"}]
      BY <1>1 DEF ServeWrite, WriteTypeOK, Goes, Optional, InFlight
    <2> QED
      BY <2>1, <2>2, Zenon DEF ServeWrite, WriteTypeOK
  <1>3. \A t \in Offsets : t # s => task'[t] = task[t] /\ count'[t] = count[t] /\ wrote'[t] = wrote[t]
    BY Zenon DEF ServeWrite, Goes, WriteTypeOK
  <1>4. /\ task'[s] \in {"written", "served"} /\ (task'[s] = "served" => ~Single)
        /\ count'[s] = n /\ wrote'[s] = IF stable THEN None ELSE boot
    BY Zenon DEF ServeWrite, Goes, WriteTypeOK
  <1>5. Spans' /\ EndsInv'
    BY <1>1, <1>3, <1>4 DEF ServeWrite, Spans, EndsInv, Begun, Agree, Merge
  <1>6. HeldInv'
    BY SMTT(30) DEF ServeWrite, HeldInv, WriteTypeOK, Verifiers
  <1>7. ASSUME NEW i \in Offsets, i < at[s] \/ end[s] <= i
        PROVE  held'[i] = held[i] /\ by'[i] = by[i]
    BY <1>7, <1>1 DEF ServeWrite, WriteTypeOK, Offsets
  <1>8. ASSUME NEW t \in Offsets, t # s, Begun(t), NEW i \in Offsets, t <= i, i < end[t]
        PROVE  held'[i] = held[i] /\ by'[i] = by[i]
    <2>1. i < s \/ end[s] <= i
      BY <1>1, <1>8, Numbers DEF Spans, Begun
    <2>2. s <= at[s]
      BY <1>1, Zenon DEF Spans, Begun
    <2> QED
      BY <1>1, <1>7, <2>1, <2>2 DEF Offsets
  <1>9. ASSUME NEW i \in Offsets, at[s] <= i, i < at[s] + n
        PROVE  Known(i, wrote[s], wrote[s])'
    BY <1>4, <1>9, Zenon DEF ServeWrite, Known, WriteTypeOK
  <1>10. AckedInv'
    <2> SUFFICES ASSUME NEW t \in Offsets, NEW i \in Offsets, Begun(t)',
                        task'[t] \notin {"failed", "dropped"}, t <= i, i < at[t]
                 PROVE  Known(i, first[t], rest[t])'
      BY Zenon DEF ServeWrite, AckedInv
    <2>1. Known(i, first[t], rest[t]) /\ i < end[t] /\ Begun(t)
      BY <1>1, <1>3, <1>4, Numbers DEF AckedInv, Begun, Spans
    <2>2. held'[i] = held[i] /\ by'[i] = by[i]
      BY <1>7, <1>8, <2>1, Zenon
    <2> QED
      BY <2>1, <2>2, Zenon DEF Known, ServeWrite
  <1>11. ServedInv'
    <2> SUFFICES ASSUME NEW t \in Offsets PROVE
          /\ task'[t] = "sent" => at[t] < end[t]
          /\ task'[t] \in {"written", "served"} =>
               /\ count'[t] > 0 /\ at[t] + count'[t] <= end[t]
               /\ \A i \in Offsets : at[t] <= i /\ i < at[t] + count'[t]
                                       => Known(i, wrote[t], wrote[t])'
          /\ Single /\ task'[t] = "served" /\ Committed(t)' =>
               \A i \in Offsets : at[t] <= i /\ i < at[t] + count'[t] => held'[i] = "stable"
      BY Zenon DEF ServeWrite, ServedInv, Single
    <2>1. CASE t = s
      BY ZenonT(60), <2>1, <1>1, <1>4, <1>9
    <2>2. CASE t # s
      <3>1. ASSUME NEW i \in Offsets, task[t] \in {"written", "served"}, at[t] <= i,
                   i < at[t] + count[t]
            PROVE  held'[i] = held[i] /\ by'[i] = by[i]
        <4>1. t <= i /\ i < end[t] /\ Begun(t)
          BY <3>1, Numbers DEF ServedInv, Spans, Begun
        <4> QED
          BY <4>1, <1>8, <2>2, Zenon
      <3> QED
        BY <2>2, <1>3, <3>1 DEF ServeWrite, ServedInv, Known, Committed
    <2> QED
      BY <2>1, <2>2, Zenon
  <1> QED
    BY <1>2, <1>5, <1>6, <1>10, <1>11, Zenon

\* The COMMIT makes stable what the server still holds.
LEMMA ServeCommitInv ==
  ASSUME WriteInv, NEW s \in Offsets, ServeCommit(s)
  PROVE  WriteInv'
  <1> USE WriteAssumption DEF WriteInv
  <1>1. WriteTypeOK'
    <2>1. /\ held' \in [Offsets -> {"none", "unstable", "stable", "lost"}]
          /\ task' \in [Offsets -> InFlight \cup Ended \cup {"idle", "merged", "dropped"}]
          /\ commit' \in [Offsets -> Verifiers]
      BY Zenon DEF ServeCommit, WriteTypeOK, Goes, InFlight
    <2> QED
      BY <2>1, Zenon DEF ServeCommit, WriteTypeOK
  <1>2. /\ task[s] = "written" /\ task'[s] = "served" /\ commit'[s] = boot
        /\ \A t \in Offsets : t # s => task'[t] = task[t] /\ commit'[t] = commit[t]
    BY Zenon DEF ServeCommit, Goes, WriteTypeOK
  <1>3. Spans' /\ EndsInv'
    BY <1>2 DEF ServeCommit, Spans, EndsInv, Begun, Agree, Merge
  <1>4. HeldInv'
    BY Zenon DEF ServeCommit, HeldInv, WriteTypeOK, Unstable
  <1>5. ASSUME NEW i \in Offsets
        PROVE  /\ by'[i] = by[i] /\ held'[i] # "unstable" /\ (held'[i] = "none" => held[i] = "none")
               /\ held'[i] = "lost" => held[i] = "lost" /\ by[i] < boot
               /\ held[i] = "stable" => held'[i] = "stable"
               /\ held'[i] \in {"none", "stable", "lost"}
    BY Zenon DEF ServeCommit, HeldInv, WriteTypeOK, Unstable
  <1>6. AckedInv'
    BY <1>2, <1>5 DEF ServeCommit, AckedInv, Known, Begun
  <1>7. ServedInv'
    <2> SUFFICES ASSUME NEW t \in Offsets PROVE
          /\ task'[t] = "sent" => at[t] < end[t]
          /\ task'[t] \in {"written", "served"} =>
               /\ count[t] > 0 /\ at[t] + count[t] <= end[t]
               /\ \A i \in Offsets : at[t] <= i /\ i < at[t] + count[t]
                                       => Known(i, wrote[t], wrote[t])'
          /\ Single /\ task'[t] = "served" /\ Committed(t)' =>
               \A i \in Offsets : at[t] <= i /\ i < at[t] + count[t] => held'[i] = "stable"
      BY Zenon DEF ServeCommit, ServedInv, Single
    <2>1. /\ task'[t] = "sent" => at[t] < end[t]
          /\ task'[t] \in {"written", "served"} =>
               /\ count[t] > 0 /\ at[t] + count[t] <= end[t]
               /\ \A i \in Offsets : at[t] <= i /\ i < at[t] + count[t]
                                       => Known(i, wrote[t], wrote[t])'
      BY ZenonT(60), <1>2, <1>5 DEF ServeCommit, ServedInv, Known
    <2>2. CASE t # s
      BY ZenonT(60), <2>1, <2>2, <1>2, <1>5 DEF ServeCommit, ServedInv, Committed
    <2>3. CASE t = s
      <3> SUFFICES ASSUME Committed(s)', NEW i \in Offsets, at[s] <= i, i < at[s] + count[s],
                          held'[i] # "stable"
                   PROVE  FALSE
        BY <2>1, <2>3, Zenon
      <3>1. held[i] = "lost" /\ by[i] = wrote[s] /\ by[i] < boot
        BY <1>2, <1>5 DEF ServedInv, Known
      <3>2. wrote[s] = boot
        BY <3>1, <1>2 DEF ServeCommit, Committed, WriteTypeOK, Verifiers, None
      <3> QED
        BY <3>1, <3>2 DEF WriteTypeOK, Verifiers
    <2> QED
      BY <2>2, <2>3, Zenon
  <1> QED
    BY <1>1, <1>3, <1>4, <1>6, <1>7, Zenon
-----------------------------------------------------------------------------
\* What the reply reports is passed under the verifier the chunk records.
LEMMA ReceiveInv ==
  ASSUME WriteInv, NEW s \in Offsets, Receive(s)
  PROVE  WriteInv'
  <1> USE Numbers DEF WriteInv
  <1> DEFINE leads == Pipelined /\ at[s] = s
             fits == IF Single THEN Committed(s) ELSE leads \/ Agree(rest[s], wrote[s])
  <1>1. /\ task[s] = "served" /\ count[s] > 0 /\ at[s] + count[s] <= end[s]
        /\ \A i \in Offsets : at[s] <= i /\ i < at[s] + count[s] => Known(i, wrote[s], wrote[s])
    BY Zenon DEF Receive, ServedInv
  <1>2. /\ at'[s] = IF fits THEN at[s] + count[s] ELSE at[s]
        /\ first'[s] = IF leads THEN wrote[s] ELSE first[s]
        /\ rest'[s] = IF Single \/ leads \/ ~fits THEN rest[s] ELSE Merge(rest[s], wrote[s])
    BY Zenon DEF Receive, Advanced, WriteTypeOK
  <1>3. \A t \in Offsets : t # s => /\ task'[t] = task[t] /\ at'[t] = at[t]
                                    /\ first'[t] = first[t] /\ rest'[t] = rest[t]
    BY Zenon DEF Receive, Goes, WriteTypeOK
  <1>4. /\ task'[s] \in {"sent", "done", "failed"}
        /\ task'[s] # "failed" => fits
        /\ task'[s] = "sent" => at[s] + count[s] < end[s]
        /\ task'[s] = "done" => at[s] + count[s] = end[s] /\ Agree(first'[s], rest'[s])
    BY <1>1 DEF Receive, Goes, WriteTypeOK, ChunkAgrees, Advanced
  <1>5. UNCHANGED <<len, boot, held, by, next, end, count, wrote, commit, broken, verifier, outcome>>
    BY Zenon DEF Receive, file, replies
  <1>6. WriteTypeOK'
    <2>1. task' \in [Offsets -> InFlight \cup Ended \cup {"idle", "merged", "dropped"}]
      BY Zenon DEF Receive, Goes, WriteTypeOK, InFlight, Ended
    <2>2. at' \in [Offsets -> 0 .. len]
      BY <1>1 DEF Receive, WriteTypeOK, Advanced
    <2>3. first' \in [Offsets -> Optional] /\ rest' \in [Offsets -> Optional]
      BY Zenon DEF Receive, WriteTypeOK, Merge
    <2> QED
      BY <2>1, <2>2, <2>3, Zenon DEF Receive, WriteTypeOK, file, replies
  <1> HIDE DEF leads, fits
  <1>7. Spans'
    <2>1. \A t \in Offsets : Begun(t)' <=> Begun(t)
      BY <1>1, <1>3, <1>4, Zenon DEF Begun
    <2>2. \A t \in Offsets : Begun(t) => t <= at'[t] /\ at'[t] <= end[t]
      BY <1>1, <1>2, <1>3 DEF Spans, Begun
    <2> QED
      BY <1>5, <2>1, <2>2, Zenon DEF Spans
  <1>8. HeldInv'
    BY <1>5, Zenon DEF HeldInv
  <1>9. AckedInv'
    <2> SUFFICES ASSUME NEW t \in Offsets, NEW i \in Offsets, Begun(t)',
                        task'[t] \notin {"failed", "dropped"}, t <= i, i < at'[t]
                 PROVE  Known(i, first'[t], rest'[t])
      BY <1>5, Zenon DEF AckedInv, Known
    <2>1. CASE t # s
      BY <2>1, <1>3, Zenon DEF AckedInv, Begun
    <2>2. CASE t = s /\ i < at[s]
      <3>1. ~leads /\ Known(i, first[s], rest[s])
        BY <2>2, <1>1 DEF AckedInv, Begun, leads
      <3>2. rest[s] # None => rest'[s] = rest[s]
        BY <1>2, Zenon DEF Merge
      <3>3. held[i] # "stable" => by[i] \in Nat
        BY WriteAssumption DEF WriteTypeOK, Verifiers
      <3> QED
        BY <2>2, <3>1, <3>2, <3>3, <1>2 DEF Known, None
    <2>3. CASE t = s /\ at[s] <= i
      <3>1. fits /\ i < at[s] + count[s]
        BY <2>3, <1>2, <1>4, Zenon
      <3>2. Known(i, wrote[s], wrote[s])
        BY <2>3, <3>1, <1>1, Zenon
      <3>3. CASE Single
        BY <2>3, <3>1, <3>2, <3>3, <1>1, Zenon DEF ServedInv, Known, fits
      <3>4. CASE ~Single
        <4>1. held[i] # "stable" => wrote[s] # None
          BY <3>2, WriteAssumption DEF Known, WriteTypeOK, Verifiers, None
        <4>2. held[i] # "stable" => wrote[s] \in {first'[s], rest'[s]}
          BY <3>1, <3>4, <4>1, <1>2, Zenon DEF Agree, Merge, fits
        <4> QED
          BY <2>3, <3>2, <4>2, Zenon DEF Known
      <3> QED
        BY <3>3, <3>4, Zenon
    <2>4. at[s] \in Nat /\ i \in Nat
      BY Zenon
    <2> HIDE Numbers DEF WriteInv
    <2> QED
      BY <2>1, <2>2, <2>3, <2>4
  <1>10. ServedInv'
    <2>1. task'[s] = "sent" => at'[s] < end[s]
      BY <1>2, <1>4, Zenon
    <2>2. task'[s] \notin {"written", "served"}
      BY <1>4, Zenon
    <2> QED
      BY <1>3, <1>5, <2>1, <2>2 DEF ServedInv, Known, Single, Committed
  <1>11. EndsInv'
    BY ZenonT(60), <1>1, <1>2, <1>3, <1>4, <1>5 DEF EndsInv, Agree, Merge
  <1> QED
    BY <1>6, <1>7, <1>8, <1>9, <1>10, <1>11, Zenon

\* A chunk begins where the issued ones end, with nothing passed yet.
LEMMA IssueInv ==
  ASSUME WriteInv, Issue
  PROVE  WriteInv'
  <1> USE WriteAssumption, Numbers DEF WriteInv
  <1>1. next \in Offsets /\ next' \in Nat /\ next < next' /\ next' <= len /\ len \in 0 .. MaxLen
    BY SMTT(30) DEF Issue, CanIssue, Smaller, WriteTypeOK, Offsets
  <1>2. ~Begun(next)
    BY <1>1 DEF Spans
  <1>3. /\ task'[next] = "sent" /\ end'[next] = next' /\ at'[next] = next
        /\ \A s \in Offsets : s # next => task'[s] = task[s] /\ end'[s] = end[s] /\ at'[s] = at[s]
    BY <1>1, Zenon DEF Issue, Goes, WriteTypeOK
  <1>4. WriteTypeOK'
    <2>1. task' \in [Offsets -> InFlight \cup Ended \cup {"idle", "merged", "dropped"}]
      BY ZenonT(60) DEF Issue, Goes, WriteTypeOK, InFlight
    <2>2. next' \in 0 .. len /\ end' \in [Offsets -> 0 .. len] /\ at' \in [Offsets -> 0 .. len]
      BY <1>1 DEF Issue, WriteTypeOK
    <2> QED
      BY <2>1, <2>2, Zenon DEF Issue, WriteTypeOK, file, replies
  <1>5. Spans'
    <2>1. ASSUME NEW s \in Offsets, Begun(s)'
          PROVE  s <= at'[s] /\ at'[s] <= end'[s] /\ s < end'[s] /\ end'[s] <= next'
      BY <2>1, <1>1, <1>3 DEF Spans, Begun
    <2>2. ASSUME NEW s \in Offsets, NEW t \in Offsets, Begun(s)', Begun(t)', s < t
          PROVE  end'[s] <= t
      BY <2>2, <1>1, <1>3 DEF Spans, Begun
    <2>3. ASSUME NEW i \in Offsets, i < next'
          PROVE  \E s \in Offsets : Begun(s)' /\ s <= i /\ i < end'[s]
      <3>1. CASE i < next
        <4>1. PICK s \in Offsets : Begun(s) /\ s <= i /\ i < end[s]
          BY <3>1, Zenon DEF Spans
        <4> QED
          BY <4>1, <1>2, <1>3, Zenon DEF Begun
      <3>2. CASE next <= i
        BY <3>2, <2>3, <1>1, <1>3, Zenon DEF Begun
      <3> QED
        BY <3>1, <3>2, <1>1
    <2> QED
      BY <2>1, <2>2, <2>3, Zenon DEF Spans
  <1>6. HeldInv'
    BY Zenon DEF Issue, HeldInv, file
  <1>7. AckedInv'
    <2> SUFFICES ASSUME NEW s \in Offsets, NEW i \in Offsets, Begun(s)',
                        task'[s] \notin {"failed", "dropped"}, s <= i, i < at'[s]
                 PROVE  Known(i, first[s], rest[s])'
      BY Zenon DEF AckedInv
    <2>1. s # next
      BY <1>1, <1>3
    <2> QED
      BY <2>1, <1>3, Zenon DEF AckedInv, Known, Begun, Issue, file
  <1>8. ServedInv'
    BY <1>1, <1>2, <1>3 DEF Issue, ServedInv, Known, Begun, Single, Committed, file, replies
  <1>9. EndsInv'
    <2>1. outcome # "ok"
      BY <1>1 DEF EndsInv
    <2> QED
      BY <2>1, <1>3, Zenon DEF Issue, EndsInv, Agree, Merge
  <1> QED
    BY <1>4, <1>5, <1>6, <1>7, <1>8, <1>9, Zenon

\* A step of s that ends its chunk in failure.
LEMMA WriteFailsInv ==
  ASSUME WriteInv, NEW s \in Offsets, WriteFails(s)
  PROVE  WriteInv'
  <1> USE DEF WriteInv
  <1>1. /\ task[s] \in InFlight /\ task'[s] = "failed"
        /\ \A t \in Offsets : t # s => task'[t] = task[t]
    BY Zenon DEF WriteFails, Goes, WriteTypeOK
  <1>2. WriteTypeOK'
    <2>1. task' \in [Offsets -> InFlight \cup Ended \cup {"idle", "merged", "dropped"}]
      BY Zenon DEF WriteFails, Goes, WriteTypeOK, Ended
    <2> QED
      BY <2>1, Zenon DEF WriteFails, WriteTypeOK, file, replies
  <1>3. Spans' /\ HeldInv'
    BY <1>1, Zenon DEF WriteFails, Spans, HeldInv, Begun, file, InFlight
  <1>4. AckedInv' /\ ServedInv'
    BY <1>1 DEF WriteFails, AckedInv, ServedInv, Known, Begun, Single, Committed, file, replies
  <1>5. EndsInv'
    BY <1>1, Zenon DEF WriteFails, EndsInv, Agree, Merge, InFlight
  <1> QED
    BY <1>2, <1>3, <1>4, <1>5, Zenon

\* An ended chunk is merged, or the outcome is broken.
LEMMA CollectInv ==
  ASSUME WriteInv, NEW s \in Offsets, Collect(s)
  PROVE  WriteInv'
  <1> USE DEF WriteInv
  <1>1. /\ task[s] \in Ended /\ task'[s] \in {"merged", "dropped"}
        /\ task'[s] = "merged" => task[s] = "done" /\ Merges(s) /\ broken' = broken
                                  /\ verifier' = Merge(verifier, Merge(first[s], rest[s]))
        /\ task'[s] = "dropped" => broken' /\ verifier' = verifier
        /\ broken => broken'
        /\ \A t \in Offsets : t # s => task'[t] = task[t]
    BY ZenonT(60) DEF Collect, Goes, WriteTypeOK
  <1>2. WriteTypeOK'
    <2>1. task' \in [Offsets -> InFlight \cup Ended \cup {"idle", "merged", "dropped"}]
      BY Zenon DEF Collect, Goes, WriteTypeOK
    <2>2. broken' \in BOOLEAN /\ verifier' \in Optional
      BY Zenon DEF Collect, WriteTypeOK, Merge
    <2> QED
      BY <2>1, <2>2, Zenon DEF Collect, WriteTypeOK, file, replies
  <1>3. Spans' /\ HeldInv'
    BY <1>1, Zenon DEF Collect, Spans, HeldInv, Begun, file, Ended
  <1>4. AckedInv' /\ ServedInv'
    BY <1>1 DEF Collect, AckedInv, ServedInv, Known, Begun, Single, Committed, file, replies, Ended
  <1>5. ASSUME NEW t \in Offsets, task'[t] = "merged"
        PROVE  Merge(first[t], rest[t]) \in {None, verifier'}
    <2>1. EndsInv
      BY ZenonT(60)
    <2> HIDE DEF WriteInv
    <2> QED
      BY <1>1, <1>5, <2>1, Zenon DEF EndsInv, Merges, Agree, Merge
  <1>6. EndsInv'
    BY <1>1, <1>5, Zenon DEF Collect, EndsInv, Agree, Merge, Ended
  <1> QED
    BY <1>2, <1>3, <1>4, <1>6, Zenon

\* write_bytes returns Ok only when every chunk was issued and merged.
LEMMA ReturnInv ==
  ASSUME WriteInv, ReturnWrite
  PROVE  WriteInv'
  <1> USE DEF WriteInv
  <1>1. WriteTypeOK' /\ Spans' /\ HeldInv' /\ AckedInv' /\ ServedInv'
    BY DEF ReturnWrite, WriteTypeOK, Spans, HeldInv, AckedInv, ServedInv, Known, Begun, Single,
           Committed, file, replies
  <1>2. ~broken => next = len
    <2>1. {s \in Offsets : task[s] \in InFlight \cup Ended} = {}
      BY Zenon DEF ReturnWrite
    <2>2. Cardinality({s \in Offsets : task[s] \in InFlight \cup Ended}) = 0
      BY <2>1, FS_EmptySet, Zenon
    <2> QED
      BY <2>2 DEF ReturnWrite, CanIssue, WriteTypeOK
  <1>3. EndsInv'
    BY <1>2, Zenon DEF ReturnWrite, EndsInv, WriteTypeOK, Agree, Merge
  <1> QED
    BY <1>1, <1>3, Zenon

LEMMA StepInv ==
  ASSUME WriteInv, [WriteNext]_writeVars
  PROVE  WriteInv'
  <1>1. CASE UNCHANGED writeVars
    BY <1>1 DEF WriteInv, WriteTypeOK, Spans, HeldInv, AckedInv, ServedInv, EndsInv, Begun, Known,
                Single, Committed, Agree, Merge, writeVars, file, replies
  <1>2. CASE WriteNext
    BY <1>2, RestartInv, IssueInv, ReturnInv, ServeWriteInv, ServeCommitInv, ReceiveInv,
       WriteFailsInv, CollectInv, Zenon DEF WriteNext, WriteStep
  <1> QED
    BY <1>1, <1>2, Zenon

\* An Ok outcome has merged every chunk, each byte of it under its verifier.
LEMMA InvImplies ==
  ASSUME WriteInv
  PROVE  WrittenOrDetected
  <1> USE Numbers DEF WriteInv
  <1> SUFFICES ASSUME outcome = "ok", NEW i \in 0 .. len - 1
               PROVE  /\ held[i] # "none"
                      /\ held[i] = "unstable" => verifier = boot
                      /\ held[i] = "lost" => verifier # None /\ verifier # boot
    BY Zenon DEF WrittenOrDetected
  <1>1. i \in Offsets /\ i < next
    BY WriteAssumption DEF EndsInv, WriteTypeOK, Offsets
  <1>2. PICK s \in Offsets : Begun(s) /\ s <= i /\ i < end[s]
    BY <1>1, Zenon DEF Spans
  <1>3. /\ task[s] = "merged" /\ at[s] = end[s] /\ Agree(first[s], rest[s])
        /\ Merge(first[s], rest[s]) \in {None, verifier}
    BY <1>2, Zenon DEF EndsInv, Begun
  <1>4. Known(i, first[s], rest[s])
    BY <1>1, <1>2, <1>3, Zenon DEF AckedInv
  <1>5. held[i] # "stable" => by[i] = verifier /\ by[i] # None
    BY <1>1, <1>3, <1>4, WriteAssumption DEF Known, Agree, Merge, WriteTypeOK, Verifiers, None
  <1> QED
    BY <1>1, <1>4, <1>5 DEF Known, HeldInv

(***************************************************************************)
(* For every body, chunk size, depth and history of restarts: an Ok        *)
(* outcome of write_bytes (src/src/client.rs) has written every byte, and  *)
(* the verifier it carries to the COMMIT tells whether one was lost.       *)
(***************************************************************************)
THEOREM WriteIsDetected == WriteSpec => []WrittenOrDetected
  <1>1. WriteInit => WriteInv
    BY InitInv, Zenon
  <1>2. WriteInv /\ [WriteNext]_writeVars => WriteInv'
    BY StepInv, Zenon
  <1>3. WriteInv => WrittenOrDetected
    BY InvImplies, Zenon
  <1> QED
    BY <1>1, <1>2, <1>3, PTL DEF WriteSpec
=============================================================================
