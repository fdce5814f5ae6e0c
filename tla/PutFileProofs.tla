--------------------------- MODULE PutFileProofs ---------------------------
(***************************************************************************)
(* The client keeps FileInv, for all values of the constants.              *)
(*                                                                         *)
(* Each step of the client does one of three things to its file: it goes   *)
(* on with the file it has (Glides), takes a name under which there is no  *)
(* file yet (Renames), or sends a compound that is in order for the file   *)
(* as it is (Prepared). FileStep has one step for each action of Put. The  *)
(* two that argue about durability are the answers (AnswerKeeps):          *)
(* ensure_write_verifier compares the verifiers of the WRITEs and the      *)
(* COMMIT, so an answer that is not the error of that comparison means     *)
(* that nothing was lost.                                                  *)
(***************************************************************************)
EXTENDS PutInvariantProofs

\* All of a compound is still to run when it is sent.
LEMMA PendingStart ==
  ASSUME NEW c, c.next = 1
  PROVE  \A n : Pending(c, n) <=> Has(c.ops, n)
  BY Zenon DEF Pending, Has

LEMMA SlackValues ==
  /\ \A l : Slack(l) \in {0, 1, 2}
  /\ \A l \in {"idle", "begin", "reconnect"} : Slack(l) = 0
  /\ \A l \in {"fuse", "fused", "fused_failed", "open", "mkdir", "reopen"} : Slack(l) = 1
  /\ \A l \in {"write", "write_failed", "close", "republish", "publish", "publish_failed",
               "remove", "removing", "done"} : Slack(l) = 2
  BY Zenon DEF Slack

-----------------------------------------------------------------------------
(* The kinds of steps of the client *)

\* pc, attempts and result change at o only.
Turns(o) ==
  /\ \E label \in Labels : Goto(o, label)
  /\ attempts' \in [Ops -> Nat]
  /\ \A p \in Ops \ {o} : result'[p] = result[p] /\ attempts'[p] = attempts[p]
                          /\ unstable'[p] = unstable[p]
  /\ \/ attempts'[o] = attempts[o]
     \/ attempts'[o] = attempts[o] + 1 /\ attempts[o] < ReconnectRetries /\ pc'[o] = "reconnect"

\* o goes on with what it has.
Glides(o) ==
  /\ Turns(o)
  /\ UNCHANGED <<file, cmp, temp, size, mode>>
  /\ attempts'[o] = attempts[o] => Slack(pc[o]) <= Slack(pc'[o])
  /\ pc'[o] \in {"idle", "begin", "done"} \/ pc[o] \notin {"idle", "begin", "done"}
       \/ mode[o] = "delete"
  /\ pc'[o] \notin {"fused", "publish", "write"}
  /\ pc'[o] \in Failing => pc[o] \in {"fused", "publish"}
  /\ pc'[o] = "close" => pc[o] = "publish" /\ unstable'[o] = unstable[o]
  /\ pc'[o] = "republish" => Settled(o)
  /\ result'[o] = "ok" /\ mode[o] # "delete" => Sound(o)

LEMMA GlidesFile ==
  ASSUME ControlInv, FileInv, NEW o \in Ops, Client(o), Glides(o)
  PROVE  FileInv'
  <1>1. /\ UNCHANGED <<file, cmp, temp, size, mode, boot>> /\ attempts' \in [Ops -> Nat]
        /\ Turns(o)
    BY Zenon DEF Glides, Turns, Client
  <1>2. FileTypes'
    BY <1>1, Zenon DEF FileInv, FileTypes
  <1>3. \A p \in Ops \ {o} : Same(p)
    BY <1>1, ControlTypes, Zenon DEF Same, Turns, Goto
  <1>4. Named(o)'
    <2>1. /\ attempts[o] \in Nat /\ attempts[o] <= ReconnectRetries /\ temp[o] \in Nat
          /\ temp[o] <= 2 * attempts[o] + Slack(pc[o])
      BY FileFacts, Zenon DEF Named
    <2>2. Slack(pc[o]) \in {0, 1, 2} /\ Slack(pc'[o]) \in {0, 1, 2}
      BY SlackValues, Zenon
    <2>3. \/ attempts'[o] = attempts[o] /\ Slack(pc[o]) <= Slack(pc'[o])
          \/ attempts'[o] = attempts[o] + 1 /\ attempts[o] < ReconnectRetries
      BY Zenon DEF Glides, Turns
    <2>4. attempts'[o] <= ReconnectRetries /\ temp[o] <= 2 * attempts'[o] + Slack(pc'[o])
      BY <2>1, <2>2, <2>3, RetriesAssumption
    <2>5. mode[o] \in Puts /\ (pc'[o] \notin {"idle", "begin", "done"} \/ Len(cmp[o].ops) > 0)
            => temp[o] >= 1
      BY FileFacts, AllowsPut, Zenon DEF Named, Glides
    <2> QED
      BY <1>1, <2>4, <2>5, Zenon DEF Named
  <1>5. Fresh(o)' /\ Arranged(o)'
    BY <1>1, FileFacts, Zenon DEF Fresh, Arranged, Glides
  <1>6. File(o)' = File(o)
    BY <1>1, Zenon DEF File, Temp
  <1>7. Checked(o)'
    <2>1. Live(o)' => Live(o)
      BY <1>1, Zenon DEF Live, Running, Glides
    <2> QED
      BY <1>1, <1>6, <2>1, FileFacts, Zenon DEF Checked
  <1>8. Steady(o)'
    BY <1>1, <1>6, FileFacts, Zenon DEF Steady, Glides
  <1>9. Ready(o)' /\ Kept(o)'
    BY <1>1, <1>6, Zenon DEF Ready, Kept, Settled, Sound, Glides
  <1> QED
    BY <1>1, <1>2, <1>3, <1>4, <1>5, <1>7, <1>8, <1>9, ClientFile, Zenon DEF Owned

\* o takes a new temporary name, under which there is no file yet.
Renames(o) ==
  /\ Turns(o) /\ NewTemp(o)
  /\ UNCHANGED <<file, cmp, size, mode>>
  /\ attempts'[o] = attempts[o] => Slack(pc[o]) + 1 <= Slack(pc'[o])
  /\ pc[o] \in {"begin", "open", "reopen"}
  /\ pc'[o] \notin {"fused", "publish", "close", "republish"} \cup Failing
  /\ result'[o] # "ok"

LEMMA RenamesFile ==
  ASSUME ControlInv, FileInv, NEW o \in Ops, Client(o), Renames(o)
  PROVE  FileInv'
  <1>1. /\ UNCHANGED <<file, cmp, size, mode, boot>> /\ attempts' \in [Ops -> Nat] /\ Turns(o)
        /\ temp' = [temp EXCEPT ![o] = temp[o] + 1]
    BY Zenon DEF Renames, Turns, Client, NewTemp
  <1>2. FileTypes'
    BY <1>1, Zenon DEF FileInv, FileTypes
  <1>3. temp'[o] = temp[o] + 1 /\ \A p \in Ops \ {o} : temp'[p] = temp[p]
    BY <1>1, ControlTypes, Zenon
  <1>4. \A p \in Ops \ {o} : Same(p)
    BY <1>1, <1>3, ControlTypes, Zenon DEF Same, Turns, Goto
  <1>5. /\ attempts[o] \in Nat /\ attempts[o] <= ReconnectRetries /\ temp[o] \in Nat
        /\ temp[o] <= 2 * attempts[o] + Slack(pc[o])
    BY FileFacts, Zenon DEF Named
  <1>6. attempts'[o] <= ReconnectRetries /\ temp'[o] <= 2 * attempts'[o] + Slack(pc'[o])
        /\ temp'[o] >= 1 /\ attempts'[o] \in Nat
    <2>1. Slack(pc[o]) \in {0, 1} /\ Slack(pc'[o]) \in {0, 1, 2}
      BY SlackValues, Zenon DEF Renames
    <2>2. \/ attempts'[o] = attempts[o] /\ Slack(pc[o]) + 1 <= Slack(pc'[o])
          \/ attempts'[o] = attempts[o] + 1 /\ attempts[o] < ReconnectRetries
      BY Zenon DEF Renames, Turns
    <2> QED
      BY <1>3, <1>5, <2>1, <2>2, RetriesAssumption
  <1>7. Named(o)'
    BY <1>6, Zenon DEF Named
  <1>8. Fresh(o)'
    <2>1. \A n \in Names : n > temp'[o] => n > temp[o]
      BY <1>3, <1>5 DEF Names
    <2> QED
      BY <1>1, <2>1, FileFacts, Zenon DEF Fresh
  <1>9. Arranged(o)'
    BY <1>1, FileFacts, Zenon DEF Arranged, Renames
  <1>10. pc[o] \in Quiet
    BY Zenon DEF Renames, Quiet
  <1>11. Checked(o)'
    BY <1>1, <1>10, AtRest, Zenon DEF Checked, Live, Running, Renames
  <1>12. Steady(o)'
    <2>1. Slack(pc'[o]) \in {0, 1, 2}
      BY SlackValues, Zenon
    <2>2. temp'[o] \in Names /\ temp'[o] > temp[o]
      BY <1>3, <1>5, <1>6, <2>1, RetriesAssumption DEF Names
    <2>3. file'[Temp(o)'] = NoFile
      BY <1>1, <2>2, FileFacts, Zenon DEF Fresh, Temp
    <2>4. ~NoFile.dirty /\ ~NoFile.torn
      BY Zenon DEF NoFile
    <2> QED
      BY <2>3, <2>4, Zenon DEF Steady, File
  <1>13. Ready(o)' /\ Kept(o)'
    BY Zenon DEF Ready, Kept, Renames
  <1>14. effect[o] # "applied"
    BY <1>10, AtRest, Zenon
  <1> QED
    BY <1>2, <1>4, <1>7, <1>8, <1>9, <1>11, <1>12, <1>13, <1>14, ClientFile, Zenon DEF Owned

\* o sends a compound, or fails to.
Prepared(o, label, ops, v) ==
  /\ Tidy(ops)
  /\ mode[o] # "delete" =>
       /\ ~Has(ops, "verify") => File(o).size = size[o]
       /\ ~Has(ops, "commit") => Sound(o)
       /\ Has(ops, "commit") /\ ~Has(ops, "write") =>
            /\ File(o).dirty => v = boot
            /\ File(o).torn => 0 <= v /\ v < boot
  /\ label = "publish" =>
       /\ ~Has(ops, "write")
       /\ Has(ops, "commit") \/ Has(ops, "verify") => Has(ops, "close")
       /\ File(o).dirty => unstable[o] = boot
       /\ File(o).torn => 0 <= unstable[o] /\ unstable[o] < boot

LEMMA IssueFile ==
  ASSUME ControlInv, FileInv, NEW o \in Ops, Client(o),
         pc[o] \in {"fuse", "close", "republish", "remove"},
         NEW label \in {"fused", "publish", "removing"}, Slack(pc[o]) <= Slack(label),
         NEW ops, NEW v, Issue(o, label, ops, v), Prepared(o, label, ops, v),
         UNCHANGED <<file, temp, unstable, size, mode, attempts, result>>
  PROVE  FileInv'
  <1>1. UNCHANGED boot /\ pc[o] \in Quiet /\ pc[o] \notin {"idle", "begin", "done"}
    BY Zenon DEF Client, Quiet
  <1>2. effect[o] = "none" /\ result[o] = "none"
    BY <1>1, AtRest, Zenon
  <1>3. FileTypes'
    BY Zenon DEF FileInv, FileTypes
  <1>4. pc'[o] = label /\ \A p \in Ops \ {o} : pc'[p] = pc[p] /\ cmp'[p] = cmp[p]
    BY ControlTypes, Zenon DEF Issue, Goto
  <1>5. \A p \in Ops \ {o} : Same(p)
    BY <1>4, Zenon DEF Same
  <1>6. \/ Len(cmp'[o].ops) = 0
        \/ cmp'[o].ops = ops /\ cmp'[o].next = 1 /\ cmp'[o].write = v
    <2>1. CASE cmp' = [cmp EXCEPT ![o] = [Compound(ops) EXCEPT !.write = v]]
      <3> DEFINE d == [Compound(ops) EXCEPT !.write = v]
      <3>1. d.ops = ops /\ d.next = 1 /\ d.write = v
        BY Zenon DEF Compound, NoCompound
      <3>2. cmp'[o] = d
        BY <2>1, ControlTypes, Zenon
      <3> QED
        BY <3>1, <3>2, Zenon
    <2>2. ASSUME NEW st, cmp' = [cmp EXCEPT ![o] = [NoCompound EXCEPT !.st = st]]
          PROVE  Len(cmp'[o].ops) = 0
      <3> DEFINE d == [NoCompound EXCEPT !.st = st]
      <3>1. Len(d.ops) = 0
        BY Zenon DEF NoCompound
      <3>2. cmp'[o] = d
        BY <2>2, ControlTypes, Zenon
      <3> QED
        BY <3>1, <3>2, Zenon
    <2> QED
      BY <2>1, <2>2, Zenon DEF Issue
  <1>7. Named(o)'
    <2>1. /\ attempts[o] \in Nat /\ attempts[o] <= ReconnectRetries /\ temp[o] \in Nat
          /\ temp[o] <= 2 * attempts[o] + Slack(pc[o])
          /\ mode[o] \in Puts => temp[o] >= 1
      BY <1>1, FileFacts, Zenon DEF Named
    <2>2. Slack(pc[o]) \in {0, 1, 2} /\ Slack(label) \in {0, 1, 2}
      BY SlackValues, Zenon
    <2>3. temp[o] <= 2 * attempts[o] + Slack(label)
      BY <2>1, <2>2
    <2> QED
      BY <1>4, <2>1, <2>3, Zenon DEF Named
  <1>8. Fresh(o)'
    BY FileFacts, Zenon DEF Fresh
  <1>9. Arranged(o)'
    <2>1. CASE Len(cmp'[o].ops) = 0
      BY <2>1, EmptyTidy, Zenon DEF Arranged
    <2>2. CASE cmp'[o].ops = ops
      BY <1>4, <2>2, Zenon DEF Arranged, Prepared
    <2> QED
      BY <1>6, <2>1, <2>2, Zenon
  <1>10. File(o)' = File(o)
    BY Zenon DEF File, Temp
  <1>11. Checked(o)'
    <2> SUFFICES ASSUME mode[o] # "delete", Len(cmp'[o].ops) > 0, Len(cmp'[o].ops) # 0
                 PROVE  Checked(o)'
      <3>1. Len(cmp'[o].ops) > 0 => Len(cmp'[o].ops) # 0
        OBVIOUS
      <3> QED
        BY <3>1, Zenon DEF Checked, Live
    <2>1. cmp'[o].ops = ops /\ cmp'[o].next = 1 /\ cmp'[o].write = v
      BY <1>6, Zenon
    <2>2. \A n : Pending(cmp'[o], n) <=> Has(ops, n)
      BY <2>1, PendingStart, Zenon
    <2> QED
      BY <1>1, <1>10, <2>1, <2>2, Zenon DEF Checked, Prepared, Sound
  <1>12. Steady(o)'
    BY <1>1, <1>4, <1>10, Zenon DEF Steady, Prepared
  <1>13. Ready(o)' /\ Kept(o)'
    BY <1>2, <1>4, Zenon DEF Ready, Kept
  <1> QED
    BY <1>2, <1>3, <1>5, <1>7, <1>8, <1>9, <1>11, <1>12, <1>13, ClientFile, Zenon DEF Owned

\* Answers that publish, or that are taken for a publication.
LEMMA AnswerKeeps ==
  ASSUME ControlInv, FileInv, NEW o \in Ops, pc[o] \in {"fused", "publish"} \cup Failing,
         mode[o] \in Puts, ~Running(o), cmp[o].st # "none", NEW e, e = Decoded(cmp[o])
  PROVE  /\ e = NoError => Sound(o)
         /\ Published(o, e) => Sound(o)
         /\ e.st = "delay" /\ e.op # "none" /\ Ran(cmp[o], "close") => Settled(o)
         /\ e.st = "delay" /\ e.op # "none" /\ pc[o] = "publish" /\ ~Has(cmp[o].ops, "close")
              => Settled(o)
  <1>answerIsSound. ASSUME mode[o] # "delete", Full(cmp[o], mode[o]),
                           Decoded(cmp[o]) # Local("verifier"), ~Pending(cmp[o], "commit")
                    PROVE  Sound(o) /\ (~Pending(cmp[o], "verify") => Settled(o))
    <2> USE <1>answerIsSound
    <2>1. cmp[o] \in Compounds /\ cmp[o].write \in Int /\ cmp[o].commit \in Int /\ Checked(o)
      BY FileFacts, Zenon
    <2>2. Len(cmp[o].ops) > 0
      BY <2>1 DEF Full, Ordered, Compounds
    <2>3. Live(o)
      BY <2>2, Zenon DEF Live
    <2>4. /\ ~File(o).dirty
          /\ File(o).torn => 0 <= cmp[o].write /\ cmp[o].write < cmp[o].commit
          /\ ~Pending(cmp[o], "verify") => File(o).size = size[o]
      BY <2>1, <2>3, Zenon DEF Checked
    <2>5. cmp[o].st \notin {"notsent", "invalid"}
      BY Zenon DEF Full, Statuses
    <2>6. ~(cmp[o].write >= 0 /\ cmp[o].commit >= 0 /\ cmp[o].write # cmp[o].commit)
      BY <2>5, Zenon DEF Decoded
    <2>7. ~(0 <= cmp[o].write /\ cmp[o].write < cmp[o].commit)
      BY <2>1, <2>6
    <2> QED
      BY <2>4, <2>7, Zenon DEF Settled, Sound
  <1>1. cmp[o] \in Compounds /\ Tidy(cmp[o].ops) /\ mode[o] # "delete"
    BY FileFacts, AllowsPut, Zenon DEF Arranged
  <1>2. ASSUME e = NoError PROVE Sound(o)
    <2>1. cmp[o].st = "ok" /\ Full(cmp[o], mode[o])
      BY <1>2, DecodedTrue, Zenon
    <2>2. ~Pending(cmp[o], "commit") /\ e # Local("verifier")
      BY <1>1, <1>2, <2>1, PendingEnd, LocalErrors, Zenon
    <2> QED
      BY <1>1, <2>1, <2>2, <1>answerIsSound, Zenon
  <1>3. ASSUME e.op # "none"
        PROVE  /\ Full(cmp[o], mode[o]) /\ cmp[o].next \in 1 .. Len(cmp[o].ops) /\ e.op = Op(o)
               /\ e # Local("verifier")
    <2>1. /\ Full(cmp[o], mode[o]) /\ cmp[o].next \in 1 .. Len(cmp[o].ops)
          /\ e = [op |-> Op(o), st |-> cmp[o].st]
      BY <1>3, DecodedTrue, Zenon
    <2>2. e.op = Op(o)
      BY <2>1
    <2> QED
      BY <1>3, <2>1, <2>2, LocalErrors, Zenon
  <1>4. ASSUME Published(o, e) PROVE Sound(o)
    <2>1. e.op = "remove" /\ e.op # "none"
      BY <1>4, Zenon DEF Published
    <2>2. Rank(cmp[o].ops[cmp[o].next]) = 7
      BY <1>3, <2>1, RankValues, Zenon DEF Op
    <2>3. Rank(cmp[o].ops[cmp[o].next]) \in 4 .. 7
      BY <2>2
    <2>4. ~Pending(cmp[o], "commit")
      BY <1>1, <1>3, <2>1, <2>3, PendingAt, Zenon
    <2> QED
      BY <1>1, <1>3, <2>1, <2>4, <1>answerIsSound, Zenon
  <1>5. ASSUME e.op # "none", Ran(cmp[o], "close") PROVE Settled(o)
    <2>1. ~Pending(cmp[o], "commit") /\ ~Pending(cmp[o], "verify")
      BY <1>1, <1>3, <1>5, PendingEnd, Zenon
    <2> QED
      BY <1>1, <1>3, <1>5, <2>1, <1>answerIsSound, Zenon
  <1>6. ASSUME e.op # "none", pc[o] = "publish", ~Has(cmp[o].ops, "close") PROVE Settled(o)
    <2>1. ~Has(cmp[o].ops, "commit") /\ ~Has(cmp[o].ops, "verify")
      BY <1>6, FileFacts, Zenon DEF Arranged
    <2>2. \A n : Pending(cmp[o], n) => Has(cmp[o].ops, n)
      <3>1. cmp[o].next \in Nat /\ cmp[o].next >= 1 /\ Len(cmp[o].ops) \in Nat
        BY <1>1, <1>3, <1>6 DEF Compounds
      <3> QED
        BY <3>1 DEF Pending, Has
    <2>3. ~Pending(cmp[o], "commit") /\ ~Pending(cmp[o], "verify")
      BY <2>1, <2>2, Zenon
    <2> QED
      BY <1>1, <1>3, <1>6, <2>3, <1>answerIsSound, Zenon
  <1> QED
    BY <1>2, <1>4, <1>5, <1>6, Zenon

LEMMA FinishTurns ==
  ASSUME ControlInv, FileInv, NEW o \in Ops, NEW r, Finish(o, r), UNCHANGED unstable
  PROVE  Turns(o) /\ pc'[o] = "done" /\ result'[o] = r /\ attempts'[o] = attempts[o]
  <1>1. "done" \in Labels
    BY LabelKinds, Zenon
  <1>2. attempts \in [Ops -> Nat]
    BY Zenon DEF FileInv, FileTypes
  <1> QED
    BY <1>1, <1>2, ControlTypes, Zenon DEF Finish, Turns, Goto

LEMMA GotoTurns ==
  ASSUME ControlInv, FileInv, NEW o \in Ops, NEW label \in Labels, Goto(o, label),
         UNCHANGED <<attempts, result>>, \A p \in Ops \ {o} : unstable'[p] = unstable[p]
  PROVE  Turns(o) /\ pc'[o] = label /\ result'[o] = result[o] /\ attempts'[o] = attempts[o]
  <1>1. attempts \in [Ops -> Nat]
    BY Zenon DEF FileInv, FileTypes
  <1> QED
    BY <1>1, ControlTypes, Zenon DEF Turns, Goto

LEMMA FailTurns ==
  ASSUME ControlInv, FileInv, NEW o \in Ops, NEW e, Fail(o, e), UNCHANGED unstable
  PROVE  /\ Turns(o) /\ result'[o] \in {"error", result[o]}
         /\ \/ pc'[o] = "done" /\ attempts'[o] = attempts[o]
            \/ pc'[o] = "reconnect" /\ attempts'[o] # attempts[o]
  <1>1. attempts \in [Ops -> Nat] /\ attempts[o] \in Nat
    BY FileFacts, Zenon DEF FileTypes
  <1>2. CASE /\ attempts[o] < ReconnectRetries /\ attempts' = [attempts EXCEPT ![o] = @ + 1]
             /\ Goto(o, "reconnect") /\ UNCHANGED result
    <2>1. attempts[o] + 1 \in Nat /\ attempts[o] + 1 # attempts[o]
      BY <1>1
    <2>2. /\ attempts' \in [Ops -> Nat] /\ attempts'[o] = attempts[o] + 1
          /\ \A p \in Ops \ {o} : attempts'[p] = attempts[p]
      BY <1>1, <1>2, <2>1, Zenon
    <2>3. "reconnect" \in Labels /\ pc'[o] = "reconnect"
      BY <1>2, ControlTypes, Zenon DEF Labels, Quiet, Goto
    <2> QED
      BY <1>2, <2>1, <2>2, <2>3, Zenon DEF Turns
  <1>3. CASE Finish(o, "error")
    BY <1>3, FinishTurns, Zenon
  <1> QED
    BY <1>2, <1>3, Zenon DEF Fail

LEMMA FinishGlides ==
  ASSUME ControlInv, FileInv, NEW o \in Ops, NEW r, Finish(o, r),
         r = "ok" /\ mode[o] # "delete" => Sound(o),
         UNCHANGED <<file, cmp, temp, size, mode, unstable>>
  PROVE  Glides(o)
  <1>1. Turns(o) /\ pc'[o] = "done" /\ result'[o] = r
    BY FinishTurns, Zenon
  <1>2. Slack(pc[o]) <= Slack("done")
    <2>1. Slack(pc[o]) \in {0, 1, 2} /\ Slack("done") = 2
      BY SlackValues, Zenon
    <2> QED
      BY <2>1
  <1> QED
    BY <1>1, <1>2, Zenon DEF Glides, Failing

LEMMA FailGlides ==
  ASSUME ControlInv, FileInv, NEW o \in Ops, NEW e, Fail(o, e), result[o] = "none",
         pc[o] \notin {"idle", "begin", "done"},
         UNCHANGED <<file, cmp, temp, size, mode, unstable>>
  PROVE  Glides(o)
  <1>1. /\ Turns(o) /\ result'[o] \in {"error", "none"}
        /\ \/ pc'[o] = "done" /\ attempts'[o] = attempts[o]
           \/ pc'[o] = "reconnect" /\ attempts'[o] # attempts[o]
    BY FailTurns, Zenon
  <1>2. Slack(pc[o]) <= Slack("done")
    <2>1. Slack(pc[o]) \in {0, 1, 2} /\ Slack("done") = 2
      BY SlackValues, Zenon
    <2> QED
      BY <2>1
  <1> QED
    BY <1>1, <1>2, Zenon DEF Glides, Failing

LEMMA GotoGlides ==
  ASSUME ControlInv, FileInv, NEW o \in Ops, NEW label \in Labels, Goto(o, label),
         Slack(pc[o]) <= Slack(label), result[o] = "none",
         pc[o] \notin {"idle", "begin", "done"} \/ mode[o] = "delete"
           \/ label \in {"begin", "done"},
         label \notin {"fused", "publish", "write"},
         label \in Failing => pc[o] \in {"fused", "publish"},
         label = "close" => pc[o] = "publish" /\ unstable'[o] = unstable[o],
         label = "republish" => Settled(o),
         UNCHANGED <<file, cmp, temp, size, mode, attempts, result>>,
         \A p \in Ops \ {o} : unstable'[p] = unstable[p]
  PROVE  Glides(o)
  <1>1. Turns(o) /\ pc'[o] = label /\ result'[o] = "none"
    BY GotoTurns, Zenon
  <1> QED
    BY <1>1, Zenon DEF Glides

-----------------------------------------------------------------------------
(* The client's actions *)

\* The chunks that are left to write are numbers.
TodoInv == todo \in [Ops -> SUBSET Int]

LEMMA FileStep ==
  ASSUME ControlInv, FileInv, TodoInv, NEW o \in Ops, Client(o), Moves(o), Step(o) \/ Cancel(o)
  PROVE  FileInv'
  <1>startFile. ASSUME Start(o) PROVE FileInv'
    <2> USE <1>startFile
    <2>1. Client(o) /\ UNCHANGED <<file, cmp, temp, attempts, result, unstable, boot>>
      BY Zenon DEF Start, serverVars, callVars
    <2>2. pc[o] = "idle" /\ Goto(o, "begin")
      BY Zenon DEF Start
    <2>3. PICK m \in Modes, n \in Sizes :
            mode' = [mode EXCEPT ![o] = m] /\ size' = [size EXCEPT ![o] = IF m = "delete" THEN 0 ELSE n]
      BY Zenon DEF Start
    <2>4. size \in [Ops -> Nat]
      BY Zenon DEF FileInv, FileTypes
    <2>5. (IF m = "delete" THEN 0 ELSE n) \in Nat
      BY SizesAssumption, Zenon
    <2>6. size' \in [Ops -> Nat] /\ \A p \in Ops \ {o} : size'[p] = size[p] /\ mode'[p] = mode[p]
      BY <2>3, <2>4, <2>5, ControlTypes, Zenon
    <2>7. FileTypes'
      BY <2>1, <2>6, Zenon DEF FileInv, FileTypes
    <2>8. pc'[o] = "begin" /\ \A p \in Ops \ {o} : pc'[p] = pc[p]
      BY <2>2, ControlTypes, Zenon DEF Goto
    <2>9. \A p \in Ops \ {o} : Same(p)
      BY <2>1, <2>6, <2>8, Zenon DEF Same
    <2>10. Len(cmp[o].ops) = 0 /\ effect[o] = "none" /\ result[o] = "none"
      BY <2>2, ControlTypes, Zenon DEF Place, Blank, Told
    <2>11. ~(Len(cmp[o].ops) > 0)
      BY <2>10
    <2>12. Named(o)'
      <3>1. Slack(pc[o]) = Slack("begin")
        BY <2>2, SlackValues, Zenon
      <3> QED
        BY <2>1, <2>8, <2>11, <3>1, FileFacts, Zenon DEF Named
    <2>13. Fresh(o)' /\ Arranged(o)'
      BY <2>1, <2>8, FileFacts, Zenon DEF Fresh, Arranged
    <2>14. Checked(o)' /\ Steady(o)' /\ Ready(o)' /\ Kept(o)'
      BY <2>1, <2>8, <2>10, <2>11, Zenon DEF Checked, Live, Steady, Ready, Kept
    <2> QED
      BY <2>1, <2>7, <2>9, <2>10, <2>12, <2>13, <2>14, ClientFile, Zenon DEF Owned
  <1>beginFile. ASSUME Begin(o) PROVE FileInv'
    <2> USE <1>beginFile
    <2>1. /\ Client(o) /\ UNCHANGED <<file, cmp, size, mode, attempts, result>> /\ pc[o] = "begin"
          /\ unstable' = [unstable EXCEPT ![o] = -1]
      BY Zenon DEF Begin, serverVars
    <2>2. \A p \in Ops \ {o} : unstable'[p] = unstable[p]
      BY <2>1, ControlTypes, Zenon
    <2>3. pc[o] \in Quiet /\ result[o] = "none"
      <3>1. pc[o] \in Quiet
        BY <2>1, Zenon DEF Quiet
      <3> QED
        BY <3>1, AtRest, Zenon
    <2>4. "fuse" \in Labels /\ "remove" \in Labels
      BY Zenon DEF Labels, Quiet
    <2>5. CASE mode[o] = "delete"
      <3>1. Goto(o, "remove") /\ UNCHANGED temp
        BY <2>5, Zenon DEF Begin
      <3>2. Slack(pc[o]) <= Slack("remove")
        <4>1. Slack(pc[o]) = 0 /\ Slack("remove") = 2
          BY <2>1, SlackValues, Zenon
        <4> QED
          BY <4>1
      <3>3. Glides(o)
        BY <2>1, <2>2, <2>3, <2>4, <2>5, <3>1, <3>2, GotoGlides, Zenon DEF Failing
      <3> QED
        BY <2>1, <3>3, GlidesFile, Zenon
    <2>6. CASE mode[o] # "delete"
      <3>1. Goto(o, "fuse") /\ NewTemp(o)
        BY <2>6, Zenon DEF Begin
      <3>2. Slack(pc[o]) + 1 <= Slack("fuse")
        <4>1. Slack(pc[o]) = 0 /\ Slack("fuse") = 1
          BY <2>1, SlackValues, Zenon
        <4> QED
          BY <4>1
      <3>3. Turns(o) /\ pc'[o] = "fuse" /\ result'[o] = "none"
        BY <2>1, <2>2, <2>3, <2>4, <3>1, GotoTurns, Zenon
      <3>4. Renames(o)
        BY <2>1, <3>1, <3>2, <3>3, Zenon DEF Renames, Failing
      <3> QED
        BY <2>1, <3>4, RenamesFile, Zenon
    <2> QED
      BY <2>5, <2>6, Zenon
  <1>fuseFile. ASSUME Fuse(o) PROVE FileInv'
    <2> USE <1>fuseFile
    <2>1. /\ Client(o) /\ pc[o] = "fuse"
          /\ UNCHANGED <<file, temp, unstable, size, mode, attempts, result>>
      BY Zenon DEF Fuse, serverVars
    <2>2. CASE Issue(o, "fused", FusedOps(o), -1)
      <3>1. Prepared(o, "fused", FusedOps(o), -1)
        BY FusedTidy, Zenon DEF Prepared
      <3>2. Slack(pc[o]) <= Slack("fused")
        <4>1. Slack(pc[o]) = 1 /\ Slack("fused") = 1
          BY <2>1, SlackValues, Zenon
        <4> QED
          BY <4>1
      <3> QED
        BY <2>1, <2>2, <3>1, <3>2, IssueFile, Zenon
    <2>3. CASE Goto(o, "open") /\ UNCHANGED cmp
      <3>1. Slack(pc[o]) <= Slack("open")
        <4>1. Slack(pc[o]) = 1 /\ Slack("open") = 1
          BY <2>1, SlackValues, Zenon
        <4> QED
          BY <4>1
      <3>2. "open" \in Labels /\ pc[o] \in Quiet
        BY <2>1, Zenon DEF Labels, Quiet
      <3>3. result[o] = "none"
        BY <3>2, AtRest, Zenon
      <3>4. Glides(o)
        BY <2>1, <2>3, <3>1, <3>2, <3>3, GotoGlides, Zenon DEF Failing
      <3> QED
        BY <2>1, <3>4, GlidesFile, Zenon
    <2> QED
      BY <2>2, <2>3, Zenon DEF Fuse
  <1>fusedReturnsFile. ASSUME FusedReturns(o) PROVE FileInv'
    <2> USE <1>fusedReturnsFile
    <2>1. /\ Client(o) /\ pc[o] = "fused"
          /\ UNCHANGED <<file, temp, unstable, size, mode, cmp>>
      <3>1. UNCHANGED cmp
        BY Zenon DEF FusedReturns
      <3> QED
        BY <3>1, Zenon DEF FusedReturns, serverVars
    <2>2. pc[o] \in Waiting /\ result[o] = "none" /\ mode[o] \in Puts /\ cmp[o].st # "none"
      <3>1. pc[o] \in Waiting
        BY <2>1, Zenon DEF Waiting
      <3> QED
        BY <2>1, <3>1, AtWait, Zenon
    <2> SUFFICES Glides(o)
      BY <2>1, GlidesFile, Zenon
    <2>3. ASSUME NEW e, Returns(o, e), e = NoError, Finish(o, "ok") PROVE Glides(o)
      <3>1. ~Running(o) /\ e = Decoded(cmp[o])
        BY <2>2, <2>3, ReturnsTold, Zenon
      <3>2. Sound(o)
        BY <2>1, <2>2, <2>3, <3>1, AnswerKeeps, Zenon
      <3> QED
        BY <2>1, <2>3, <3>2, FinishGlides, Zenon
    <2>4. ASSUME NEW label \in {"fuse", "open", "fused_failed"}, Goto(o, label),
                 UNCHANGED <<result, attempts>>
          PROVE  Glides(o)
      <3>1. label \in Labels /\ label \notin {"fused", "publish", "write", "close", "republish"}
        BY Zenon DEF Labels, Quiet, Failing
      <3>2. Slack(pc[o]) <= Slack(label)
        <4>1. Slack(pc[o]) = 1 /\ Slack(label) = 1
          BY <2>1, SlackValues, Zenon
        <4> QED
          BY <4>1
      <3> QED
        BY <2>1, <2>2, <2>4, <3>1, <3>2, GotoGlides, Zenon
    <2> QED
      BY <2>3, <2>4, Zenon DEF FusedReturns
  <1>failedFile. ASSUME FusedFailed(o) \/ PublishFailed(o) PROVE FileInv'
    <2> USE <1>failedFile
    <2>1. /\ Client(o) /\ pc[o] \in Failing /\ pc[o] \in {"fused_failed", "publish_failed"}
          /\ UNCHANGED <<file, temp, unstable, size, mode, cmp>>
      BY Zenon DEF FusedFailed, PublishFailed, callVars, Failing
    <2>2. /\ result[o] = "none" /\ mode[o] \in Puts /\ cmp[o].st # "none"
          /\ err[o] \in CallErrors \/ (~Running(o) /\ err[o] = Decoded(cmp[o]))
      BY <2>1, AtFailing, Zenon
    <2> SUFFICES Glides(o)
      BY <2>1, GlidesFile, Zenon
    <2>3. ASSUME Conclude(o, err[o]) PROVE Glides(o)
      <3>1. Published(o, err[o]) => Sound(o)
        <4>1. err[o] \in CallErrors => err[o].op = "none"
          BY LocalErrors, Zenon DEF CallErrors
        <4>2. Published(o, err[o]) => err[o].op = "remove"
          BY Zenon DEF Published
        <4>3. Published(o, err[o]) => ~Running(o) /\ err[o] = Decoded(cmp[o])
          BY <2>2, <4>1, <4>2, Zenon
        <4> QED
          BY <2>1, <2>2, <4>3, AnswerKeeps, Zenon
      <3>2. CASE Published(o, err[o])
        <4>1. Finish(o, "ok")
          BY <2>3, <3>2, Zenon DEF Conclude
        <4> QED
          BY <2>1, <3>1, <3>2, <4>1, FinishGlides, Zenon
      <3>3. CASE ~Published(o, err[o])
        <4>1. Finish(o, "exists") \/ Finish(o, "unknown")
          BY <2>3, <3>3, Zenon DEF Conclude
        <4>2. "exists" # "ok" /\ "unknown" # "ok"
          BY Zenon
        <4> QED
          BY <2>1, <4>1, <4>2, FinishGlides, Zenon
      <3> QED
        BY <3>2, <3>3, Zenon
    <2>4. ASSUME Fail(o, err[o]) PROVE Glides(o)
      BY <2>1, <2>2, <2>4, FailGlides, Zenon
    <2>5. ASSUME Goto(o, "open"), UNCHANGED <<result, attempts>>,
                 pc[o] = "fused_failed" PROVE Glides(o)
      <3>1. Slack(pc[o]) <= Slack("open")
        <4>1. Slack(pc[o]) = 1 /\ Slack("open") = 1
          BY <2>5, SlackValues, Zenon
        <4> QED
          BY <4>1
      <3>2. "open" \in Labels
        BY Zenon DEF Labels, Quiet
      <3> QED
        BY <2>1, <2>2, <2>5, <3>1, <3>2, GotoGlides, Zenon DEF Failing
    <2> QED
      BY <2>3, <2>4, <2>5, Zenon DEF FusedFailed, PublishFailed
  <1>openTempFile. ASSUME OpenTemp(o) PROVE FileInv'
    <2> USE <1>openTempFile
    <2>1. /\ Client(o) /\ pc[o] \in {"open", "reopen"} /\ pc[o] \in Quiet
          /\ UNCHANGED <<file, unstable, size, mode, cmp>>
      BY Zenon DEF OpenTemp, Quiet
    <2>2. result[o] = "none" /\ Slack(pc[o]) = 1
      BY <2>1, AtRest, SlackValues, Zenon
    <2>3. ASSUME NewTemp(o), Goto(o, "write"), UNCHANGED <<result, attempts>> PROVE FileInv'
      <3>1. Turns(o) /\ pc'[o] = "write" /\ result'[o] = "none"
        <4>1. "write" \in Labels
          BY Zenon DEF Labels, Quiet
        <4> QED
          BY <2>1, <2>2, <2>3, <4>1, GotoTurns, Zenon
      <3>2. Slack(pc[o]) + 1 <= Slack("write")
        <4>1. Slack("write") = 2
          BY SlackValues, Zenon
        <4> QED
          BY <2>2, <4>1
      <3>3. Renames(o)
        BY <2>1, <2>3, <3>1, <3>2, Zenon DEF Renames, Failing
      <3> QED
        BY <2>1, <3>3, RenamesFile, Zenon
    <2>4. ASSUME NEW label \in {"mkdir", pc[o]}, Goto(o, label),
                 UNCHANGED <<temp, result, attempts>>
          PROVE  FileInv'
      <3>1. label \in Labels /\ label \in {"open", "reopen", "mkdir"}
        BY <2>1, Zenon DEF Labels, Quiet
      <3>2. Slack(pc[o]) <= Slack(label)
        <4>1. Slack(label) = 1
          BY <3>1, SlackValues, Zenon
        <4> QED
          BY <2>2, <4>1
      <3>3. Glides(o)
        BY <2>1, <2>2, <2>4, <3>1, <3>2, GotoGlides, Zenon DEF Failing
      <3> QED
        BY <2>1, <3>3, GlidesFile, Zenon
    <2>5. ASSUME NEW e, Fail(o, e), NewTemp(o) PROVE FileInv'
      <3>1. /\ Turns(o) /\ result'[o] \in {"error", "none"}
            /\ \/ pc'[o] = "done" /\ attempts'[o] = attempts[o]
               \/ pc'[o] = "reconnect" /\ attempts'[o] # attempts[o]
        BY <2>1, <2>2, <2>5, FailTurns, Zenon
      <3>2. Slack(pc[o]) + 1 <= Slack("done")
        <4>1. Slack("done") = 2
          BY SlackValues, Zenon
        <4> QED
          BY <2>2, <4>1
      <3>3. Renames(o)
        BY <2>1, <2>5, <3>1, <3>2, Zenon DEF Renames, Failing
      <3> QED
        BY <2>1, <3>3, RenamesFile, Zenon
    <2>6. UNCHANGED pc => Goto(o, pc[o])
      BY ControlTypes, Zenon DEF Goto
    <2> QED
      BY <2>3, <2>4, <2>5, <2>6, Zenon DEF OpenTemp
  <1>createParentDirsFile. ASSUME CreateParentDirs(o) PROVE FileInv'
    <2> USE <1>createParentDirsFile
    <2>1. /\ Client(o) /\ pc[o] = "mkdir" /\ pc[o] \in Quiet
          /\ UNCHANGED <<file, temp, unstable, size, mode, cmp>>
      BY Zenon DEF CreateParentDirs, Quiet
    <2>2. result[o] = "none"
      BY <2>1, AtRest, Zenon
    <2>3. CASE Goto(o, "reopen") /\ UNCHANGED <<result, attempts>>
      <3>1. Slack(pc[o]) <= Slack("reopen")
        <4>1. Slack(pc[o]) = 1 /\ Slack("reopen") = 1
          BY <2>1, SlackValues, Zenon
        <4> QED
          BY <4>1
      <3>2. "reopen" \in Labels
        BY Zenon DEF Labels, Quiet
      <3>3. Glides(o)
        BY <2>1, <2>2, <2>3, <3>1, <3>2, GotoGlides, Zenon DEF Failing
      <3> QED
        BY <2>1, <3>3, GlidesFile, Zenon
    <2>4. CASE \E e \in CallErrors : Fail(o, e)
      BY <2>1, <2>2, <2>4, FailGlides, GlidesFile, Zenon
    <2> QED
      BY <2>3, <2>4, Zenon DEF CreateParentDirs
  <1>writeChunkFile. ASSUME WriteChunk(o) PROVE FileInv'
    <2> USE <1>writeChunkFile
    <2>1. /\ Client(o) /\ pc[o] = "write" /\ pc[o] \in Quiet
          /\ UNCHANGED <<temp, size, mode, cmp, attempts, result, boot>>
      BY Zenon DEF WriteChunk, Quiet
    <2>2. result[o] = "none" /\ effect[o] = "none" /\ ~Running(o)
      BY <2>1, AtRest, Zenon
    <2>3. Temp(o) \in Temps
      BY <2>1, WhenUsed, Zenon
    <2>4. file \in [Temps -> FileRec] /\ File(o) \in FileRec
      BY <2>3, Zenon DEF FileInv, FileTypes, FileRec, File
    <2>5. PICK k \in todo[o], dirty \in BOOLEAN :
            /\ file' = [file EXCEPT ![Temp(o)].size = IF k > @ THEN k ELSE @,
                                    ![Temp(o)].dirty = @ \/ dirty]
            /\ unstable' = [unstable EXCEPT ![o] = IF dirty THEN boot ELSE @]
            /\ \/ /\ dirty => SameVerifier(o)
                  /\ Goto(o, "close") \/ Goto(o, "write")
               \/ Goto(o, "write_failed")
      BY Zenon DEF WriteChunk
    <2>6. k \in Int
      BY Zenon DEF TodoInv
    <2> DEFINE n == IF k > File(o).size THEN k ELSE File(o).size
               f == [[File(o) EXCEPT !.size = n] EXCEPT !.dirty = @ \/ dirty]
    <2>7. f \in FileRec /\ f.torn = File(o).torn /\ (f.dirty <=> File(o).dirty \/ dirty)
      <3>1. n \in Int
        BY <2>4, <2>6, Zenon DEF FileRec
      <3> HIDE DEF n
      <3> QED
        BY <2>4, <3>1, Zenon DEF FileRec
    <2>8. file' = [file EXCEPT ![Temp(o)] = f]
      BY <2>3, <2>4, <2>5, Zenon DEF File, FileRec
    <2> HIDE DEF n, f
    <2>9. Touches(o, f)
      BY <2>7, <2>8, Zenon DEF Touches
    <2>10. /\ file' \in [Temps -> FileRec] /\ File(o)' = f
           /\ \A p \in Ops \ {o} : \A i \in Names : file'[<<p, i>>] = file[<<p, i>>]
           /\ \A i \in Names : i # temp[o] => file'[<<o, i>>] = file[<<o, i>>]
      BY <2>1, <2>3, <2>9, TouchFrame, Zenon
    <2>11. FileTypes'
      BY <2>1, <2>10, Zenon DEF FileInv, FileTypes, FileRec
    <2>12. /\ unstable'[o] = (IF dirty THEN boot ELSE unstable[o])
           /\ \A p \in Ops \ {o} : unstable'[p] = unstable[p] /\ pc'[p] = pc[p]
           /\ \/ (dirty => SameVerifier(o)) /\ pc'[o] \in {"close", "write"}
              \/ pc'[o] = "write_failed"
      BY <2>5, ControlTypes, Zenon DEF Goto
    <2>13. \A p \in Ops \ {o} : Same(p)
      BY <2>1, <2>10, <2>12, Zenon DEF Same
    <2>14. Named(o)'
      <3>1. Slack(pc'[o]) = 2 /\ Slack(pc[o]) = 2
        BY <2>1, <2>12, SlackValues, Zenon
      <3> QED
        BY <2>1, <3>1, FileFacts, Zenon DEF Named
    <2>15. Fresh(o)'
      <3>1. temp[o] \in Nat
        BY FileFacts, Zenon
      <3>2. \A i \in Names : i > temp[o] => i # temp[o]
        BY <3>1 DEF Names
      <3> QED
        BY <2>1, <2>10, <3>2, FileFacts, Zenon DEF Fresh
    <2>16. Arranged(o)' /\ Checked(o)' /\ Ready(o)' /\ Kept(o)'
      BY <2>1, <2>2, <2>12, FileFacts, Zenon
         DEF Arranged, Checked, Live, Running, Failing, Ready, Kept
    <2>17. Steady(o)'
      <3> SUFFICES ASSUME dirty => SameVerifier(o)
                   PROVE  /\ f.dirty => unstable'[o] = boot
                          /\ f.torn => 0 <= unstable'[o] /\ unstable'[o] < boot
        BY <2>1, <2>10, <2>12, Zenon DEF Steady
      <3>1. /\ File(o).dirty => unstable[o] = boot
            /\ File(o).torn => 0 <= unstable[o] /\ unstable[o] < boot
        BY <2>1, FileFacts, Zenon DEF Steady
      <3>2. CASE ~dirty
        BY <2>7, <2>12, <3>1, <3>2, Zenon
      <3>3. CASE dirty
        <4>1. unstable[o] \in {-1, boot} /\ unstable'[o] = boot
          BY <2>12, <3>3, Zenon DEF SameVerifier
        <4>2. boot \in Nat
          BY FileFacts, Zenon
        <4>3. ~(0 <= unstable[o] /\ unstable[o] < boot)
          BY <4>1, <4>2
        <4> QED
          BY <2>7, <3>1, <4>1, <4>3, Zenon
      <3> QED
        BY <3>2, <3>3, Zenon
    <2> QED
      BY <2>1, <2>2, <2>11, <2>13, <2>14, <2>15, <2>16, <2>17, ClientFile, Zenon DEF Owned
  <1>writeEndsFile. ASSUME WriteFails(o) \/ WriteFailed(o) PROVE FileInv'
    <2> USE <1>writeEndsFile
    <2>1. /\ Client(o) /\ pc[o] \in {"write", "write_failed"} /\ pc[o] \in Quiet
          /\ UNCHANGED <<file, temp, unstable, size, mode, cmp>>
      BY Zenon DEF WriteFails, WriteFailed, Quiet, serverVars, callVars
    <2>2. result[o] = "none"
      BY <2>1, AtRest, Zenon
    <2>3. CASE Goto(o, "write_failed") /\ UNCHANGED <<result, attempts>>
      <3>1. Slack(pc[o]) <= Slack("write_failed")
        <4>1. Slack(pc[o]) = 2 /\ Slack("write_failed") = 2
          BY <2>1, SlackValues, Zenon
        <4> QED
          BY <4>1
      <3>2. "write_failed" \in Labels
        BY Zenon DEF Labels, Quiet
      <3>3. Glides(o)
        BY <2>1, <2>2, <2>3, <3>1, <3>2, GotoGlides, Zenon DEF Failing
      <3> QED
        BY <2>1, <3>3, GlidesFile, Zenon
    <2>4. CASE \E e : Fail(o, e)
      BY <2>1, <2>2, <2>4, FailGlides, GlidesFile, Zenon
    <2> QED
      BY <2>3, <2>4, Zenon DEF WriteFails, WriteFailed
  <1>issuesFile. ASSUME ClosePublish(o) \/ PublishAfterClose(o) \/ Remove(o)
                 PROVE  FileInv'
    <2> USE <1>issuesFile
    <2>1. /\ Client(o) /\ UNCHANGED <<file, temp, unstable, size, mode, attempts, result>>
          /\ pc[o] \in {"close", "republish", "remove"}
      BY Zenon DEF ClosePublish, PublishAfterClose, Remove, serverVars, callVars
    <2>2. Slack(pc[o]) <= Slack("publish") /\ Slack(pc[o]) <= Slack("removing")
      <3>1. Slack(pc[o]) = 2 /\ Slack("publish") = 2 /\ Slack("removing") = 2
        BY <2>1, SlackValues, Zenon
      <3> QED
        BY <3>1
    <2>3. CASE ClosePublish(o)
      <3>1. pc[o] = "close" /\ Issue(o, "publish", CloseOps(o), unstable[o])
        BY <2>3, Zenon DEF ClosePublish
      <3>2. /\ File(o).dirty => unstable[o] = boot
            /\ File(o).torn => 0 <= unstable[o] /\ unstable[o] < boot
            /\ unstable[o] \in Int /\ boot \in Nat
        BY <3>1, FileFacts, Zenon DEF Steady
      <3>3. ~(unstable[o] >= 0) => Sound(o)
        BY <3>2 DEF Sound
      <3>4. Prepared(o, "publish", CloseOps(o), unstable[o])
        BY <3>2, <3>3, CloseTidy, Zenon DEF Prepared
      <3> QED
        BY <2>1, <2>2, <3>1, <3>4, IssueFile, Zenon
    <2>4. CASE PublishAfterClose(o)
      <3>1. pc[o] = "republish" /\ Issue(o, "publish", AfterCloseOps(o), -1)
        BY <2>4, Zenon DEF PublishAfterClose
      <3>2. Settled(o)
        BY <3>1, FileFacts, Zenon DEF Ready
      <3>3. /\ Tidy(AfterCloseOps(o)) /\ ~Has(AfterCloseOps(o), "write")
            /\ ~Has(AfterCloseOps(o), "commit") /\ ~Has(AfterCloseOps(o), "verify")
        BY AfterCloseTidy, Zenon DEF Prepares
      <3>4. Prepared(o, "publish", AfterCloseOps(o), -1)
        BY <3>2, <3>3, Zenon DEF Prepared, Settled, Sound
      <3> QED
        BY <2>1, <2>2, <3>1, <3>4, IssueFile, Zenon
    <2>5. CASE Remove(o)
      <3>1. pc[o] = "remove" /\ Issue(o, "removing", RemoveOps, -1)
        BY <2>5, Zenon DEF Remove
      <3>2. mode[o] = "delete"
        BY <3>1, ControlTypes, Zenon DEF Place, Allows
      <3>3. Prepared(o, "removing", RemoveOps, -1)
        BY <3>2, RemoveTidy, Zenon DEF Prepared
      <3> QED
        BY <2>1, <2>2, <3>1, <3>3, IssueFile, Zenon
    <2> QED
      BY <2>3, <2>4, <2>5, Zenon
  <1>publishReturnsFile. ASSUME PublishReturns(o) PROVE FileInv'
    <2> USE <1>publishReturnsFile
    <2>1. /\ Client(o) /\ pc[o] = "publish"
          /\ UNCHANGED <<file, temp, unstable, size, mode, cmp>>
      BY Zenon DEF PublishReturns, serverVars
    <2>2. pc[o] \in Waiting /\ result[o] = "none" /\ mode[o] \in Puts /\ cmp[o].st # "none"
      <3>1. pc[o] \in Waiting
        BY <2>1, Zenon DEF Waiting
      <3> QED
        BY <2>1, <3>1, AtWait, Zenon
    <2> SUFFICES Glides(o)
      BY <2>1, GlidesFile, Zenon
    <2>3. ASSUME NEW e, Returns(o, e), e = NoError, Finish(o, "ok") PROVE Glides(o)
      <3>1. ~Running(o) /\ e = Decoded(cmp[o])
        BY <2>2, <2>3, ReturnsTold, Zenon
      <3>2. Sound(o)
        BY <2>1, <2>2, <2>3, <3>1, AnswerKeeps, Zenon
      <3> QED
        BY <2>1, <2>3, <3>2, FinishGlides, Zenon
    <2>4. ASSUME NEW label \in {"close", "republish", "publish_failed"}, Goto(o, label),
                 label = "republish" => Settled(o), UNCHANGED <<result, attempts>>
          PROVE  Glides(o)
      <3>1. label \in Labels /\ label \notin {"fused", "publish", "write"}
        BY Zenon DEF Labels, Quiet, Failing
      <3>2. Slack(pc[o]) <= Slack(label)
        <4>1. Slack(pc[o]) = 2 /\ Slack(label) = 2
          BY <2>1, SlackValues, Zenon
        <4> QED
          BY <4>1
      <3>3. unstable'[o] = unstable[o] /\ \A p \in Ops \ {o} : unstable'[p] = unstable[p]
        BY <2>1, Zenon
      <3> QED
        BY <2>1, <2>2, <2>4, <3>1, <3>2, <3>3, GotoGlides, Zenon
    <2>5. ASSUME NEW e, Returns(o, e), e.st = "delay"
          PROVE  /\ ~Has(cmp[o].ops, "close") => Settled(o)
                 /\ "close" \in Completed(o, e) => Settled(o)
      <3>1. ~Running(o) /\ e = Decoded(cmp[o])
        BY <2>2, <2>5, ReturnsTold, Zenon
      <3>2. e.op # "none"
        <4>1. e.op = "none" => e \in {NoError, Local("notsent"), Local("invalid"), Local("verifier")}
          BY <2>2, <3>1, DecodedTrue, Zenon
        <4>2. \A d \in {NoError, Local("notsent"), Local("invalid"), Local("verifier")} : d.st # "delay"
          BY LocalErrors, Zenon
        <4> QED
          BY <2>5, <4>1, <4>2, Zenon
      <3>3. "close" \in Completed(o, e) => Ran(cmp[o], "close")
        BY <3>2, Zenon DEF Completed, Ran
      <3> QED
        BY <2>1, <2>2, <2>5, <3>1, <3>2, <3>3, AnswerKeeps, Zenon
    <2>6. (\E i \in DOMAIN cmp[o].ops : cmp[o].ops[i] = "close") <=> Has(cmp[o].ops, "close")
      <3>1. cmp[o].ops \in Seq(OpNames)
        BY ControlTypes, Zenon DEF Compounds
      <3>2. DOMAIN cmp[o].ops = 1 .. Len(cmp[o].ops)
        BY <3>1
      <3> QED
        BY <3>2, Zenon DEF Has
    <2>7. PICK e : /\ Returns(o, e)
                   /\ \/ e = NoError /\ Finish(o, "ok")
                      \/ /\ e.st = "delay"
                         /\ Goto(o, IF \E i \in DOMAIN cmp[o].ops : cmp[o].ops[i] = "close"
                                    THEN "close" ELSE "republish")
                         /\ UNCHANGED <<result, attempts>>
                      \/ /\ e.st = "delay" /\ "close" \in Completed(o, e)
                         /\ Goto(o, "republish") /\ UNCHANGED <<result, attempts>>
                      \/ Goto(o, "publish_failed") /\ UNCHANGED <<result, attempts>>
      BY Zenon DEF PublishReturns, ClaimsRetry
    <2>8. CASE e = NoError /\ Finish(o, "ok")
      BY <2>3, <2>7, <2>8, Zenon
    <2>9. CASE /\ e.st = "delay"
               /\ Goto(o, IF \E i \in DOMAIN cmp[o].ops : cmp[o].ops[i] = "close"
                          THEN "close" ELSE "republish")
               /\ UNCHANGED <<result, attempts>>
      <3>1. CASE Has(cmp[o].ops, "close")
        <4>1. Goto(o, "close")
          BY <2>6, <2>9, <3>1, Zenon
        <4>2. "close" # "republish"
          BY Zenon
        <4> QED
          BY <2>4, <2>9, <4>1, <4>2, Zenon
      <3>2. CASE ~Has(cmp[o].ops, "close")
        <4>1. Goto(o, "republish") /\ Settled(o)
          BY <2>5, <2>6, <2>7, <2>9, <3>2, Zenon
        <4> QED
          BY <2>4, <2>9, <4>1, Zenon
      <3> QED
        BY <3>1, <3>2, Zenon
    <2>10. CASE /\ e.st = "delay" /\ "close" \in Completed(o, e)
                /\ Goto(o, "republish") /\ UNCHANGED <<result, attempts>>
      BY <2>4, <2>5, <2>7, <2>10, Zenon
    <2>11. CASE Goto(o, "publish_failed") /\ UNCHANGED <<result, attempts>>
      <3>1. "publish_failed" # "republish"
        BY Zenon
      <3> QED
        BY <2>4, <2>11, <3>1, Zenon
    <2> QED
      BY <2>7, <2>8, <2>9, <2>10, <2>11, Zenon
  <1>removeReturnsFile. ASSUME RemoveReturns(o) PROVE FileInv'
    <2> USE <1>removeReturnsFile
    <2>1. /\ Client(o) /\ pc[o] = "removing" /\ pc[o] \in Waiting
          /\ UNCHANGED <<file, temp, unstable, size, mode, cmp>>
      BY Zenon DEF RemoveReturns, serverVars, Waiting
    <2>2. result[o] = "none" /\ mode[o] = "delete"
      BY <2>1, AtWait, Zenon
    <2> SUFFICES Glides(o)
      BY <2>1, GlidesFile, Zenon
    <2>3. ASSUME NEW r, Finish(o, r) PROVE Glides(o)
      BY <2>1, <2>2, <2>3, FinishGlides, Zenon
    <2>4. ASSUME NEW e, Fail(o, e) PROVE Glides(o)
      BY <2>1, <2>2, <2>4, FailGlides, Zenon
    <2>5. ASSUME Goto(o, "remove"), UNCHANGED <<result, attempts>> PROVE Glides(o)
      <3>1. "remove" \in Labels
        BY Zenon DEF Labels, Quiet
      <3>2. Slack(pc[o]) <= Slack("remove")
        <4>1. Slack(pc[o]) = 2 /\ Slack("remove") = 2
          BY <2>1, SlackValues, Zenon
        <4> QED
          BY <4>1
      <3> QED
        BY <2>1, <2>2, <2>5, <3>1, <3>2, GotoGlides, Zenon DEF Failing
    <2> QED
      BY <2>3, <2>4, <2>5, Zenon DEF RemoveReturns
  <1>reconnectsFile. ASSUME Reconnects(o) PROVE FileInv'
    <2> USE <1>reconnectsFile
    <2>1. /\ Client(o) /\ pc[o] = "reconnect" /\ pc[o] \in Quiet
          /\ UNCHANGED <<file, temp, unstable, size, mode, cmp>>
      BY Zenon DEF Reconnects, serverVars, callVars, Quiet
    <2>2. result[o] = "none"
      BY <2>1, AtRest, Zenon
    <2> SUFFICES Glides(o)
      BY <2>1, GlidesFile, Zenon
    <2>3. ASSUME Finish(o, "error") PROVE Glides(o)
      <3>1. "error" # "ok"
        BY Zenon
      <3> QED
        BY <2>1, <2>3, <3>1, FinishGlides, Zenon
    <2>4. ASSUME Goto(o, "begin"), UNCHANGED <<result, attempts>> PROVE Glides(o)
      <3>1. "begin" \in Labels
        BY Zenon DEF Labels, Quiet
      <3>2. Slack(pc[o]) <= Slack("begin")
        <4>1. Slack(pc[o]) = 0 /\ Slack("begin") = 0
          BY <2>1, SlackValues, Zenon
        <4> QED
          BY <4>1
      <3> QED
        BY <2>1, <2>2, <2>4, <3>1, <3>2, GotoGlides, Zenon DEF Failing
    <2> QED
      BY <2>3, <2>4, Zenon DEF Reconnects
  <1>cancelFile. ASSUME Cancel(o) PROVE FileInv'
    <2> USE <1>cancelFile
    <2>1. /\ Client(o) /\ pc[o] # "done" /\ Goto(o, "done")
          /\ UNCHANGED <<file, temp, unstable, size, mode, cmp, attempts, result>>
      BY Zenon DEF Cancel, serverVars, callVars
    <2>2. result[o] = "none"
      BY <2>1, ControlTypes, Zenon DEF Told
    <2>3. "done" \in Labels
      BY LabelKinds, Zenon
    <2>4. Slack(pc[o]) <= Slack("done")
      <3>1. Slack(pc[o]) \in {0, 1, 2} /\ Slack("done") = 2
        BY SlackValues, Zenon
      <3> QED
        BY <3>1
    <2>5. Glides(o)
      BY <2>1, <2>2, <2>3, <2>4, GotoGlides, Zenon DEF Failing
    <2> QED
      BY <2>1, <2>5, GlidesFile, Zenon
  <1> QED
    BY <1>startFile, <1>beginFile, <1>fuseFile, <1>fusedReturnsFile, <1>failedFile, <1>openTempFile,
       <1>createParentDirsFile, <1>writeChunkFile, <1>writeEndsFile, <1>issuesFile,
       <1>publishReturnsFile, <1>removeReturnsFile, <1>reconnectsFile, <1>cancelFile, Zenon DEF Step

-----------------------------------------------------------------------------
(* The invariant *)

LEMMA FileNext ==
  ASSUME ControlInv, FileInv, TodoInv, [Next]_vars,
         \A o \in Ops : Step(o) \/ Cancel(o) => Client(o) /\ Moves(o)
  PROVE  FileInv' /\ TodoInv'
  <1>todoNext. ASSUME Next PROVE TodoInv'
    <2> USE <1>todoNext
    <2>1. CASE UNCHANGED todo
      BY <2>1, Zenon DEF TodoInv
    <2>2. ASSUME NEW o \in Ops, NEW t \in SUBSET Int, todo' = [todo EXCEPT ![o] = t] PROVE TodoInv'
      BY <2>2, Zenon DEF TodoInv
    <2>3. ASSUME NEW o \in Ops, Begin(o) PROVE TodoInv'
      <3>1. {} \in SUBSET Int
        BY Zenon
      <3> QED
        BY <2>2, <2>3, <3>1, Zenon DEF Begin
    <2>4. ASSUME NEW o \in Ops, OpenTemp(o) PROVE TodoInv'
      <3>1. size[o] \in Nat
        BY Zenon DEF FileInv, FileTypes
      <3>2. 1 .. size[o] \in SUBSET Int
        BY <3>1
      <3> QED
        BY <2>1, <2>2, <2>4, <3>2, Zenon DEF OpenTemp
    <2>5. ASSUME NEW o \in Ops, WriteChunk(o) PROVE TodoInv'
      <3>1. PICK k : todo' = [todo EXCEPT ![o] = @ \ {k}]
        BY <2>5, Zenon DEF WriteChunk
      <3>2. todo[o] \ {k} \in SUBSET Int
        BY Zenon DEF TodoInv
      <3> QED
        BY <2>2, <3>1, <3>2, Zenon
    <2>6. ASSUME NEW o \in Ops,
                 \/ Start(o) \/ Fuse(o) \/ FusedReturns(o) \/ FusedFailed(o) \/ CreateParentDirs(o)
                 \/ WriteFails(o) \/ WriteFailed(o) \/ ClosePublish(o) \/ PublishAfterClose(o)
                 \/ PublishReturns(o) \/ PublishFailed(o) \/ Remove(o) \/ RemoveReturns(o)
                 \/ Reconnects(o) \/ Cancel(o) \/ Run(o) \/ Halt(o)
          PROVE  UNCHANGED todo
      <3>1. CASE Start(o) \/ Fuse(o) \/ FusedReturns(o) \/ FusedFailed(o) \/ CreateParentDirs(o)
        BY <3>1, Zenon DEF Start, Fuse, FusedReturns, FusedFailed, CreateParentDirs, callVars
      <3>2. CASE \/ WriteFails(o) \/ WriteFailed(o) \/ ClosePublish(o) \/ PublishAfterClose(o)
                 \/ PublishReturns(o) \/ PublishFailed(o)
        BY <3>2, Zenon DEF WriteFails, WriteFailed, ClosePublish, PublishAfterClose,
                           PublishReturns, PublishFailed, callVars
      <3>3. CASE \/ Remove(o) \/ RemoveReturns(o) \/ Reconnects(o) \/ Cancel(o) \/ Run(o) \/ Halt(o)
        BY <3>3, Zenon DEF Remove, RemoveReturns, Reconnects, Cancel, Run, Halt, callVars
      <3> QED
        BY <2>6, <3>1, <3>2, <3>3, Zenon
    <2>7. LoseWrites \/ Sweep \/ Quiescent => UNCHANGED todo
      BY Zenon DEF LoseWrites, Sweep, Quiescent, vars, callVars
    <2> QED
      BY <2>1, <2>3, <2>4, <2>5, <2>6, <2>7, Zenon DEF Next, Step
  <1>1. CASE UNCHANGED vars
    <2>1. FileInv'
      BY <1>1, StillFile, Zenon DEF vars, serverVars, callVars
    <2> QED
      BY <1>1, <2>1, Zenon DEF TodoInv, vars, callVars
  <1>2. CASE Next
    <2>1. ASSUME NEW o \in Ops, Step(o) \/ Cancel(o) PROVE FileInv'
      BY <2>1, FileStep, Zenon
    <2>2. ASSUME NEW o \in Ops, Run(o) \/ Halt(o) PROVE FileInv'
      BY <2>2, ServerFile, Zenon
    <2>3. Sweep \/ Quiescent => FileInv'
      BY StillFile, Zenon DEF Sweep, Quiescent, vars, serverVars, callVars
    <2>4. FileInv'
      BY <1>2, <2>1, <2>2, <2>3, LoseFile, Zenon DEF Next
    <2> QED
      BY <1>2, <2>4, <1>todoNext, Zenon
  <1> QED
    BY <1>1, <1>2, Zenon

LEMMA FileInit ==
  ASSUME Init
  PROVE  FileInv /\ TodoInv
  <1>1. NoFile \in FileRec /\ Len(NoCompound.ops) = 0
    BY DEF NoFile, FileRec, NoCompound
  <1>2. FileTypes
    BY <1>1, Zenon DEF Init, FileTypes, FileRec
  <1>3. TodoInv
    BY Zenon DEF Init, TodoInv
  <1>4. ASSUME NEW o \in Ops PROVE Owned(o)
    <2>1. pc[o] = "idle" /\ temp[o] = 0 /\ attempts[o] = 0 /\ Len(cmp[o].ops) = 0
          /\ result[o] = "none" /\ \A n \in Names : file[<<o, n>>] = NoFile
      BY <1>1, Zenon DEF Init, Temps
    <2>2. ~(Len(cmp[o].ops) > 0) /\ Slack(pc[o]) = 0
      BY <2>1, SlackValues
    <2>3. attempts[o] <= ReconnectRetries /\ temp[o] <= 2 * attempts[o] + Slack(pc[o])
      BY <2>1, <2>2, RetriesAssumption
    <2>4. Named(o) /\ Fresh(o)
      BY <2>1, <2>2, <2>3, Zenon DEF Named, Fresh
    <2>5. Arranged(o)
      BY <2>1, EmptyTidy, Zenon DEF Arranged
    <2>6. Checked(o) /\ Steady(o) /\ Ready(o) /\ Kept(o)
      BY <2>1, <2>2, Zenon DEF Checked, Live, Steady, Ready, Kept
    <2> QED
      BY <2>4, <2>5, <2>6, Zenon DEF Owned
  <1>5. dest = Absent
    BY Zenon DEF Init
  <1> QED
    BY <1>2, <1>3, <1>4, <1>5, Zenon DEF FileInv
=============================================================================
