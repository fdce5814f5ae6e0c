---------------------------- MODULE PutTempProofs ----------------------------
(***************************************************************************)
(* The safety properties of Put that concern its files, for all values of  *)
(* the constants.                                                          *)
(*                                                                         *)
(* FileAlways puts the steps of the client and of the server together, and *)
(* what is published, and what a caller is told, follow from it. The names *)
(* that are left follow from TempsInv: a temporary is the one that its     *)
(* operation knows of and will remove (Holds), unless a call of that       *)
(* operation was abandoned, or its cleanup failed.                         *)
(***************************************************************************)
EXTENDS PutProofs, PutFileProofs

-----------------------------------------------------------------------------
(* The files *)

LEMMA FileAlways == Spec => [](ControlInv /\ FileInv)
  <1>1. Init => FileInv /\ TodoInv
    BY FileInit, Zenon
  <1>2. ControlInv /\ FileInv /\ TodoInv /\ [Next]_vars => FileInv' /\ TodoInv'
    BY FileNext, StepMoves, Zenon
  <1> QED
    BY <1>1, <1>2, ControlAlways, PTL DEF Spec

(***************************************************************************)
(* What the destination names was committed and has its full size,         *)
(* whatever was lost, cancelled and retried on the way: try_put_fused and  *)
(* close_publish put COMMIT and VERIFY before the LINK or RENAME of the    *)
(* same compound, and the server stops a compound at the first operation   *)
(* that fails.                                                             *)
(***************************************************************************)
THEOREM PublishedAlways == Spec => []PublishedIsCommitted
  <1>1. ControlInv /\ FileInv => PublishedIsCommitted
    BY Zenon DEF FileInv, Good, PublishedIsCommitted
  <1> QED
    BY <1>1, FileAlways, PTL

(***************************************************************************)
(* A put that returned Ok has stored bytes the server did not lose,        *)
(* however often it restarted between the WRITEs and the COMMIT:           *)
(* WriteOutcome::merge keeps the verifier of the WRITEs and                *)
(* ensure_write_verifier compares it with the one of the COMMIT before the *)
(* caller is told.                                                         *)
(***************************************************************************)
THEOREM SuccessAlways == Spec => []SuccessIsDurable
  <1>1. ControlInv /\ FileInv => SuccessIsDurable
    BY Zenon DEF FileInv, Owned, Kept, Sound, File, SuccessIsDurable
  <1> QED
    BY <1>1, FileAlways, PTL

-----------------------------------------------------------------------------
(* The temporary names *)

\* o knows its temporary name and will remove it.
Holding == {"write", "write_failed", "close", "republish"} \cup Failing
Holds(o) ==
  \/ pc[o] \in Holding
  \/ pc[o] = "fused" /\ Ran(cmp[o], "open") /\ cmp[o].st # "ok"
  \/ pc[o] = "publish" /\ cmp[o].st # "ok"
Tracked(t) == orphaned[t[1]] \/ (t = Temp(t[1]) /\ Holds(t[1]))

\* Nobody is told of a compound that still runs when its caller has gone on.
Attended(o) == Running(o) /\ mode[o] # "delete" => orphaned[o] \/ pc[o] \in {"fused", "publish"}
TempsInv ==
  /\ orphaned \in [Ops -> BOOLEAN]
  /\ \A t \in temps : t[1] \in Ops /\ Tracked(t)
  /\ \A o \in Ops : Attended(o)

\* What a step of o leaves alone, and what it makes of its own names.
Marks(o) ==
  /\ orphaned' \in [Ops -> BOOLEAN]
  /\ orphaned[o] => orphaned'[o]
  /\ \A p \in Ops \ {o} : orphaned'[p] = orphaned[p]
Elsewhere(o) ==
  /\ \A p \in Ops \ {o} : /\ pc'[p] = pc[p] /\ mode'[p] = mode[p] /\ cmp'[p] = cmp[p]
                          /\ temp'[p] = temp[p]
  /\ \A t \in temps' : t \in temps \/ t[1] = o
Tracks(o) ==
  /\ Attended(o)'
  /\ \A t \in temps' : t \in temps \/ (t = Temp(o)' /\ Holds(o)')
  /\ ~Holds(o) \/ Temp(o) \notin temps' \/ (temp'[o] = temp[o] /\ Holds(o)')

LEMMA TempsStep ==
  ASSUME TempsInv, NEW o \in Ops, Marks(o), Elsewhere(o), orphaned'[o] \/ Tracks(o)
  PROVE  TempsInv'
  <1>1. orphaned' \in [Ops -> BOOLEAN]
    BY Zenon DEF Marks
  <1>2. ASSUME NEW p \in Ops PROVE Attended(p)'
    <2>1. CASE p = o
      BY <2>1, Zenon DEF Tracks, Attended
    <2>2. CASE p # o
      BY <2>2, Zenon DEF TempsInv, Attended, Elsewhere, Marks, Running
    <2> QED
      BY <2>1, <2>2, Zenon
  <1>3. ASSUME NEW t \in temps' PROVE t[1] \in Ops /\ Tracked(t)'
    <2>1. CASE t[1] # o
      <3>1. t \in temps /\ t[1] \in Ops /\ Tracked(t)
        BY <1>3, <2>1, Zenon DEF Elsewhere, TempsInv
      <3>2. /\ pc'[t[1]] = pc[t[1]] /\ cmp'[t[1]] = cmp[t[1]] /\ temp'[t[1]] = temp[t[1]]
            /\ orphaned'[t[1]] = orphaned[t[1]]
        BY <2>1, <3>1, Zenon DEF Elsewhere, Marks
      <3> QED
        BY <3>1, <3>2, Zenon DEF Tracked, Holds, Temp
    <2>2. CASE t[1] = o /\ orphaned'[o]
      BY <2>2, Zenon DEF Tracked
    <2>3. CASE t[1] = o /\ ~orphaned'[o]
      <3>1. ~orphaned[o] /\ Tracks(o)
        BY <2>3, Zenon DEF Marks
      <3>2. CASE t = Temp(o)' /\ Holds(o)'
        BY <2>3, <3>2, Zenon DEF Tracked
      <3>3. CASE t \in temps
        <4>1. t = Temp(o) /\ Holds(o)
          BY <2>3, <3>1, <3>3, Zenon DEF TempsInv, Tracked
        <4>2. temp'[o] = temp[o] /\ Holds(o)'
          BY <1>3, <3>1, <4>1, Zenon DEF Tracks
        <4> QED
          BY <2>3, <4>1, <4>2, Zenon DEF Tracked, Temp
      <3> QED
        BY <1>3, <3>1, <3>2, <3>3, Zenon DEF Tracks
    <2> QED
      BY <2>1, <2>2, <2>3, Zenon
  <1> QED
    BY <1>1, <1>2, <1>3, Zenon DEF TempsInv

LEMMA MarksNothing ==
  ASSUME TempsInv, NEW o \in Ops, UNCHANGED orphaned
  PROVE  Marks(o)
  BY Zenon DEF Marks, TempsInv

LEMMA MarksOrphan ==
  ASSUME TempsInv, NEW o \in Ops, NEW b \in BOOLEAN, orphaned[o] => b,
         orphaned' = [orphaned EXCEPT ![o] = b]
  PROVE  Marks(o) /\ (b => orphaned'[o])
  <1>1. orphaned'[o] = b /\ orphaned' \in [Ops -> BOOLEAN]
        /\ \A p \in Ops \ {o} : orphaned'[p] = orphaned[p]
    BY Zenon DEF TempsInv
  <1> QED
    BY <1>1, Zenon DEF Marks

LEMMA ReturnsMarks ==
  ASSUME TempsInv, NEW o \in Ops, NEW e, Returns(o, e)
  PROVE  Marks(o) /\ (Running(o) => orphaned'[o])
  <1>1. CASE cmp[o].st # "running" /\ UNCHANGED orphaned
    BY <1>1, MarksNothing, Zenon DEF Running
  <1>2. CASE orphaned' = [orphaned EXCEPT ![o] = @ \/ cmp[o].st = "running"]
    <2>1. orphaned[o] \in BOOLEAN
      BY Zenon DEF TempsInv
    <2>2. (orphaned[o] \/ cmp[o].st = "running") \in BOOLEAN
      BY <2>1, Zenon
    <2>3. orphaned' = [orphaned EXCEPT ![o] = orphaned[o] \/ cmp[o].st = "running"]
      BY <1>2, Zenon
    <2> QED
      BY <2>2, <2>3, MarksOrphan, Zenon DEF Running
  <1> QED
    BY <1>1, <1>2, Zenon DEF Returns

LEMMA MovesElsewhere ==
  ASSUME ControlInv, NEW o \in Ops, Moves(o), UNCHANGED temp \/ NewTemp(o),
         \A t \in temps' : t \in temps \/ t[1] = o
  PROVE  Elsewhere(o)
  <1>1. \A p \in Ops \ {o} : temp'[p] = temp[p]
    BY ControlTypes, Zenon DEF NewTemp
  <1>2. \A p \in Ops \ {o} : pc'[p] = pc[p]
    BY ControlTypes, Zenon DEF Moves, Asks, Rests, Sends, Learns, Drops, Ends, Goto
  <1>3. \A p \in Ops \ {o} : mode'[p] = mode[p] /\ cmp'[p] = cmp[p]
    BY ControlTypes, Zenon DEF Moves, Asks, Rests, Sends, Learns, Drops, Ends, Only
  <1> QED
    BY <1>1, <1>2, <1>3, Zenon DEF Elsewhere

\* o is where it knows of no temporary name, and makes none.
Bare == {"idle", "begin", "fuse", "open", "mkdir", "reopen", "remove", "reconnect"}
LEMMA BareTemps ==
  ASSUME ControlInv, TempsInv, NEW o \in Ops, Moves(o), UNCHANGED temp \/ NewTemp(o),
         pc[o] \in Bare, UNCHANGED <<temps, cmp, orphaned>>
  PROVE  TempsInv'
  <1>1. ~Holds(o) /\ pc[o] \in Quiet \cup {"idle"}
    BY Zenon DEF Holds, Holding, Bare, Failing, Quiet
  <1>2. ~Running(o)
    BY <1>1, ControlTypes, Zenon DEF Told
  <1>3. Tracks(o)
    BY <1>1, <1>2, Zenon DEF Tracks, Attended, Running
  <1>4. Elsewhere(o) /\ Marks(o)
    BY MovesElsewhere, MarksNothing, Zenon
  <1> QED
    BY <1>3, <1>4, TempsStep, Zenon

\* o goes on with the name it has.
LEMMA HeldTemps ==
  ASSUME ControlInv, TempsInv, NEW o \in Ops, Moves(o), Marks(o), pc'[o] \in Holding,
         Running(o) => orphaned'[o] \/ mode[o] = "delete",
         UNCHANGED <<temp, temps, cmp, mode>>
  PROVE  TempsInv'
  <1>1. Holds(o)'
    BY Zenon DEF Holds
  <1>2. orphaned'[o] \/ Tracks(o)
    BY <1>1, Zenon DEF Tracks, Attended, Running
  <1>3. Elsewhere(o)
    BY MovesElsewhere, Zenon
  <1> QED
    BY <1>2, <1>3, TempsStep, Zenon

\* o removes its name, or is told nothing about that.
LEMMA DroppedTemps ==
  ASSUME ControlInv, TempsInv, NEW o \in Ops, Moves(o), pc[o] \in Holding,
         RemoveTemp(o) \/ (temps' = temps \ {Temp(o)} /\ UNCHANGED orphaned),
         UNCHANGED <<temp, cmp, mode>>
  PROVE  TempsInv'
  <1>1. temps' \subseteq temps
    BY Zenon DEF RemoveTemp
  <1>2. Elsewhere(o)
    BY <1>1, MovesElsewhere, Zenon
  <1>3. Running(o) => orphaned[o] \/ mode[o] = "delete"
    <2>1. pc[o] \notin {"fused", "publish"}
      BY Zenon DEF Holding, Failing
    <2> QED
      BY <2>1, Zenon DEF TempsInv, Attended
  <1>4. CASE temps' = temps \ {Temp(o)} /\ UNCHANGED orphaned
    <2>1. Tracks(o)
      BY <1>1, <1>3, <1>4, Zenon DEF Tracks, Attended, Running
    <2> QED
      BY <1>2, <1>4, <2>1, MarksNothing, TempsStep, Zenon
  <1>5. CASE orphaned' = [orphaned EXCEPT ![o] = TRUE]
    <2>1. Marks(o) /\ orphaned'[o]
      BY <1>5, MarksOrphan, Zenon
    <2> QED
      BY <1>2, <2>1, TempsStep, Zenon
  <1> QED
    BY <1>4, <1>5, Zenon DEF RemoveTemp

LEMMA IssueTemps ==
  ASSUME ControlInv, TempsInv, NEW o \in Ops, Moves(o), NEW label, NEW ops, NEW v,
         Issue(o, label, ops, v),
         label = "publish" \/ (pc[o] \in Bare /\ (label = "fused" \/ mode[o] = "delete")),
         UNCHANGED <<temp, temps, orphaned, mode>>
  PROVE  TempsInv'
  <1>issueStatus. pc'[o] = label /\ cmp'[o].st \in {"running", "notsent", "invalid"}
    <2>1. cmp \in [Ops -> Compounds] /\ pc'[o] = label
      BY ControlTypes, Zenon DEF Issue, Goto
    <2>2. CASE cmp' = [cmp EXCEPT ![o] = [Compound(ops) EXCEPT !.write = v]]
      <3>1. cmp'[o] = [Compound(ops) EXCEPT !.write = v]
        BY <2>1, <2>2, Zenon
      <3>2. [Compound(ops) EXCEPT !.write = v].st = "running"
        BY Zenon DEF Compound, NoCompound
      <3> QED
        BY <2>1, <3>1, <3>2, Zenon
    <2>3. ASSUME NEW st \in {"notsent", "invalid"},
                 cmp' = [cmp EXCEPT ![o] = [NoCompound EXCEPT !.st = st]]
          PROVE  cmp'[o].st \in {"running", "notsent", "invalid"}
      <3>1. cmp'[o] = [NoCompound EXCEPT !.st = st]
        BY <2>1, <2>3, Zenon
      <3>2. [NoCompound EXCEPT !.st = st].st = st
        BY Zenon DEF NoCompound
      <3> QED
        BY <3>1, <3>2, Zenon
    <2> QED
      BY <2>1, <2>2, <2>3, Zenon DEF Issue
  <1>1. pc'[o] = label /\ cmp'[o].st \in {"running", "notsent", "invalid"}
    BY <1>issueStatus, Zenon
  <1>2. Elsewhere(o) /\ Marks(o)
    BY MovesElsewhere, MarksNothing, Zenon
  <1>3. label = "publish" => Holds(o)'
    BY <1>1, Zenon DEF Holds
  <1>4. pc[o] \in Bare => ~Holds(o)
    BY Zenon DEF Holds, Holding, Bare, Failing
  <1>5. Tracks(o)
    BY <1>1, <1>3, <1>4, Zenon DEF Tracks, Attended
  <1> QED
    BY <1>2, <1>5, TempsStep, Zenon

LEMMA RunNames ==
  ASSUME ControlInv, NEW o \in Ops, Run(o)
  PROVE  /\ \/ temps' \subseteq temps
            \/ Op(o) = "open" /\ Advances(o) /\ temps' = temps \cup {Temp(o)}
         /\ Op(o) = "rename" \/ (mode[o] # "delete" /\ Op(o) = "remove") => Temp(o) \notin temps'
  <1>1. cmp \in [Ops -> Compounds] /\ cmp[o] \in Compounds
    BY ControlTypes, Zenon
  <1>2. Proceed(o, cmp[o]) => Advances(o)
    BY <1>1, ProceedAdvances, Zenon
  <1>3. CASE RunOpen(o, cmp[o])
    <2>1. Op(o) = "open" /\ temps' = temps \cup {Temp(o)} /\ Advances(o)
      BY <1>2, <1>3, Zenon DEF RunOpen, Op
    <2> QED
      BY <2>1
  <1>4. CASE \/ RunStateless(o, cmp[o]) \/ RunLookup(o, cmp[o]) \/ RunWrite(o, cmp[o])
             \/ RunCommit(o, cmp[o]) \/ RunVerify(o, cmp[o]) \/ RunLink(o, cmp[o])
    <2>1. UNCHANGED temps
      BY <1>4, Zenon DEF RunStateless, RunLookup, RunWrite, RunCommit, RunVerify, RunLink,
         serverVars
    <2>2. Op(o) \in {"sequence", "close", "lookup", "write", "commit", "verify", "link"}
      BY <1>4, Zenon DEF RunStateless, RunLookup, RunWrite, RunCommit, RunVerify, RunLink, Op
    <2> QED
      BY <2>1, <2>2, Zenon
  <1>5. CASE RunRename(o, cmp[o])
    <2>1. Op(o) = "rename" /\ temps' \subseteq temps /\ Temp(o) \notin temps'
      BY <1>5, Zenon DEF RunRename, Op
    <2> QED
      BY <2>1, Zenon
  <1>6. CASE RunRemove(o, cmp[o])
    <2>1. Op(o) = "remove" /\ temps' \subseteq temps /\ (mode[o] # "delete" => Temp(o) \notin temps')
      BY <1>6, Zenon DEF RunRemove, Op
    <2> QED
      BY <2>1, Zenon
  <1> QED
    BY <1>3, <1>4, <1>5, <1>6, Zenon DEF Run

LEMMA ServerTemps ==
  ASSUME ControlInv, FileInv, TempsInv, NEW o \in Ops, Running(o),
         Advances(o) \/ \E st \in Statuses : Halts(o, st),
         \/ temps' \subseteq temps
         \/ Op(o) = "open" /\ Advances(o) /\ temps' = temps \cup {Temp(o)},
         Advances(o) /\ (Op(o) = "rename" \/ (mode[o] # "delete" /\ Op(o) = "remove"))
           => Temp(o) \notin temps',
         UNCHANGED <<pc, mode, temp, orphaned>>
  PROVE  TempsInv'
  <1>1. /\ cmp[o] \in Compounds /\ Full(cmp[o], mode[o]) /\ cmp[o].next \in 1 .. Len(cmp[o].ops)
        /\ cmp[o].st = "running" /\ Tidy(cmp[o].ops)
        /\ mode[o] = "delete" => Op(o) # "open"
        /\ pc[o] = "publish" => Op(o) # "open"
    BY ServerAt, Zenon
  <1>2. Only(o) /\ cmp'[o] \in Compounds
    BY Zenon DEF Advances, Halts, Only
  <1>3. Elsewhere(o) /\ Marks(o)
    <2>1. \A t \in temps' : t \in temps \/ t[1] = o
      <3>1. Temp(o)[1] = o
        BY DEF Temp
      <3> QED
        BY <3>1, Zenon
    <2> QED
      BY <1>2, <2>1, MarksNothing, Zenon DEF Elsewhere, Only
  <1>4. CASE orphaned[o]
    BY <1>3, <1>4, TempsStep, Zenon DEF Marks
  <1>5. CASE mode[o] = "delete"
    <2>1. ~Holds(o)
      <3>1. pc[o] \in Holding \cup {"fused", "publish"} => mode[o] \in Puts
        BY ControlTypes, Zenon DEF Place, Allows, Holding
      <3> QED
        BY <1>5, <3>1, AllowsPut, Zenon DEF Holds
    <2>2. Tracks(o)
      BY <1>1, <1>5, <2>1, Zenon DEF Tracks, Attended
    <2> QED
      BY <1>3, <2>2, TempsStep, Zenon
  <1>6. CASE mode[o] # "delete" /\ ~orphaned[o]
    <2>1. pc[o] \in {"fused", "publish"} /\ pc'[o] = pc[o] /\ mode'[o] = mode[o]
      BY <1>6, Zenon DEF TempsInv, Attended
    <2>2. Attended(o)'
      BY <2>1, Zenon DEF Attended
    <2>3. CASE Op(o) = "open" /\ Advances(o)
      <3>1. pc[o] = "fused" /\ Ran(cmp'[o], "open") /\ Full(cmp'[o], mode[o])
        BY <1>1, <2>1, <2>3, AdvancesFacts, Zenon
      <3>2. Tidy(cmp'[o].ops) /\ Proceeds(cmp[o], cmp'[o])
        BY <1>1, <2>3, Zenon DEF Advances, Proceeds
      <3>3. cmp[o].ops[cmp[o].next] = "open"
        BY <2>3, Zenon DEF Op
      <3>4. Pending(cmp'[o], "write")
        BY <1>1, <1>2, <3>2, <3>3, PendingAfter, Zenon
      <3>5. cmp'[o].st # "ok"
        BY <1>2, <3>1, <3>2, <3>4, PendingEnd, Zenon
      <3>6. Holds(o)' /\ Temp(o)' = Temp(o)
        BY <2>1, <3>1, <3>5, Zenon DEF Holds, Temp
      <3>7. Tracks(o)
        BY <2>2, <3>6, Zenon DEF Tracks
      <3> QED
        BY <1>3, <3>7, TempsStep, Zenon
    <2>4. CASE ~(Op(o) = "open" /\ Advances(o))
      <3>1. ASSUME NEW st \in Statuses, Halts(o, st), Holds(o) PROVE Holds(o)'
        <4>1. (Ran(cmp[o], "open") => Ran(cmp'[o], "open")) /\ cmp'[o].st # "ok"
          BY <3>1, HaltsFacts, Zenon
        <4> QED
          BY <2>1, <3>1, <4>1, Zenon DEF Holds
      <3>2. ASSUME Advances(o), Holds(o), cmp'[o].st # "ok" PROVE Holds(o)'
        <4>1. Ran(cmp[o], "open") => Ran(cmp'[o], "open")
          BY <3>2, AdvancesFacts, Zenon
        <4> QED
          BY <2>1, <3>2, <4>1, Zenon DEF Holds
      <3>3. ASSUME Advances(o), cmp'[o].st = "ok" PROVE Temp(o) \notin temps'
        <4>1. cmp[o].next = Len(cmp[o].ops)
          BY <3>3, AdvancesFacts, Zenon
        <4>2. Op(o) \in {"rename", "remove"}
          BY <1>1, <4>1, Zenon DEF Full, Ordered, Op
        <4> QED
          BY <1>6, <3>3, <4>2, Zenon
      <3>4. Tracks(o)
        BY <2>2, <2>4, <3>1, <3>2, <3>3, Zenon DEF Tracks
      <3> QED
        BY <1>3, <3>4, TempsStep, Zenon
    <2> QED
      BY <2>3, <2>4, Zenon
  <1> QED
    BY <1>4, <1>5, <1>6, Zenon

LEMMA RunTemps ==
  ASSUME ControlInv, FileInv, TempsInv, NEW o \in Ops, Run(o) \/ Halt(o)
  PROVE  TempsInv'
  <1>1. Running(o) /\ UNCHANGED <<pc, mode, temp, orphaned>>
    BY Zenon DEF Run, Halt, Running, callVars
  <1>2. FileKinds(o)
    BY RunFileKinds, HaltFileKinds, Zenon
  <1>3. Advances(o) \/ \E st \in Statuses : Halts(o, st)
    BY <1>2, Zenon DEF FileKinds, Skips, Stays, Opens, Writes, Commits
  <1>4. CASE Run(o)
    BY <1>1, <1>3, <1>4, RunNames, ServerTemps, Zenon
  <1>5. CASE Halt(o)
    <2>1. temps' \subseteq temps
      BY <1>5, Zenon DEF Halt, serverVars
    <2>2. ~Advances(o)
      <3>1. PICK st \in {"delay", "rebuild", "notsupp", "other", "exist"} : Stop(o, st)
        BY <1>5, Zenon DEF Halt
      <3>2. st \in Statuses
        BY <3>1, Zenon DEF Statuses
      <3>3. Halts(o, st) /\ cmp[o] \in Compounds
        BY <3>1, <3>2, StopHalts, ControlTypes, Zenon
      <3>4. cmp'[o].next = cmp[o].next /\ cmp[o].next \in Nat
        BY <3>3, Zenon DEF Halts, Stops, Compounds
      <3>5. cmp[o].next # cmp[o].next + 1
        BY <3>4
      <3> QED
        BY <3>4, <3>5, Zenon DEF Advances, Proceeds
    <2> QED
      BY <1>1, <1>3, <2>1, <2>2, ServerTemps, Zenon
  <1> QED
    BY <1>4, <1>5, Zenon

LEMMA StepTemps ==
  ASSUME ControlInv, FileInv, TempsInv, NEW o \in Ops, Moves(o), Step(o) \/ Cancel(o)
  PROVE  TempsInv'
  <1>fusedReturnsTemps. ASSUME FusedReturns(o) PROVE TempsInv'
    <2> USE <1>fusedReturnsTemps
    <2>1. /\ Moves(o) /\ pc[o] = "fused" /\ pc[o] \in Waiting
          /\ UNCHANGED <<temp, temps, cmp, mode>>
      <3>1. UNCHANGED cmp
        BY Zenon DEF FusedReturns
      <3> QED
        BY <3>1, Zenon DEF FusedReturns, serverVars, Waiting
    <2>2. cmp[o].st # "none" /\ cmp[o] \in Compounds /\ Tidy(cmp[o].ops) /\ Elsewhere(o)
      BY <2>1, AtWait, FileFacts, MovesElsewhere, Zenon DEF Arranged
    <2>3. ASSUME NEW e, Returns(o, e), ~Running(o) => ~Holds(o) PROVE TempsInv'
      <3>1. Marks(o) /\ (Running(o) => orphaned'[o])
        BY <2>3, ReturnsMarks, Zenon
      <3>2. orphaned'[o] \/ Tracks(o)
        BY <2>1, <2>3, <3>1, Zenon DEF Tracks, Attended, Running
      <3> QED
        BY <2>2, <3>1, <3>2, TempsStep, Zenon
    <2>4. ASSUME NEW e, Returns(o, e), e = NoError PROVE TempsInv'
      <3>1. ~Running(o) /\ e = Decoded(cmp[o])
        BY <2>1, <2>4, ReturnsTold, Zenon
      <3>2. cmp[o].st = "ok"
        BY <2>2, <2>4, <3>1, DecodedTrue, Zenon
      <3>3. ~Holds(o)
        BY <2>1, <3>2, Zenon DEF Holds, Holding, Failing
      <3> QED
        BY <2>3, <2>4, <3>3, Zenon
    <2>5. ASSUME NEW e, Returns(o, e), IsNameCollision(e) PROVE TempsInv'
      <3>1. e.op = "open" /\ e.op # "none"
        BY <2>5 DEF IsNameCollision
      <3>2. ~Running(o) /\ e = Decoded(cmp[o])
        BY <2>1, <2>5, <3>1, ReturnsTold, Zenon
      <3>3. /\ e = [op |-> Op(o), st |-> cmp[o].st]
            /\ cmp[o].next \in 1 .. Len(cmp[o].ops) /\ Full(cmp[o], mode[o])
        BY <2>2, <3>1, <3>2, DecodedTrue, Zenon
      <3>4. cmp[o].ops[cmp[o].next] = "open"
        BY <3>1, <3>3 DEF Op
      <3>5. ~Ran(cmp[o], "open")
        BY <2>2, <3>3, <3>4, PendingEnd, Zenon
      <3>6. ~Holds(o)
        BY <2>1, <3>5, Zenon DEF Holds, Holding, Failing
      <3> QED
        BY <2>3, <2>5, <3>6, Zenon
    <2>6. ASSUME NEW e, Returns(o, e), Goto(o, "fused_failed") PROVE TempsInv'
      <3>1. Marks(o) /\ (Running(o) => orphaned'[o])
        BY <2>6, ReturnsMarks, Zenon
      <3>2. pc'[o] \in Holding
        BY <2>6, ControlTypes, Zenon DEF Goto, Holding, Failing
      <3> QED
        BY <2>1, <3>1, <3>2, HeldTemps, Zenon
    <2> QED
      BY <2>4, <2>5, <2>6, Zenon DEF FusedReturns
  <1>publishReturnsTemps. ASSUME PublishReturns(o) PROVE TempsInv'
    <2> USE <1>publishReturnsTemps
    <2>1. /\ Moves(o) /\ pc[o] = "publish" /\ pc[o] \in Waiting
          /\ UNCHANGED <<temp, temps, cmp, mode>>
      BY Zenon DEF PublishReturns, serverVars, Waiting
    <2>2. cmp[o].st # "none" /\ Elsewhere(o)
      BY <2>1, AtWait, MovesElsewhere, Zenon
    <2>3. ASSUME NEW e, Returns(o, e), e = NoError PROVE TempsInv'
      <3>1. ~Running(o) /\ e = Decoded(cmp[o])
        BY <2>1, <2>3, ReturnsTold, Zenon
      <3>2. cmp[o].st = "ok"
        BY <2>2, <2>3, <3>1, DecodedTrue, Zenon
      <3>3. ~Holds(o)
        BY <2>1, <3>2, Zenon DEF Holds, Holding, Failing
      <3>4. Tracks(o)
        BY <2>1, <3>1, <3>3, Zenon DEF Tracks, Attended, Running
      <3> QED
        BY <2>2, <2>3, <3>4, ReturnsMarks, TempsStep, Zenon
    <2>4. ASSUME NEW e, Returns(o, e), NEW l \in {"close", "republish", "publish_failed"},
                 Goto(o, l)
          PROVE  TempsInv'
      <3>1. Marks(o) /\ (Running(o) => orphaned'[o])
        BY <2>4, ReturnsMarks, Zenon
      <3>2. pc'[o] \in Holding
        BY <2>4, ControlTypes, Zenon DEF Goto, Holding, Failing
      <3> QED
        BY <2>1, <3>1, <3>2, HeldTemps, Zenon
    <2>5. PICK e : /\ Returns(o, e)
                   /\ \/ e = NoError
                      \/ Goto(o, IF \E i \in DOMAIN cmp[o].ops : cmp[o].ops[i] = "close"
                                 THEN "close" ELSE "republish")
                      \/ Goto(o, "republish")
                      \/ Goto(o, "publish_failed")
      BY Zenon DEF PublishReturns
    <2>6. e = NoError \/ \E l \in {"close", "republish", "publish_failed"} : Goto(o, l)
      BY <2>5, Zenon
    <2> QED
      BY <2>3, <2>4, <2>5, <2>6, Zenon
  <1>removeReturnsTemps. ASSUME RemoveReturns(o) PROVE TempsInv'
    <2> USE <1>removeReturnsTemps
    <2>1. /\ Moves(o) /\ pc[o] = "removing" /\ pc[o] \in Waiting
          /\ UNCHANGED <<temp, temps, cmp, mode>>
      BY Zenon DEF RemoveReturns, serverVars, Waiting
    <2>2. mode[o] = "delete" /\ Elsewhere(o)
      BY <2>1, AtWait, MovesElsewhere, Zenon
    <2>3. PICK e : Returns(o, e)
      BY Zenon DEF RemoveReturns
    <2>4. ~Holds(o)
      BY <2>1, Zenon DEF Holds, Holding, Failing
    <2>5. Tracks(o)
      BY <2>1, <2>2, <2>4, Zenon DEF Tracks, Attended
    <2> QED
      BY <2>2, <2>3, <2>5, ReturnsMarks, TempsStep, Zenon
  <1>openTempTemps. ASSUME OpenTemp(o) PROVE TempsInv'
    <2> USE <1>openTempTemps
    <2>1. /\ Moves(o) /\ pc[o] \in {"open", "reopen"} /\ pc[o] \in Bare /\ pc[o] \in Quiet
          /\ UNCHANGED <<cmp, mode>>
      BY Zenon DEF OpenTemp, Bare, Quiet
    <2>2. ~Running(o) /\ ~Holds(o)
      BY <2>1, AtRest, Zenon DEF Holds, Holding, Failing
    <2>3. CASE /\ NewTemp(o) /\ temps' = temps \cup {<<o, temp[o] + 1>>} /\ Goto(o, "write")
               /\ UNCHANGED orphaned
      <3>1. temp'[o] = temp[o] + 1 /\ pc'[o] = "write"
        BY <2>3, ControlTypes, Zenon DEF NewTemp, Goto
      <3>2. Temp(o)' = <<o, temp[o] + 1>> /\ Holds(o)'
        BY <3>1, Zenon DEF Temp, Holds, Holding
      <3>3. \A t \in temps' : t \in temps \/ t = Temp(o)'
        BY <2>3, <3>2, Zenon
      <3>4. Tracks(o)
        BY <2>1, <2>2, <3>2, <3>3, Zenon DEF Tracks, Attended, Running
      <3>5. \A t \in temps' : t \in temps \/ t[1] = o
        <4>1. <<o, temp[o] + 1>>[1] = o
          OBVIOUS
        <4> QED
          BY <2>3, <4>1, Zenon
      <3> QED
        BY <2>1, <2>3, <3>4, <3>5, MovesElsewhere, MarksNothing, TempsStep, Zenon
    <2>4. CASE UNCHANGED <<temp, temps, orphaned>>
      BY <2>1, <2>4, BareTemps, Zenon
    <2>5. ASSUME NEW leaves \in {{}, {<<o, temp[o] + 1>>}}, NewTemp(o), temps' = temps \cup leaves,
                 orphaned' = [orphaned EXCEPT ![o] = @ \/ leaves # {}]
          PROVE  TempsInv'
      <3>1. orphaned[o] \in BOOLEAN
        BY Zenon DEF TempsInv
      <3>2. (orphaned[o] \/ leaves # {}) \in BOOLEAN
        BY <3>1, Zenon
      <3>3. orphaned' = [orphaned EXCEPT ![o] = orphaned[o] \/ leaves # {}]
        BY <2>5, Zenon
      <3>4. Marks(o) /\ (leaves # {} => orphaned'[o])
        BY <3>2, <3>3, MarksOrphan, Zenon
      <3>5. \A t \in temps' : t \in temps \/ t[1] = o
        <4>1. <<o, temp[o] + 1>>[1] = o
          OBVIOUS
        <4> QED
          BY <2>5, <4>1, Zenon
      <3>6. leaves = {} => Tracks(o)
        BY <2>1, <2>2, <2>5, Zenon DEF Tracks, Attended, Running
      <3> QED
        BY <2>1, <2>5, <3>4, <3>5, <3>6, MovesElsewhere, TempsStep, Zenon
    <2> QED
      BY <2>3, <2>4, <2>5, Zenon DEF OpenTemp
  <1>1. Moves(o)
    OBVIOUS
  <1>2. CASE Start(o) \/ Begin(o) \/ CreateParentDirs(o) \/ Reconnects(o)
    <2>1. pc[o] \in Bare
      BY <1>2, Zenon DEF Start, Begin, CreateParentDirs, Reconnects, Bare
    <2>2. UNCHANGED <<temps, cmp, orphaned>> /\ (UNCHANGED temp \/ NewTemp(o))
      BY <1>2, Zenon DEF Start, Begin, CreateParentDirs, Reconnects, serverVars, callVars
    <2> QED
      BY <1>1, <2>1, <2>2, BareTemps, Zenon
  <1>3. CASE Fuse(o)
    <2>1. pc[o] \in Bare /\ UNCHANGED <<temp, temps, orphaned, mode>>
      BY <1>3, Zenon DEF Fuse, Bare, serverVars
    <2>2. Issue(o, "fused", FusedOps(o), -1) \/ UNCHANGED cmp
      BY <1>3, Zenon DEF Fuse
    <2> QED
      BY <1>1, <2>1, <2>2, BareTemps, IssueTemps, Zenon
  <1>4. CASE FusedFailed(o) \/ PublishFailed(o) \/ WriteFailed(o)
    <2>1. pc[o] \in Holding /\ UNCHANGED <<temp, cmp, mode>>
      BY <1>4, Zenon DEF FusedFailed, PublishFailed, WriteFailed, Holding, Failing, callVars
    <2>2. RemoveTemp(o) \/ (temps' = temps \ {Temp(o)} /\ UNCHANGED orphaned)
      BY <1>4, Zenon DEF FusedFailed, PublishFailed, WriteFailed
    <2> QED
      BY <1>1, <2>1, <2>2, DroppedTemps, Zenon
  <1>5. CASE WriteChunk(o) \/ WriteFails(o)
    <2>1. pc[o] = "write" /\ pc[o] \in Quiet /\ UNCHANGED <<temp, temps, cmp, mode, orphaned>>
      BY <1>5, Zenon DEF WriteChunk, WriteFails, Quiet, serverVars, callVars
    <2>2. \E l \in {"close", "write", "write_failed"} : Goto(o, l)
      <3>1. CASE WriteFails(o)
        BY <3>1, Zenon DEF WriteFails
      <3>2. CASE WriteChunk(o)
        <4>1. \/ Goto(o, IF todo'[o] = {} THEN "close" ELSE "write") \/ Goto(o, "write_failed")
          BY <3>2, Zenon DEF WriteChunk
        <4>2. CASE todo'[o] = {}
          BY <4>1, <4>2, Zenon
        <4>3. CASE todo'[o] # {}
          BY <4>1, <4>3, Zenon
        <4> QED
          BY <4>2, <4>3, Zenon
      <3> QED
        BY <1>5, <3>1, <3>2, Zenon
    <2>3. pc'[o] \in Holding
      BY <2>2, ControlTypes, Zenon DEF Goto, Holding
    <2>4. ~Running(o) /\ Marks(o)
      BY <2>1, AtRest, MarksNothing, Zenon
    <2> QED
      BY <1>1, <2>1, <2>3, <2>4, HeldTemps, Zenon
  <1>6. CASE ClosePublish(o) \/ PublishAfterClose(o)
    <2>1. UNCHANGED <<temp, temps, orphaned, mode>>
      BY <1>6, Zenon DEF ClosePublish, PublishAfterClose, serverVars, callVars
    <2>2. \E ops, v : Issue(o, "publish", ops, v)
      BY <1>6, Zenon DEF ClosePublish, PublishAfterClose
    <2> QED
      BY <1>1, <2>1, <2>2, IssueTemps, Zenon
  <1>7. CASE Remove(o)
    <2>1. /\ pc[o] \in Bare /\ pc[o] = "remove" /\ pc[o] \in Quiet
          /\ UNCHANGED <<temp, temps, orphaned, mode>> /\ Issue(o, "removing", RemoveOps, -1)
      BY <1>7, Zenon DEF Remove, Bare, Quiet, serverVars, callVars
    <2>2. mode[o] = "delete"
      BY <2>1, AtRest, Zenon
    <2> QED
      BY <1>1, <2>1, <2>2, IssueTemps, Zenon
  <1>8. CASE Cancel(o)
    <2>1. /\ UNCHANGED <<temp, temps>>
          /\ orphaned' = [orphaned EXCEPT ![o] = TRUE]
      BY <1>8, Zenon DEF Cancel, serverVars, callVars
    <2>2. Marks(o) /\ orphaned'[o]
      BY <2>1, MarksOrphan, Zenon
    <2> QED
      BY <1>1, <2>1, <2>2, MovesElsewhere, TempsStep, Zenon
  <1> QED
    BY <1>2, <1>3, <1>4, <1>5, <1>6, <1>7, <1>8, <1>fusedReturnsTemps, <1>publishReturnsTemps,
       <1>removeReturnsTemps, <1>openTempTemps, Zenon DEF Step

LEMMA TempsNext ==
  ASSUME ControlInv, FileInv, TempsInv, [Next]_vars
  PROVE  TempsInv'
  <1>1. CASE \E o \in Ops : Step(o) \/ Cancel(o)
    BY <1>1, StepMoves, StepTemps, Zenon
  <1>2. CASE \E o \in Ops : Run(o) \/ Halt(o)
    BY <1>2, RunTemps, Zenon
  <1>3. CASE LoseWrites \/ Sweep \/ UNCHANGED vars
    <2>1. temps' \subseteq temps /\ UNCHANGED <<pc, mode, cmp, temp, orphaned>>
      BY <1>3, Zenon DEF LoseWrites, Sweep, vars, serverVars, callVars
    <2> QED
      BY <2>1, Zenon DEF TempsInv, Tracked, Holds, Temp, Attended, Running
  <1> QED
    BY <1>1, <1>2, <1>3, StepCases, Zenon

LEMMA TempsAlways == Spec => []TempsInv
  <1>1. Init => TempsInv
    <2>1. NoCompound.st # "running"
      BY Zenon DEF NoCompound
    <2> SUFFICES ASSUME Init PROVE TempsInv
      OBVIOUS
    <2>2. /\ orphaned = [o \in Ops |-> FALSE] /\ temps = {}
          /\ cmp = [o \in Ops |-> NoCompound]
      BY Zenon DEF Init
    <2>3. orphaned \in [Ops -> BOOLEAN] /\ \A o \in Ops : ~Running(o)
      BY <2>1, <2>2, Zenon DEF Running
    <2> QED
      BY <2>2, <2>3, Zenon DEF TempsInv, Attended
  <1>2. ControlInv /\ FileInv /\ TempsInv /\ [Next]_vars => TempsInv'
    BY TempsNext, Zenon
  <1> QED
    BY <1>1, <1>2, FileAlways, PTL DEF Spec

(***************************************************************************)
(* An operation that has ended leaves no temporary name behind, unless a   *)
(* call that concerns one was never answered, its own cleanup failed, or   *)
(* it was cancelled: put_once and put_once_fused remove the temporary on   *)
(* each of their error paths.                                              *)
(***************************************************************************)
THEOREM TempsRemovedAlways == Spec => []TempsRemoved
  <1>1. TempsInv => TempsRemoved
    BY Zenon DEF TempsInv, Tracked, Holds, Holding, Failing, TempsRemoved
  <1> QED
    BY <1>1, TempsAlways, PTL
=============================================================================
