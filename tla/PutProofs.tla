----------------------------- MODULE PutProofs -----------------------------
(***************************************************************************)
(* Put and delete implement module Store, for all values of the constants. *)
(*                                                                         *)
(* Each step of the client is one of six kinds (Moves): it is called,      *)
(* works on its temporary name, sends a compound, is told of a failure,    *)
(* returns or is cancelled. StepMoves sorts the actions of Put into these, *)
(* MovesControl shows that the kinds keep ControlInv, and MovesRefine and  *)
(* KindsRefine that the kinds of the client and of the server are steps of *)
(* Store or leave what it speaks of alone.                                 *)
(***************************************************************************)
EXTENDS PutInvariantProofs

-----------------------------------------------------------------------------
(* The kinds of steps of the client *)

LEMMA MovesControl ==
  ASSUME ControlInv, NEW o \in Ops, Client(o), Moves(o)
  PROVE  ControlInv'
  <1>moveFrame. ASSUME NEW label \in Labels, Goto(o, label),
                       mode' \in [Ops -> Modes \cup {"none"}],
                       \A p \in Ops \ {o} : mode'[p] = mode[p], Only(o),
                       result' \in [Ops -> {"none"} \cup Returned],
                       \A p \in Ops \ {o} : result'[p] = result[p], Control(o)'
                PROVE  ControlInv'
    <2> USE <1>moveFrame
    <2>1. pc' \in [Ops -> Labels] /\ \A p \in Ops \ {o} : pc'[p] = pc[p]
      BY ControlTypes, Zenon DEF Goto
    <2>2. Types'
      <3>1. {"none"} \cup Returned = {"none", "ok", "exists", "error", "unknown"}
        BY Zenon DEF Returned
      <3> QED
        BY <2>1, <3>1, ControlTypes, Zenon DEF Types, Client, Only
    <2>3. Parented'
      BY ControlTypes, Zenon DEF Client, Parented
    <2>4. ASSUME NEW p \in Ops \ {o} PROVE Control(p)'
      <3>1. Untouched(p) /\ (parent => parent') /\ Control(p)
        BY <2>1, Zenon DEF Untouched, Only, Client, ControlInv
      <3> QED
        BY <3>1, ControlFrame, Zenon
    <2> QED
      BY <2>2, <2>3, <2>4, Zenon DEF ControlInv
  <1>compoundKept. ASSUME UNCHANGED <<mode, cmp>>
                   PROVE  /\ Only(o) /\ Shape(o)' /\ Effect(o)' /\ Looked(o)'
                          /\ mode' \in [Ops -> Modes \cup {"none"}] /\ \A p \in Ops : mode'[p] = mode[p]
    <2> USE <1>compoundKept
    <2>1. Only(o) /\ mode' \in [Ops -> Modes \cup {"none"}] /\ \A p \in Ops : mode'[p] = mode[p]
      BY ControlTypes, Zenon DEF Only
    <2>2. Shape(o)' /\ Effect(o)' /\ Looked(o)'
      BY ControlTypes, Zenon DEF Shape, Effect, Looked, Client, Op
    <2> QED
      BY <2>1, <2>2, Zenon
  <1>asksControl. ASSUME Asks(o) PROVE ControlInv'
    <2> USE <1>asksControl
    <2>1. PICK m \in Modes : mode' = [mode EXCEPT ![o] = m]
      BY Zenon DEF Asks
    <2>2. m \in {"overwrite", "create", "delete"}
      BY ModesAssumption, Zenon
    <2>3. /\ mode' \in [Ops -> Modes \cup {"none"}] /\ mode'[o] = m
          /\ \A p \in Ops \ {o} : mode'[p] = mode[p]
      BY <2>1, ControlTypes, Zenon
    <2>4. /\ pc'[o] = "begin" /\ pc[o] = "idle" /\ UNCHANGED <<cmp, result>>
          /\ Goto(o, "begin") /\ "begin" \in Labels
      BY ControlTypes, LabelKinds, Zenon DEF Asks, Goto
    <2>5. Blank(cmp[o]) /\ effect[o] = "none" /\ ~Running(o) /\ result[o] = "none"
      BY <2>4, ControlTypes, Zenon DEF Place, Told
    <2>6. Only(o) /\ result' \in [Ops -> {"none"} \cup Returned] /\ Looked(o)'
      BY <2>4, ControlTypes, Zenon DEF Only, Looked, Client
    <2>7. Shape(o)' /\ Place(o)'
      BY <2>2, <2>3, <2>4, <2>5, Zenon DEF Shape, Place, Allows, Failing, Waiting
    <2>8. Effect(o)'
      <3>1. ~Ran(cmp[o], "link") /\ ~Ran(cmp[o], "rename") /\ cmp[o].st \notin {"exist", "ok", "noent"}
        BY <2>5, BlankRan, Zenon DEF Blank
      <3>2. effect'[o] = "none" /\ cmp'[o] = cmp[o]
        BY <2>4, <2>5, Zenon DEF Client
      <3> QED
        BY <3>1, <3>2, Zenon DEF Effect
    <2>9. Told(o)'
      <3>1. effect'[o] = "none" /\ ~Running(o)' /\ result'[o] = "none"
        BY <2>4, <2>5, Zenon DEF Client, Running
      <3> QED
        BY <2>4, <3>1, Zenon DEF Told, Failing
    <2>10. Control(o)'
      BY <2>6, <2>7, <2>8, <2>9, Zenon DEF Control
    <2> QED
      BY <2>3, <2>4, <2>6, <2>10, <1>moveFrame, Zenon
  <1>restsControl. ASSUME Rests(o) PROVE ControlInv'
    <2> USE <1>restsControl
    <2>1. PICK l \in Quiet : Goto(o, l) /\ Allows(l, mode[o])
      BY Zenon DEF Rests
    <2>2. /\ pc'[o] = l /\ l \in Labels /\ l \notin Waiting /\ l \notin Failing
          /\ l \notin {"idle", "done"}
      BY <2>1, ControlTypes, LabelKinds, Zenon DEF Goto
    <2>3. UNCHANGED <<mode, cmp, result>> /\ result' \in [Ops -> {"none"} \cup Returned]
      BY ControlTypes, Zenon DEF Rests
    <2>4. Place(o)'
      BY <2>1, <2>2, <2>3, Zenon DEF Place
    <2>5. Told(o)'
      <3>1. effect'[o] = "none" /\ ~Running(o)' /\ result'[o] = "none"
        BY <2>3, Zenon DEF Rests, Client, Running
      <3> QED
        BY <2>2, <3>1, Zenon DEF Told
    <2>6. Control(o)'
      BY <2>3, <2>4, <2>5, <1>compoundKept, Zenon DEF Control
    <2> QED
      BY <2>1, <2>2, <2>3, <2>6, <1>compoundKept, <1>moveFrame, Zenon
  <1>learnsControl. ASSUME Learns(o) PROVE ControlInv'
    <2> USE <1>learnsControl
    <2>1. PICK l \in Failing : Goto(o, l) /\ Allows(l, mode[o])
      BY Zenon DEF Learns
    <2>2. /\ pc'[o] = l /\ l \in Labels /\ l \notin Waiting /\ l \notin Quiet
          /\ l \notin {"idle", "done"}
      BY <2>1, ControlTypes, LabelKinds, Zenon DEF Goto
    <2>3. /\ UNCHANGED <<mode, cmp, result>> /\ result' \in [Ops -> {"none"} \cup Returned]
          /\ cmp[o].st # "none"
      BY ControlTypes, Zenon DEF Learns
    <2>4. Place(o)'
      BY <2>1, <2>2, <2>3, Zenon DEF Place
    <2>5. Told(o)'
      <3>1. /\ result'[o] = "none" /\ (Running(o)' <=> Running(o)) /\ cmp'[o] = cmp[o]
            /\ err'[o] \in CallErrors \/ (~Running(o) /\ err'[o] = Decoded(cmp[o]) /\ err'[o] # NoError)
        BY <2>3, Zenon DEF Learns, Running
      <3> QED
        BY <2>2, <3>1, Zenon DEF Told
    <2>6. Control(o)'
      BY <2>3, <2>4, <2>5, <1>compoundKept, Zenon DEF Control
    <2> QED
      BY <2>1, <2>2, <2>3, <2>6, <1>compoundKept, <1>moveFrame, Zenon
  <1>endsControl. ASSUME NEW r \in Returned, Ends(o, r) PROVE ControlInv'
    <2> USE <1>endsControl
    <2>1. /\ pc'[o] = "done" /\ "done" \in Labels /\ Goto(o, "done")
          /\ "done" \notin Quiet \cup Waiting \cup Failing \cup {"idle"}
      BY ControlTypes, LabelKinds, Zenon DEF Goto, Ends
    <2>2. /\ UNCHANGED <<mode, cmp>> /\ mode[o] # "none" /\ result'[o] = r
          /\ result' \in [Ops -> {"none"} \cup Returned]
          /\ \A p \in Ops \ {o} : result'[p] = result[p]
      BY ControlTypes, Zenon DEF Ends
    <2>3. Place(o)'
      BY <2>1, <2>2, Zenon DEF Place, Allows
    <2>4. Told(o)'
      BY <2>1, <2>2, Zenon DEF Told, Ends, Client, Running
    <2>5. Control(o)'
      BY <2>2, <2>3, <2>4, <1>compoundKept, Zenon DEF Control
    <2> QED
      BY <2>1, <2>2, <2>5, <1>compoundKept, <1>moveFrame, Zenon
  <1>dropsControl. ASSUME Drops(o) PROVE ControlInv'
    <2> USE <1>dropsControl
    <2>1. /\ pc'[o] = "done" /\ "done" \in Labels /\ Goto(o, "done")
          /\ "done" \notin Quiet \cup Waiting \cup Failing \cup {"idle"}
      BY ControlTypes, LabelKinds, Zenon DEF Goto, Drops
    <2>2. /\ UNCHANGED <<mode, cmp, result>> /\ mode[o] # "none" /\ result'[o] = "none"
          /\ result' \in [Ops -> {"none"} \cup Returned]
      BY ControlTypes, Zenon DEF Drops
    <2>3. Place(o)'
      BY <2>1, <2>2, Zenon DEF Place, Allows
    <2>4. Told(o)'
      BY <2>1, <2>2, Zenon DEF Told
    <2>5. Control(o)'
      BY <2>2, <2>3, <2>4, <1>compoundKept, Zenon DEF Control
    <2> QED
      BY <2>1, <2>2, <2>5, <1>compoundKept, <1>moveFrame, Zenon
  <1>sendsControl. ASSUME Sends(o) PROVE ControlInv'
    <2> USE <1>sendsControl
    <2>1. PICK l \in Waiting : Goto(o, l) /\ Allows(l, mode[o])
      BY Zenon DEF Sends
    <2>2. /\ pc'[o] = l /\ l \in Labels /\ l \notin Quiet /\ l \notin Failing
          /\ l \notin {"idle", "done"}
      BY <2>1, ControlTypes, LabelKinds, Zenon DEF Goto
    <2>3. /\ UNCHANGED <<mode, result>> /\ result' \in [Ops -> {"none"} \cup Returned]
          /\ mode' \in [Ops -> Modes \cup {"none"}] /\ Only(o)
          /\ effect'[o] = "none" /\ result'[o] = "none" /\ mode'[o] = mode[o]
      BY ControlTypes, Zenon DEF Sends, Client
    <2>4. /\ cmp'[o].next = 1 /\ cmp'[o].st \in {"running", "notsent", "invalid"}
          /\ Blank(cmp'[o]) \/ (Ordered(cmp'[o].ops, mode[o]) /\ cmp'[o].st = "running")
          /\ cmp'[o] \in Compounds
      BY <2>3, Zenon DEF Sends, Only
    <2>5. Shape(o)'
      BY <2>3, <2>4 DEF Shape, Full, Ordered, Compounds
    <2>6. \A n : ~Ran(cmp'[o], n)
      BY <2>4, BlankRan, Zenon
    <2>7. Place(o)' /\ Effect(o)' /\ Looked(o)'
      BY <2>1, <2>2, <2>3, <2>4, <2>6, Zenon DEF Place, Effect, Looked
    <2>8. Told(o)'
      BY <2>2, <2>3, Zenon DEF Told
    <2>9. Control(o)'
      BY <2>5, <2>7, <2>8, Zenon DEF Control
    <2> QED
      BY <2>1, <2>2, <2>3, <2>9, <1>moveFrame, Zenon
  <1> QED
    BY <1>asksControl, <1>restsControl, <1>sendsControl, <1>learnsControl, <1>dropsControl,
       <1>endsControl, Zenon DEF Moves

-----------------------------------------------------------------------------
(* What the client knows *)

LEMMA AllowsDelete ==
  \A l \in {"begin", "remove", "removing", "reconnect", "done"} : Allows(l, "delete")
  BY Zenon DEF Allows, Failing

LEMMA ClientStill ==
  ASSUME ControlInv, NEW o \in Ops,
         UNCHANGED <<parent, dest, temps, effect, boot, temp, unstable, err>>
  PROVE  Client(o)
  BY ControlTypes, Zenon DEF Client

\* should_reconnect: another attempt, or the error.
LEMMA FailMoves ==
  ASSUME ControlInv, NEW o \in Ops, NEW e \in Errors, Fail(o, e),
         effect[o] = "none", ~Running(o), result[o] = "none", mode[o] \in Puts \cup {"delete"},
         UNCHANGED <<mode, cmp>>
  PROVE  /\ Moves(o) /\ err' \in [Ops -> Errors]
         /\ \A p \in Ops \ {o} : err'[p] = err[p]
  <1>1. err' \in [Ops -> Errors] /\ \A p \in Ops \ {o} : err'[p] = err[p]
    BY ControlTypes, Zenon DEF Fail
  <1>2. Allows("reconnect", mode[o]) /\ "reconnect" \in Quiet /\ mode[o] # "none"
    BY AllowsPut, AllowsDelete, Zenon DEF Labels, Quiet, Puts
  <1>3. CASE Goto(o, "reconnect") /\ UNCHANGED result
    BY <1>1, <1>2, <1>3, Zenon DEF Rests, Moves
  <1>4. CASE Finish(o, "error")
    <2>1. Ends(o, "error") /\ "error" \in Returned
      BY <1>2, <1>4, Zenon DEF Ends, Finish, Returned
    <2> QED
      BY <1>1, <2>1, Zenon DEF Moves
  <1> QED
    BY <1>1, <1>3, <1>4, Zenon DEF Fail

LEMMA IssueSends ==
  ASSUME ControlInv, NEW o \in Ops, NEW label \in Waiting, Allows(label, mode[o]),
         NEW ops \in Seq(OpNames), Ordered(ops, mode[o]), NEW v \in -1 .. MaxLosses,
         Issue(o, label, ops, v), effect[o] = "none", result[o] = "none",
         UNCHANGED <<mode, result>>
  PROVE  Moves(o)
  <1>1. -1 \in -1 .. MaxLosses /\ <<>> \in Seq(OpNames) /\ Len(<<>>) = 0
    BY BoundsAssumption
  <1>2. cmp \in [Ops -> Compounds]
    BY ControlTypes, Zenon
  <1>3. CASE cmp' = [cmp EXCEPT ![o] = [Compound(ops) EXCEPT !.write = v]]
    <2> DEFINE d == [Compound(ops) EXCEPT !.write = v]
    <2>1. d \in Compounds /\ d.ops = ops /\ d.next = 1 /\ d.st = "running"
      BY <1>1, Zenon DEF Compounds, Compound, NoCompound
    <2> HIDE DEF d
    <2>2. cmp' = [cmp EXCEPT ![o] = d]
      BY <1>3, Zenon DEF d
    <2>3. Only(o) /\ cmp'[o] = d
      BY <1>2, <2>1, <2>2, Zenon DEF Only
    <2>4. Sends(o)
      BY <2>1, <2>3, Zenon DEF Sends, Issue
    <2> QED
      BY <2>4, Zenon DEF Moves
  <1>4. ASSUME NEW st \in {"notsent", "invalid"},
               cmp' = [cmp EXCEPT ![o] = [NoCompound EXCEPT !.st = st]]
        PROVE  Moves(o)
    <2> DEFINE d == [NoCompound EXCEPT !.st = st]
    <2>1. d \in Compounds /\ d.ops = <<>> /\ d.next = 1 /\ d.st = st
      BY <1>1, Zenon DEF Compounds, NoCompound
    <2> HIDE DEF d
    <2>2. cmp' = [cmp EXCEPT ![o] = d]
      BY <1>4, Zenon DEF d
    <2>3. Only(o) /\ cmp'[o] = d
      BY <1>2, <2>1, <2>2, Zenon DEF Only
    <2>4. Blank(d)
      BY <1>1, <2>1, Zenon DEF Blank
    <2>5. Sends(o)
      BY <2>1, <2>3, <2>4, Zenon DEF Sends, Issue
    <2> QED
      BY <2>5, Zenon DEF Moves
  <1> QED
    BY <1>3, <1>4, Zenon DEF Issue

\* classify_publish_error and the retries of close_publish are right about the
\* compound that was answered.
LEMMA PutAnswer ==
  ASSUME ControlInv, NEW o \in Ops, mode[o] \in Puts, ~Running(o), cmp[o].st # "none",
         NEW e, e = Decoded(cmp[o])
  PROVE  /\ e = NoError => effect[o] = "applied"
         /\ Published(o, e) => effect[o] = "applied"
         /\ AlreadyExists(o, e) => effect[o] = "rejected"
         /\ NoPublish(o, e) => effect[o] = "none"
         /\ e.st = "delay" /\ Completed(o, e) \cap {"link", "rename"} = {} => effect[o] = "none"
  <1>endRan. ASSUME NEW c \in Compounds, NEW m, Full(c, m), c.st = "ok"
             PROVE  /\ m = "overwrite" => Ran(c, "rename")
                    /\ m = "create" => Ran(c, "link")
    <2> USE <1>endRan
    <2>1. Ordered(c.ops, m) /\ c.next = Len(c.ops) + 1 /\ Len(c.ops) \in Nat
      BY DEF Full, Compounds
    <2>2. m = "overwrite" => Ran(c, "rename")
      BY <2>1 DEF Ran, Ordered
    <2>3. m = "create" => Ran(c, "link")
      BY <2>1 DEF Ran, Ordered
    <2> QED
      BY <2>2, <2>3, Zenon
  <1>1. /\ cmp[o] \in Compounds /\ mode[o] # "delete"
        /\ effect[o] \in {"none", "applied", "rejected"}
        /\ effect[o] = "applied" <=> Ran(cmp[o], "link") \/ Ran(cmp[o], "rename")
        /\ effect[o] = "rejected" <=> cmp[o].st = "exist" /\ Op(o) = "link"
    BY ControlTypes, AllowsPut, Zenon DEF Effect
  <1>2. CASE e = NoError
    <2>1. effect[o] = "applied"
      BY <1>1, <1>2, DecodedTrue, <1>endRan, Zenon DEF Puts
    <2> QED
      BY <1>2, <2>1, LocalErrors DEF Published, AlreadyExists, NoPublish, ProvesNotRun
  <1>3. CASE e.op = "none" /\ e # NoError
    <2>1. e \in {Local("notsent"), Local("invalid"), Local("verifier")}
      BY <1>3, DecodedTrue, Zenon
    <2>2. e.st # "delay" /\ ~Published(o, e) /\ ~AlreadyExists(o, e)
      BY <1>3, <2>1, LocalErrors DEF Published, AlreadyExists
    <2>3. ASSUME NoPublish(o, e) PROVE effect[o] = "none"
      <3>1. e \in {Local("notsent"), Local("invalid")}
        BY <1>3, <2>1, <2>3, LocalErrors, Zenon DEF NoPublish, ProvesNotRun
      <3>2. Blank(cmp[o])
        BY <3>1, DecodedTrue, Zenon
      <3> QED
        BY <1>1, <3>2, BlankRan, Zenon DEF Blank
    <2> QED
      BY <1>3, <2>2, <2>3, Zenon
  <1>4. CASE e.op # "none"
    <2>1. /\ e.op = Op(o) /\ e.st = cmp[o].st /\ Full(cmp[o], mode[o])
          /\ cmp[o].next \in 1 .. Len(cmp[o].ops) /\ e = [op |-> Op(o), st |-> cmp[o].st]
      BY <1>4, DecodedTrue
    <2>2. /\ Op(o) = "link" => mode[o] = "create"
          /\ Op(o) = "remove" => mode[o] = "create" /\ Ran(cmp[o], "link")
          /\ Op(o) # "remove" => ~Ran(cmp[o], "link")
          /\ ~Ran(cmp[o], "rename")
      BY <1>1, <2>1, AtOp DEF Op, Puts
    <2>3. Published(o, e) <=> mode[o] = "create" /\ Op(o) = "remove"
      BY <2>1, Zenon DEF Published
    <2>4. AlreadyExists(o, e) <=> mode[o] = "create" /\ Op(o) = "link" /\ cmp[o].st = "exist"
      BY <2>1 DEF AlreadyExists
    <2>5. e.st = "delay" /\ Completed(o, e) \cap {"link", "rename"} = {} => effect[o] = "none"
      BY <1>1, <1>4, <2>1, Zenon DEF Completed, Ran
    <2>6. e # NoError
      BY <1>4, LocalErrors, Zenon
    <2> QED
      BY <1>1, <2>2, <2>3, <2>4, <2>5, <2>6, Zenon DEF NoPublish
  <1> QED
    BY <1>2, <1>3, <1>4, Zenon

-----------------------------------------------------------------------------
(* The client's actions *)

LEMMA PutLabels ==
  ASSUME NEW m \in Puts
  PROVE  /\ \A l \in {"fuse", "open", "mkdir", "reopen", "write", "write_failed", "close",
                      "republish"} : l \in Quiet /\ Allows(l, m)
         /\ \A l \in {"fused", "publish"} : l \in Waiting /\ Allows(l, m)
         /\ \A l \in Failing : Allows(l, m)
  <1>1. \A l \in (Labels \ {"idle", "remove", "removing"}) : Allows(l, m)
    BY AllowsPut, Zenon
  <1> QED
    BY <1>1, Zenon DEF Labels, Quiet, Waiting, Failing

LEMMA FinishEnds ==
  ASSUME NEW o \in Ops, NEW r \in Returned, Finish(o, r), mode[o] # "none", result[o] = "none",
         r = "ok" => effect[o] = "applied" /\ ~Running(o),
         r = "exists" => effect[o] = "rejected" /\ ~Running(o),
         r = "error" => effect[o] = "none" /\ ~Running(o),
         UNCHANGED <<mode, cmp>>
  PROVE  Moves(o)
  <1>1. Ends(o, r)
    BY Zenon DEF Returned, Finish, Ends
  <1> QED
    BY <1>1, Zenon DEF Moves

LEMMA LearnsMoves ==
  ASSUME ControlInv, NEW o \in Ops, pc[o] \in Waiting, NEW e, Returns(o, e), e # NoError,
         mode[o] \in Puts, NEW label \in Failing, Goto(o, label),
         err' = [err EXCEPT ![o] = e], UNCHANGED <<mode, cmp, result>>
  PROVE  /\ Moves(o) /\ err' \in [Ops -> Errors]
         /\ \A p \in Ops \ {o} : err'[p] = err[p]
  <1>1. /\ err' \in [Ops -> Errors] /\ err'[o] = e
        /\ \A p \in Ops \ {o} : err'[p] = err[p]
    BY ReturnsTold, ControlTypes, Zenon
  <1>2. Learns(o)
    BY <1>1, ReturnsTold, PutLabels, Zenon DEF Learns
  <1> QED
    BY <1>1, <1>2, Zenon DEF Moves

LEMMA RemoveTempKeeps ==
  ASSUME NEW o \in Ops, RemoveTemp(o)
  PROVE  temps' \subseteq temps
  BY Zenon DEF RemoveTemp

LEMMA StepMoves ==
  ASSUME ControlInv, NEW o \in Ops, Step(o) \/ Cancel(o)
  PROVE  Client(o) /\ Moves(o)
  <1>startMoves. ASSUME Start(o) PROVE Client(o) /\ Moves(o)
    <2> USE <1>startMoves
    <2>1. Client(o)
      BY ClientStill, Zenon DEF Start, serverVars, callVars
    <2>2. Asks(o)
      BY Zenon DEF Start, Asks
    <2> QED
      BY <2>1, <2>2, Zenon DEF Moves
  <1>beginMoves. ASSUME Begin(o) PROVE Client(o) /\ Moves(o)
    <2> USE <1>beginMoves
    <2>1. pc[o] \in Quiet
      BY Zenon DEF Begin, Quiet
    <2>2. /\ effect[o] = "none" /\ ~Running(o) /\ result[o] = "none"
          /\ mode[o] \in Puts \cup {"delete"}
      BY <2>1, AtRest, Zenon
    <2>3. temp' \in [Ops -> Nat] /\ unstable' \in [Ops -> -1 .. MaxLosses]
      <3>1. temp \in [Ops -> Nat] /\ unstable \in [Ops -> -1 .. MaxLosses]
        BY ControlTypes, Zenon
      <3>2. -1 \in -1 .. MaxLosses
        BY BoundsAssumption
      <3> QED
        BY <3>1, <3>2 DEF Begin, NewTemp
    <2>4. Client(o)
      BY <2>3, ControlTypes, Zenon DEF Begin, Client, serverVars
    <2>5. \E l \in Quiet : Goto(o, l) /\ Allows(l, mode[o])
      <3>1. CASE mode[o] = "delete"
        BY <3>1, AllowsDelete, Zenon DEF Begin, Quiet
      <3>2. CASE mode[o] \in Puts
        <4>1. Allows("fuse", mode[o]) /\ "fuse" \in Quiet /\ mode[o] # "delete"
          BY <3>2, AllowsPut, Zenon DEF Quiet, Labels
        <4> QED
          BY <4>1, Zenon DEF Begin
      <3> QED
        BY <2>2, <3>1, <3>2, Zenon
    <2> QED
      BY <2>2, <2>4, <2>5, Zenon DEF Begin, Rests, Moves
  <1>fuseMoves. ASSUME Fuse(o) PROVE Client(o) /\ Moves(o)
    <2> USE <1>fuseMoves
    <2>1. pc[o] = "fuse" /\ pc[o] \in Quiet
      BY Zenon DEF Fuse, Quiet
    <2>2. effect[o] = "none" /\ ~Running(o) /\ result[o] = "none" /\ mode[o] \in Puts
      BY <2>1, AtRest, Zenon
    <2>3. Client(o)
      BY ClientStill, Zenon DEF Fuse, serverVars
    <2>4. UNCHANGED <<mode, result>>
      BY Zenon DEF Fuse
    <2>5. CASE Issue(o, "fused", FusedOps(o), -1)
      <3>1. -1 \in -1 .. MaxLosses
        BY BoundsAssumption
      <3>2. /\ "fused" \in Waiting /\ Allows("fused", mode[o])
            /\ FusedOps(o) \in Seq(OpNames) /\ Ordered(FusedOps(o), mode[o])
        BY <2>2, FusedOpsOrdered, PutLabels, Zenon
      <3> QED
        BY <2>2, <2>3, <2>4, <2>5, <3>1, <3>2, IssueSends, Zenon
    <2>6. CASE Goto(o, "open") /\ UNCHANGED cmp
      BY <2>2, <2>3, <2>4, <2>6, PutLabels, Zenon DEF Rests, Moves
    <2> QED
      BY <2>5, <2>6, Zenon DEF Fuse
  <1>fusedReturnsMoves. ASSUME FusedReturns(o) PROVE Client(o) /\ Moves(o)
    <2> USE <1>fusedReturnsMoves
    <2>1. pc[o] = "fused" /\ pc[o] \in Waiting
      BY Zenon DEF FusedReturns, Waiting
    <2>2. /\ result[o] = "none" /\ mode[o] \in Puts /\ cmp[o].st # "none"
          /\ mode[o] # "none" /\ mode[o] # "delete"
      BY <2>1, AtWait, AllowsPut, Zenon
    <2>3. UNCHANGED <<parent, dest, temps, effect, boot, temp, unstable, mode>>
      BY Zenon DEF FusedReturns, serverVars
    <2>4. ASSUME NEW e, Returns(o, e), e = NoError, Finish(o, "ok"), UNCHANGED <<cmp, err>>
          PROVE  Client(o) /\ Moves(o)
      <3>1. ~Running(o) /\ effect[o] = "applied"
        BY <2>1, <2>2, <2>4, ReturnsTold, PutAnswer, Zenon
      <3>2. "ok" \in Returned
        BY Zenon DEF Returned
      <3> QED
        BY <2>2, <2>3, <2>4, <3>1, <3>2, FinishEnds, ClientStill, Zenon
    <2>5. ASSUME NEW e, Returns(o, e), IsNameCollision(e),
                 Goto(o, "fuse") \/ Goto(o, "open"), UNCHANGED <<cmp, result, err>>
          PROVE  Client(o) /\ Moves(o)
      <3>1. e.op = "open"
        BY <2>5, Zenon DEF IsNameCollision
      <3>2. ~Running(o) /\ e = Decoded(cmp[o])
        BY <2>1, <2>5, <3>1, ReturnsTold, Zenon
      <3>3. NoPublish(o, e)
        BY <3>1 DEF NoPublish, Published, AlreadyExists, ProvesNotRun
      <3>4. effect[o] = "none"
        BY <2>2, <3>2, <3>3, PutAnswer, Zenon
      <3>5. Rests(o)
        BY <2>2, <2>3, <2>5, <3>2, <3>4, PutLabels, Zenon DEF Rests
      <3> QED
        BY <2>3, <2>5, <3>5, ClientStill, Zenon DEF Moves
    <2>6. ASSUME NEW e, Returns(o, e), e # NoError, err' = [err EXCEPT ![o] = e],
                 Goto(o, "fused_failed"), UNCHANGED <<cmp, result>>
          PROVE  Client(o) /\ Moves(o)
      <3>1. "fused_failed" \in Failing
        BY Zenon DEF Failing
      <3>2. /\ Moves(o) /\ err' \in [Ops -> Errors]
            /\ \A p \in Ops \ {o} : err'[p] = err[p]
        BY <2>1, <2>2, <2>3, <2>6, <3>1, LearnsMoves, Zenon
      <3> QED
        BY <2>3, <3>2, ControlTypes, Zenon DEF Client
    <2> QED
      BY <2>4, <2>5, <2>6, Zenon DEF FusedReturns
  <1>failedMoves. ASSUME FusedFailed(o) \/ PublishFailed(o)
                  PROVE  Client(o) /\ Moves(o)
    <2> USE <1>failedMoves
    <2>classified. ASSUME pc[o] \in Failing
                   PROVE  /\ err[o] \in Errors
                          /\ Published(o, err[o]) => effect[o] = "applied" /\ ~Running(o)
                          /\ AlreadyExists(o, err[o]) => effect[o] = "rejected" /\ ~Running(o)
                          /\ NoPublish(o, err[o]) => effect[o] = "none" /\ ~Running(o)
      <3> USE <2>classified
      <3>1. /\ mode[o] \in Puts /\ cmp[o].st # "none" /\ err[o] \in Errors
            /\ err[o] \in CallErrors \/ (~Running(o) /\ err[o] = Decoded(cmp[o]))
        BY AtFailing, ControlTypes, Zenon
      <3>2. CASE err[o] \in CallErrors
        <4>1. err[o].op = "none" /\ err[o].st \in {"lost", "malformed"}
          BY <3>2, LocalErrors, Zenon DEF CallErrors
        <4>2. ~Published(o, err[o]) /\ ~AlreadyExists(o, err[o]) /\ ~NoPublish(o, err[o])
          BY <4>1 DEF Published, AlreadyExists, NoPublish, ProvesNotRun
        <4> QED
          BY <3>1, <4>2, Zenon
      <3>3. CASE ~Running(o) /\ err[o] = Decoded(cmp[o])
        BY <3>1, <3>3, PutAnswer, Zenon
      <3> QED
        BY <3>1, <3>2, <3>3, Zenon
    <2>concludeMoves. ASSUME pc[o] \in Failing, Conclude(o, err[o]), UNCHANGED <<mode, cmp>>
                      PROVE  Moves(o) /\ UNCHANGED err
      <3> USE <2>concludeMoves
      <3>1. mode[o] # "none" /\ result[o] = "none"
        BY AtFailing, AllowsPut, Zenon
      <3>2. CASE Published(o, err[o])
        <4>1. Finish(o, "ok") /\ "ok" \in Returned
          BY <3>2, Zenon DEF Conclude, Returned
        <4> QED
          BY <3>1, <3>2, <4>1, <2>classified, FinishEnds, Zenon DEF Conclude
      <3>3. CASE ~Published(o, err[o]) /\ AlreadyExists(o, err[o])
        <4>1. Finish(o, "exists") /\ "exists" \in Returned
          BY <3>3, Zenon DEF Conclude, Returned
        <4> QED
          BY <3>1, <3>3, <4>1, <2>classified, FinishEnds, Zenon DEF Conclude
      <3>4. CASE ~Published(o, err[o]) /\ ~AlreadyExists(o, err[o])
        <4>1. Finish(o, "unknown") /\ "unknown" \in Returned
          BY <3>4, Zenon DEF Conclude, Returned
        <4> QED
          BY <3>1, <4>1, FinishEnds, Zenon DEF Conclude
      <3> QED
        BY <3>2, <3>3, <3>4, Zenon
    <2>1. pc[o] \in Failing
      BY Zenon DEF FusedFailed, PublishFailed, Failing
    <2>2. result[o] = "none" /\ mode[o] \in Puts
      BY <2>1, AtFailing, Zenon
    <2>3. /\ UNCHANGED <<parent, dest, effect, boot, temp, unstable, mode, cmp>>
          /\ temps' \subseteq temps
      BY RemoveTempKeeps, Zenon DEF FusedFailed, PublishFailed, callVars
    <2>4. Client(o) <=> err' \in [Ops -> Errors] /\ \A p \in Ops \ {o} : err'[p] = err[p]
      BY <2>3, ControlTypes, Zenon DEF Client
    <2>5. CASE Conclude(o, err[o])
      BY <2>1, <2>3, <2>4, <2>5, <2>concludeMoves, ControlTypes, Zenon
    <2>6. CASE NoPublish(o, err[o]) /\ Fail(o, err[o])
      <3>1. effect[o] = "none" /\ ~Running(o) /\ err[o] \in Errors
        BY <2>1, <2>6, <2>classified, Zenon
      <3>2. mode[o] \in Puts \cup {"delete"}
        BY <2>2, Zenon
      <3> QED
        BY <2>2, <2>3, <2>4, <2>6, <3>1, <3>2, FailMoves, Zenon
    <2>7. CASE NoPublish(o, err[o]) /\ Goto(o, "open") /\ UNCHANGED <<err, result>>
      <3>1. effect[o] = "none" /\ ~Running(o)
        BY <2>1, <2>7, <2>classified, Zenon
      <3>2. Rests(o)
        BY <2>2, <2>3, <2>7, <3>1, PutLabels, Zenon DEF Rests
      <3> QED
        BY <2>4, <2>7, <3>2, ControlTypes, Zenon DEF Moves
    <2> QED
      BY <2>5, <2>6, <2>7, Zenon DEF FusedFailed, PublishFailed
  <1>openTempMoves. ASSUME OpenTemp(o) PROVE Client(o) /\ Moves(o)
    <2> USE <1>openTempMoves
    <2>1. pc[o] \in {"open", "reopen"} /\ pc[o] \in Quiet
      BY Zenon DEF OpenTemp, Quiet
    <2>2. effect[o] = "none" /\ ~Running(o) /\ result[o] = "none" /\ mode[o] \in Puts
      BY <2>1, AtRest, Zenon
    <2>3. UNCHANGED <<parent, dest, effect, boot, unstable, mode, cmp>>
      BY Zenon DEF OpenTemp
    <2>4. temp' \in [Ops -> Nat] /\ (temps' # {} => temps # {} \/ parent)
      <3>1. temp' = temp \/ NewTemp(o)
        BY Zenon DEF OpenTemp
      <3>2. temps' = temps \/ parent \/ temps' = temps \cup {}
        BY Zenon DEF OpenTemp
      <3> QED
        BY <3>1, <3>2, ControlTypes DEF NewTemp
    <2>5. Client(o) <=> err' \in [Ops -> Errors] /\ \A p \in Ops \ {o} : err'[p] = err[p]
      BY <2>3, <2>4, ControlTypes, Zenon DEF Client
    <2>6. CASE (Goto(o, "write") \/ Goto(o, "mkdir")) /\ UNCHANGED <<err, result>>
      <3>1. Rests(o)
        BY <2>2, <2>3, <2>6, PutLabels, Zenon DEF Rests
      <3> QED
        BY <2>5, <2>6, <3>1, ControlTypes, Zenon DEF Moves
    <2>7. CASE UNCHANGED <<pc, err, result>>
      <3>1. Goto(o, pc[o]) /\ Allows(pc[o], mode[o])
        BY <2>7, ControlTypes, Zenon DEF Goto, Place
      <3>2. Rests(o)
        BY <2>1, <2>2, <2>3, <2>7, <3>1, Zenon DEF Rests
      <3> QED
        BY <2>5, <2>7, <3>2, ControlTypes, Zenon DEF Moves
    <2>8. CASE \E e \in CallErrors : Fail(o, e)
      <3>1. CallErrors \subseteq Errors /\ mode[o] \in Puts \cup {"delete"}
        BY <2>2, LocalErrors, Zenon
      <3> QED
        BY <2>2, <2>3, <2>5, <2>8, <3>1, FailMoves, Zenon
    <2> QED
      BY <2>6, <2>7, <2>8, Zenon DEF OpenTemp
  <1>createParentDirsMoves. ASSUME CreateParentDirs(o) PROVE Client(o) /\ Moves(o)
    <2> USE <1>createParentDirsMoves
    <2>1. pc[o] = "mkdir" /\ pc[o] \in Quiet
      BY Zenon DEF CreateParentDirs, Quiet
    <2>2. effect[o] = "none" /\ ~Running(o) /\ result[o] = "none" /\ mode[o] \in Puts
      BY <2>1, AtRest, Zenon
    <2>3. UNCHANGED <<dest, temps, effect, boot, temp, unstable, mode, cmp>> /\ (parent => parent')
      <3>1. UNCHANGED <<dest, temps, effect, boot, temp, unstable, mode, cmp>>
        BY Zenon DEF CreateParentDirs
      <3>2. parent' = TRUE \/ parent' = parent
        BY Zenon DEF CreateParentDirs
      <3>3. parent => parent'
        BY <3>2, Zenon
      <3> QED
        BY <3>1, <3>3, Zenon
    <2>4. Client(o) <=> err' \in [Ops -> Errors] /\ \A p \in Ops \ {o} : err'[p] = err[p]
      BY <2>3, ControlTypes, Zenon DEF Client
    <2>5. CASE Goto(o, "reopen") /\ UNCHANGED <<err, result>>
      <3>1. Rests(o)
        BY <2>2, <2>3, <2>5, PutLabels, Zenon DEF Rests
      <3> QED
        BY <2>4, <2>5, <3>1, ControlTypes, Zenon DEF Moves
    <2>6. CASE \E e \in CallErrors : Fail(o, e)
      <3>1. CallErrors \subseteq Errors /\ mode[o] \in Puts \cup {"delete"}
        BY <2>2, LocalErrors, Zenon
      <3> QED
        BY <2>2, <2>3, <2>4, <2>6, <3>1, FailMoves, Zenon
    <2> QED
      BY <2>5, <2>6, Zenon DEF CreateParentDirs
  <1>writeMoves. ASSUME WriteChunk(o) \/ WriteFails(o) PROVE Client(o) /\ Moves(o)
    <2> USE <1>writeMoves
    <2>1. pc[o] = "write" /\ pc[o] \in Quiet
      BY Zenon DEF WriteChunk, WriteFails, Quiet
    <2>2. effect[o] = "none" /\ ~Running(o) /\ result[o] = "none" /\ mode[o] \in Puts
      BY <2>1, AtRest, Zenon
    <2>3. UNCHANGED <<parent, dest, temps, effect, boot, temp, mode, cmp, result>>
      BY Zenon DEF WriteChunk, WriteFails, serverVars, callVars
    <2>4. unstable' \in [Ops -> -1 .. MaxLosses]
      <3>1. unstable' = unstable \/ unstable' = [unstable EXCEPT ![o] = boot]
        <4>1. unstable \in [Ops -> -1 .. MaxLosses]
          BY ControlTypes, Zenon
        <4>2. ASSUME WriteChunk(o) PROVE unstable' = unstable \/ unstable' = [unstable EXCEPT ![o] = boot]
          <5>1. PICK dirty \in BOOLEAN : unstable' = [unstable EXCEPT ![o] = IF dirty THEN boot ELSE @]
            BY <4>2, Zenon DEF WriteChunk
          <5> QED
            BY <4>1, <5>1, Zenon
        <4> QED
          BY <4>2, Zenon DEF WriteFails, callVars
      <3>2. unstable \in [Ops -> -1 .. MaxLosses] /\ boot \in 0 .. MaxLosses
        BY ControlTypes, Zenon
      <3>3. boot \in -1 .. MaxLosses
        BY <3>2, BoundsAssumption
      <3> QED
        BY <3>1, <3>2, <3>3, Zenon
    <2>5. err' = err \/ \E e \in CallErrors \cup {Local("verifier")} : err' = [err EXCEPT ![o] = e]
      BY Zenon DEF WriteChunk, WriteFails
    <2>6. err' \in [Ops -> Errors] /\ \A p \in Ops \ {o} : err'[p] = err[p]
      BY <2>5, ControlTypes, LocalErrors
    <2>7. Client(o)
      BY <2>3, <2>4, <2>6, ControlTypes, Zenon DEF Client
    <2>8. Goto(o, "close") \/ Goto(o, "write") \/ Goto(o, "write_failed")
      BY Zenon DEF WriteChunk, WriteFails
    <2>9. Rests(o)
      BY <2>2, <2>3, <2>8, PutLabels, Zenon DEF Rests
    <2> QED
      BY <2>7, <2>9, Zenon DEF Moves
  <1>writeFailedMoves. ASSUME WriteFailed(o) PROVE Client(o) /\ Moves(o)
    <2> USE <1>writeFailedMoves
    <2>1. pc[o] = "write_failed" /\ pc[o] \in Quiet
      BY Zenon DEF WriteFailed, Quiet
    <2>2. /\ effect[o] = "none" /\ ~Running(o) /\ result[o] = "none"
          /\ mode[o] \in Puts \cup {"delete"} /\ err[o] \in Errors
      BY <2>1, AtRest, ControlTypes, Zenon
    <2>3. /\ UNCHANGED <<parent, dest, effect, boot, temp, unstable, mode, cmp>>
          /\ temps' \subseteq temps
      BY RemoveTempKeeps, Zenon DEF WriteFailed, callVars
    <2>4. Client(o) <=> err' \in [Ops -> Errors] /\ \A p \in Ops \ {o} : err'[p] = err[p]
      BY <2>3, ControlTypes, Zenon DEF Client
    <2>5. PICK e \in Errors : Fail(o, e)
      <3>1. \E e \in {err[o], Local("lost")} \cup CallErrors : Fail(o, e)
        BY Zenon DEF WriteFailed
      <3> QED
        BY <2>2, <3>1, LocalErrors, Zenon
    <2> QED
      BY <2>2, <2>3, <2>4, <2>5, FailMoves, Zenon
  <1>issueMoves. ASSUME ClosePublish(o) \/ PublishAfterClose(o) \/ Remove(o)
                 PROVE  Client(o) /\ Moves(o)
    <2> USE <1>issueMoves
    <2>1. pc[o] \in Quiet
      BY Zenon DEF ClosePublish, PublishAfterClose, Remove, Quiet
    <2>2. effect[o] = "none" /\ result[o] = "none"
      BY <2>1, AtRest, Zenon
    <2>3. UNCHANGED <<parent, dest, temps, effect, boot, temp, unstable, mode, err, result>>
      BY Zenon DEF ClosePublish, PublishAfterClose, Remove, serverVars, callVars
    <2>4. Client(o)
      BY <2>3, ClientStill, Zenon
    <2>5. -1 \in -1 .. MaxLosses /\ unstable[o] \in -1 .. MaxLosses
      BY ControlTypes, BoundsAssumption
    <2>6. CASE ClosePublish(o)
      <3>1. mode[o] \in Puts /\ Issue(o, "publish", CloseOps(o), unstable[o])
        BY <2>1, <2>6, AtRest, Zenon DEF ClosePublish
      <3>2. /\ "publish" \in Waiting /\ Allows("publish", mode[o])
            /\ CloseOps(o) \in Seq(OpNames) /\ Ordered(CloseOps(o), mode[o])
        BY <3>1, CloseOpsOrdered, PutLabels, Zenon
      <3> QED
        BY <2>2, <2>3, <2>4, <2>5, <3>1, <3>2, IssueSends, Zenon
    <2>7. CASE PublishAfterClose(o)
      <3>1. mode[o] \in Puts /\ Issue(o, "publish", AfterCloseOps(o), -1)
        BY <2>1, <2>7, AtRest, Zenon DEF PublishAfterClose
      <3>2. /\ "publish" \in Waiting /\ Allows("publish", mode[o])
            /\ AfterCloseOps(o) \in Seq(OpNames) /\ Ordered(AfterCloseOps(o), mode[o])
        BY <3>1, AfterCloseOpsOrdered, PutLabels, Zenon
      <3> QED
        BY <2>2, <2>3, <2>4, <2>5, <3>1, <3>2, IssueSends, Zenon
    <2>8. CASE Remove(o)
      <3>1. mode[o] = "delete" /\ Issue(o, "removing", RemoveOps, -1)
        BY <2>1, <2>8, AtRest, Zenon DEF Remove
      <3>2. /\ "removing" \in Waiting /\ Allows("removing", mode[o])
            /\ RemoveOps \in Seq(OpNames) /\ Ordered(RemoveOps, mode[o])
        BY <3>1, RemoveOpsOrdered, AllowsDelete, Zenon DEF Waiting
      <3> QED
        BY <2>2, <2>3, <2>4, <2>5, <3>1, <3>2, IssueSends, Zenon
    <2> QED
      BY <2>6, <2>7, <2>8, Zenon
  <1>publishReturnsMoves. ASSUME PublishReturns(o) PROVE Client(o) /\ Moves(o)
    <2> USE <1>publishReturnsMoves
    <2>1. pc[o] = "publish" /\ pc[o] \in Waiting
      BY Zenon DEF PublishReturns, Waiting
    <2>2. result[o] = "none" /\ mode[o] \in Puts /\ cmp[o].st # "none" /\ mode[o] # "none"
      BY <2>1, AtWait, AllowsPut, Zenon
    <2>3. UNCHANGED <<parent, dest, temps, effect, boot, temp, unstable, mode, cmp>>
      BY Zenon DEF PublishReturns, serverVars
    <2>4. ASSUME NEW e, Returns(o, e), e = NoError, Finish(o, "ok"), UNCHANGED err
          PROVE  Client(o) /\ Moves(o)
      <3>1. ~Running(o) /\ effect[o] = "applied"
        BY <2>1, <2>2, <2>4, ReturnsTold, PutAnswer, Zenon
      <3>2. "ok" \in Returned
        BY Zenon DEF Returned
      <3> QED
        BY <2>2, <2>3, <2>4, <3>1, <3>2, FinishEnds, ClientStill, Zenon
    <2>5. ASSUME NEW e, Returns(o, e), e.st = "delay", Completed(o, e) \cap {"link", "rename"} = {},
                 Goto(o, "close") \/ Goto(o, "republish"), UNCHANGED <<result, err>>
          PROVE  Client(o) /\ Moves(o)
      <3>1. ~Running(o) /\ e = Decoded(cmp[o])
        BY <2>1, <2>5, ReturnsTold, Zenon
      <3>2. effect[o] = "none"
        BY <2>2, <2>5, <3>1, PutAnswer, Zenon
      <3>3. Rests(o)
        BY <2>2, <2>3, <2>5, <3>1, <3>2, PutLabels, Zenon DEF Rests
      <3> QED
        BY <2>3, <2>5, <3>3, ClientStill, Zenon DEF Moves
    <2>6. ASSUME NEW e, Returns(o, e), e # NoError, err' = [err EXCEPT ![o] = e],
                 Goto(o, "publish_failed"), UNCHANGED result
          PROVE  Client(o) /\ Moves(o)
      <3>1. "publish_failed" \in Failing
        BY Zenon DEF Failing
      <3>2. /\ Moves(o) /\ err' \in [Ops -> Errors]
            /\ \A p \in Ops \ {o} : err'[p] = err[p]
        BY <2>1, <2>2, <2>3, <2>6, <3>1, LearnsMoves, Zenon
      <3> QED
        BY <2>3, <3>2, ControlTypes, Zenon DEF Client
    <2>7. PICK e : Returns(o, e) /\
            \/ e = NoError /\ Finish(o, "ok") /\ UNCHANGED err
            \/ /\ e.st = "delay" /\ Completed(o, e) \cap {"link", "rename"} = {}
               /\ Goto(o, "close") \/ Goto(o, "republish")
               /\ UNCHANGED <<result, err>>
            \/ /\ e # NoError /\ err' = [err EXCEPT ![o] = e]
               /\ Goto(o, "publish_failed") /\ UNCHANGED result
      BY Zenon DEF PublishReturns, ReplayIsSafe, ClaimsRetry
    <2> QED
      BY <2>4, <2>5, <2>6, <2>7, Zenon
  <1>removeReturnsMoves. ASSUME RemoveReturns(o) PROVE Client(o) /\ Moves(o)
    <2> USE <1>removeReturnsMoves
    <2>deleteAnswer. ASSUME mode[o] = "delete", ~Running(o), cmp[o].st # "none", NEW e,
                            e = Decoded(cmp[o])
                     PROVE  /\ e = NoError \/ e.st = "noent" => effect[o] = "applied"
                            /\ ProvesNotRun(e) /\ e.st # "noent" => effect[o] = "none"
                            /\ e.st = "delay" => effect[o] = "none"
      <3> USE <2>deleteAnswer
      <3>1. effect[o] = IF cmp[o].st \in {"ok", "noent"} THEN "applied" ELSE "none"
        BY ControlTypes, Zenon DEF Effect
      <3>2. CASE e.op = "none"
        <4>1. e \in {NoError, Local("notsent"), Local("invalid"), Local("verifier")}
          BY <3>2, DecodedTrue, Zenon
        <4>2. e = NoError => cmp[o].st = "ok"
          BY DecodedTrue, Zenon
        <4>3. e \in {Local("notsent"), Local("invalid")} => cmp[o].st \notin {"ok", "noent"}
          BY DecodedTrue, Zenon DEF Blank
        <4> QED
          BY <3>1, <3>2, <4>1, <4>2, <4>3, LocalErrors, Zenon DEF ProvesNotRun
      <3>3. CASE e.op # "none"
        <4>1. e = [op |-> Op(o), st |-> cmp[o].st] /\ e.st \in Statuses
          BY <3>3, DecodedTrue, Zenon
        <4>2. e.st = cmp[o].st
          BY <4>1
        <4>3. e.st # "ok"
          BY <4>1, Zenon DEF Statuses
        <4> QED
          BY <3>1, <3>3, <4>2, <4>3, LocalErrors, Zenon
      <3> QED
        BY <3>2, <3>3, Zenon
    <2>1. pc[o] = "removing" /\ pc[o] \in Waiting
      BY Zenon DEF RemoveReturns, Waiting
    <2>2. result[o] = "none" /\ mode[o] = "delete" /\ cmp[o].st # "none"
      BY <2>1, AtWait, Zenon
    <2>3. UNCHANGED <<parent, dest, temps, effect, boot, temp, unstable, mode, cmp>>
      BY Zenon DEF RemoveReturns, serverVars
    <2>4. Client(o) <=> err' \in [Ops -> Errors] /\ \A p \in Ops \ {o} : err'[p] = err[p]
      BY <2>3, ControlTypes, Zenon DEF Client
    <2>5. UNCHANGED err => Client(o)
      BY <2>4, ControlTypes, Zenon
    <2>6. ASSUME NEW e, Returns(o, e), e = NoError \/ e.st = "noent", Finish(o, "ok"), UNCHANGED err
          PROVE  Client(o) /\ Moves(o)
      <3>1. ~Running(o) /\ e = Decoded(cmp[o])
        BY <2>1, <2>6, ReturnsTold, Zenon
      <3>2. effect[o] = "applied"
        BY <2>2, <2>6, <3>1, <2>deleteAnswer, Zenon
      <3>3. "ok" \in Returned /\ mode[o] # "none"
        BY <2>2, Zenon DEF Returned
      <3> QED
        BY <2>2, <2>3, <2>5, <2>6, <3>1, <3>2, <3>3, FinishEnds, Zenon
    <2>7. ASSUME NEW e, Returns(o, e), e.st = "delay", Goto(o, "remove"), UNCHANGED <<result, err>>
          PROVE  Client(o) /\ Moves(o)
      <3>1. ~Running(o) /\ e = Decoded(cmp[o])
        BY <2>1, <2>7, ReturnsTold, Zenon
      <3>2. effect[o] = "none"
        BY <2>2, <2>7, <3>1, <2>deleteAnswer, Zenon
      <3>3. "remove" \in Quiet /\ Allows("remove", mode[o])
        BY <2>2, AllowsDelete, Zenon DEF Quiet
      <3>4. Rests(o)
        BY <2>2, <2>3, <2>7, <3>1, <3>2, <3>3, Zenon DEF Rests
      <3> QED
        BY <2>5, <2>7, <3>4, Zenon DEF Moves
    <2>8. ASSUME NEW e, Returns(o, e), e.st # "noent", ProvesNotRun(e), Fail(o, e)
          PROVE  Client(o) /\ Moves(o)
      <3>1. ~Running(o) /\ e = Decoded(cmp[o]) /\ e \in Errors
        BY <2>1, <2>8, ReturnsTold, Zenon DEF ProvesNotRun
      <3>2. effect[o] = "none" /\ mode[o] \in Puts \cup {"delete"}
        BY <2>2, <2>8, <3>1, <2>deleteAnswer, Zenon
      <3> QED
        BY <2>2, <2>3, <2>4, <2>8, <3>1, <3>2, FailMoves, Zenon
    <2>9. CASE Finish(o, "unknown") /\ UNCHANGED err
      <3>1. "unknown" \in Returned /\ mode[o] # "none"
        BY <2>2, Zenon DEF Returned
      <3> QED
        BY <2>2, <2>3, <2>5, <2>9, <3>1, FinishEnds, Zenon
    <2> QED
      BY <2>6, <2>7, <2>8, <2>9, Zenon DEF RemoveReturns, ClaimsRetry
  <1>reconnectsMoves. ASSUME Reconnects(o) PROVE Client(o) /\ Moves(o)
    <2> USE <1>reconnectsMoves
    <2>1. pc[o] \in Quiet
      BY Zenon DEF Reconnects, Quiet
    <2>2. /\ effect[o] = "none" /\ ~Running(o) /\ result[o] = "none"
          /\ mode[o] \in Puts \cup {"delete"} /\ mode[o] # "none"
      BY <2>1, AtRest, Zenon DEF Puts
    <2>3. UNCHANGED <<parent, dest, temps, effect, boot, temp, unstable, mode, cmp, err>>
      BY Zenon DEF Reconnects, serverVars, callVars
    <2>4. Client(o)
      BY <2>3, ClientStill, Zenon
    <2>5. CASE Goto(o, "begin") /\ UNCHANGED result
      <3>1. Allows("begin", mode[o]) /\ "begin" \in Quiet
        BY <2>2, AllowsPut, AllowsDelete, LabelKinds, Zenon DEF Labels, Quiet
      <3> QED
        BY <2>2, <2>3, <2>4, <2>5, <3>1, Zenon DEF Rests, Moves
    <2>6. CASE Finish(o, "error")
      <3>1. "error" \in Returned
        BY Zenon DEF Returned
      <3> QED
        BY <2>2, <2>3, <2>4, <2>6, <3>1, FinishEnds, Zenon
    <2> QED
      BY <2>5, <2>6, Zenon DEF Reconnects
  <1>cancelMoves. ASSUME Cancel(o) PROVE Client(o) /\ Moves(o)
    <2> USE <1>cancelMoves
    <2>1. pc[o] # "idle" /\ pc[o] # "done"
      BY Zenon DEF Cancel
    <2>2. mode[o] # "none" /\ result[o] = "none"
      BY <2>1, ControlTypes, Zenon DEF Place, Allows, Told
    <2>3. Client(o)
      BY ClientStill, Zenon DEF Cancel, serverVars, callVars
    <2> QED
      BY <2>2, <2>3, Zenon DEF Cancel, Drops, Moves
  <1> QED
    BY <1>startMoves, <1>beginMoves, <1>fuseMoves, <1>fusedReturnsMoves, <1>failedMoves,
       <1>openTempMoves, <1>createParentDirsMoves, <1>writeMoves, <1>writeFailedMoves,
       <1>issueMoves, <1>publishReturnsMoves, <1>removeReturnsMoves, <1>reconnectsMoves, <1>cancelMoves, Zenon DEF Step

-----------------------------------------------------------------------------
(* The invariant *)

LEMMA ControlInit ==
  ASSUME Init
  PROVE  ControlInv
  <1>1. NoCompound \in Compounds /\ Blank(NoCompound) /\ NoCompound.st = "none"
    <2>1. -1 \in -1 .. MaxLosses /\ <<>> \in Seq(OpNames) /\ Len(<<>>) = 0
      BY BoundsAssumption
    <2>2. NoCompound \in Compounds
      BY <2>1, Zenon DEF NoCompound, Compounds
    <2>3. NoCompound.ops = <<>> /\ NoCompound.next = 1 /\ NoCompound.st = "none"
      BY Zenon DEF NoCompound
    <2> QED
      BY <2>1, <2>2, <2>3, Zenon DEF Blank
  <1>2. Types
    BY <1>1, BoundsAssumption, LocalErrors DEF Init, Types, Labels
  <1>3. Parented
    BY Zenon DEF Init, Parented
  <1>4. ASSUME NEW o \in Ops PROVE Control(o)
    <2>1. /\ pc[o] = "idle" /\ mode[o] = "none" /\ cmp[o] = NoCompound /\ result[o] = "none"
          /\ effect[o] = "none"
      BY Zenon DEF Init
    <2>2. Shape(o) /\ Place(o)
      BY <1>1, <2>1, Zenon DEF Shape, Place, Allows, Waiting, Failing
    <2>3. \A n : ~Ran(cmp[o], n)
      BY <1>1, <2>1, BlankRan, Zenon DEF Blank
    <2>4. Effect(o) /\ Looked(o)
      BY <1>1, <2>1, <2>3, Zenon DEF Effect, Looked
    <2>5. Told(o)
      BY <1>1, <2>1, Zenon DEF Told, Failing, Running
    <2> QED
      BY <2>2, <2>4, <2>5, Zenon DEF Control
  <1> QED
    BY <1>2, <1>3, <1>4, Zenon DEF ControlInv

\* A step that leaves all of this alone, new verifiers and fewer names excepted.
LEMMA IdleControl ==
  ASSUME ControlInv, UNCHANGED <<parent, dest, temp, unstable, pc, mode, cmp, err, result, effect>>,
         temps' # {} => temps # {}, boot' \in 0 .. MaxLosses
  PROVE  ControlInv'
  <1>1. Types' /\ Parented'
    BY Zenon DEF ControlInv, Types, Parented
  <1>2. ASSUME NEW p \in Ops PROVE Control(p)'
    <2>1. Untouched(p) /\ Control(p) /\ (parent => parent')
      BY Zenon DEF Untouched, ControlInv
    <2> QED
      BY <2>1, ControlFrame, Zenon
  <1> QED
    BY <1>1, <1>2, Zenon DEF ControlInv

LEMMA ControlNext ==
  ASSUME ControlInv, [Next]_vars
  PROVE  ControlInv'
  <1>1. ASSUME NEW o \in Ops, Step(o) \/ Cancel(o) PROVE ControlInv'
    BY <1>1, StepMoves, MovesControl, Zenon
  <1>2. ASSUME NEW o \in Ops, Run(o) PROVE ControlInv'
    BY <1>2, RunKinds, RunBeside, ServerStep, Zenon
  <1>3. ASSUME NEW o \in Ops, Halt(o) PROVE ControlInv'
    <2>1. /\ Running(o) /\ Kinds(o)
          /\ UNCHANGED <<parent, boot, temp, unstable, pc, mode, err, result, temps>>
      BY <1>3, HaltKinds, Zenon
    <2> QED
      BY <2>1, ServerStep, Zenon
  <1>4. CASE LoseWrites
    <2>1. boot' \in 0 .. MaxLosses
      BY <1>4, BoundsAssumption DEF LoseWrites, ControlInv, Types
    <2> QED
      BY <1>4, <2>1, IdleControl, Zenon DEF LoseWrites, callVars
  <1>5. CASE Sweep
    <2>1. boot' \in 0 .. MaxLosses
      BY <1>5, Zenon DEF Sweep, ControlInv, Types
    <2>2. temps' # {} => temps # {}
      BY <1>5, Zenon DEF Sweep
    <2> QED
      BY <1>5, <2>1, <2>2, IdleControl, Zenon DEF Sweep, callVars
  <1>6. CASE UNCHANGED vars
    <2>1. UNCHANGED <<parent, dest, temp, unstable, pc, mode, cmp, err, result, effect, temps, boot>>
      BY <1>6, Zenon DEF vars, serverVars, callVars
    <2>2. boot' \in 0 .. MaxLosses
      BY <2>1, Zenon DEF ControlInv, Types
    <2> QED
      BY <2>1, <2>2, IdleControl, Zenon
  <1> QED
    BY <1>1, <1>2, <1>3, <1>4, <1>5, <1>6, StepCases, Zenon

LEMMA ControlAlways == Spec => []ControlInv
  <1>1. Init => ControlInv
    BY ControlInit, Zenon
  <1>2. ControlInv /\ [Next]_vars => ControlInv'
    BY ControlNext, Zenon
  <1> QED
    BY <1>1, <1>2, PTL DEF Spec

-----------------------------------------------------------------------------
(* The refinement *)

Who == IF dest = Absent THEN Absent ELSE dest[1]

LEMMA MovesRefine ==
  ASSUME ControlInv, NEW o \in Ops, Client(o), Moves(o)
  PROVE  [S!Next]_(S!vars)
  <1>1. dest' = dest /\ effect' = effect
    BY Zenon DEF Client
  <1>2. CASE Asks(o)
    <2>1. mode[o] = "none" /\ UNCHANGED result
      BY <1>2, ControlTypes, Zenon DEF Asks, Place, Allows
    <2>2. S!Ask(o)
      BY <1>1, <1>2, <2>1, ModesAssumption, Zenon DEF Asks, S!Ask
    <2> QED
      BY <2>2, Zenon DEF S!Next
  <1>3. CASE Rests(o) \/ Sends(o) \/ Learns(o) \/ Drops(o)
    <2>1. UNCHANGED <<mode, result>>
      BY <1>3, Zenon DEF Rests, Sends, Learns, Drops
    <2> QED
      BY <1>1, <2>1, Zenon DEF S!vars
  <1>4. ASSUME NEW r \in Returned, Ends(o, r) PROVE S!Next
    <2>1. S!Return(o, r)
      BY <1>1, <1>4, Zenon DEF Ends, S!Return
    <2> QED
      BY <2>1, Zenon DEF S!Next, Returned
  <1> QED
    BY <1>2, <1>3, <1>4, Zenon DEF Moves

LEMMA KindsRefine ==
  ASSUME ControlInv, NEW o \in Ops, Running(o), Kinds(o), UNCHANGED <<mode, result>>
  PROVE  [S!Next]_(S!vars)
  <1>whoIs. Who = Absent <=> dest = Absent
    <2>1. dest \in (Ops \X Nat) \cup {Absent}
      BY Zenon DEF ControlInv, Types
    <2>2. CASE dest \in Ops \X Nat
      <3>1. dest[1] \in Ops
        BY <2>2, Zenon
      <3> QED
        BY <2>2, <3>1, AbsentAssumption, Zenon DEF Who
    <2> QED
      BY <2>1, <2>2, Zenon DEF Who
  <1>1. mode[o] # "none" /\ result[o] \in {"none", "unknown"}
    BY RunningCompound, ControlTypes, Zenon DEF Told, Puts
  <1>2. CASE Passes(o)
    BY <1>2, Zenon DEF Passes, S!vars
  <1>3. CASE Publishes(o)
    <2>1. /\ effect[o] = "none" /\ mode[o] \in Puts
          /\ mode[o] = "create" => dest = Absent
      BY <1>3, RunningEffect, Zenon DEF Publishes, Puts
    <2>2. dest' = <<o, temp[o]>> /\ <<o, temp[o]>> \in Ops \X Nat
      BY <1>3, ControlTypes, Zenon DEF Publishes, Temp
    <2>3. (IF dest' = Absent THEN Absent ELSE dest'[1]) = o
      BY <2>2, AbsentAssumption, Zenon
    <2>4. S!Apply(o)
      BY <1>1, <1>3, <2>1, <2>3, AllowsPut, Zenon DEF S!Apply, Publishes, TakesEffect
    <2> QED
      BY <2>4, Zenon DEF S!Next
  <1>4. CASE IsRejected(o)
    <2>1. effect[o] = "none" /\ mode[o] = "create"
      BY <1>4, RunningEffect, Zenon DEF IsRejected
    <2>2. Who # Absent
      BY <1>4, <1>whoIs, Zenon DEF IsRejected
    <2>3. S!Reject(o)
      BY <1>1, <1>4, <2>1, <2>2, Zenon DEF S!Reject, IsRejected, TakesEffect, Who
    <2> QED
      BY <2>3, Zenon DEF S!Next
  <1>5. CASE Deletes(o)
    <2>1. effect[o] = "none" /\ mode[o] = "delete" /\ dest' = Absent
      BY <1>5, RunningEffect, Zenon DEF Deletes
    <2>2. S!Apply(o)
      BY <1>1, <1>5, <2>1, Zenon DEF S!Apply, Deletes, TakesEffect
    <2> QED
      BY <2>2, Zenon DEF S!Next
  <1> QED
    BY <1>2, <1>3, <1>4, <1>5, Zenon DEF Kinds

(***************************************************************************)
(* Put and delete implement module Store: put_once, put_once_fused and     *)
(* delete_once of client.rs, retried as retrying_session_operation does,   *)
(* take effect at most once and in one step, return Ok only after it, an   *)
(* AlreadyExists only for a destination that was there, and an error other *)
(* than OutcomeUnknown only when nothing has happened or ever will, with   *)
(* every compound still running at the server after its caller gave up.    *)
(***************************************************************************)
THEOREM PutRefines == Spec => KeepsPromise
  <1>1. Init => S!Init
    BY Zenon DEF Init, S!Init
  <1>2. ASSUME ControlInv, [Next]_vars PROVE [S!Next]_(S!vars)
    <2>1. ASSUME NEW o \in Ops, Step(o) \/ Cancel(o) PROVE [S!Next]_(S!vars)
      BY <1>2, <2>1, StepMoves, MovesRefine, Zenon
    <2>2. ASSUME NEW o \in Ops, Run(o) PROVE [S!Next]_(S!vars)
      <3>1. Running(o) /\ Kinds(o) /\ UNCHANGED <<mode, result>>
        BY <1>2, <2>2, RunKinds, RunBeside, Zenon
      <3> QED
        BY <1>2, <3>1, KindsRefine, Zenon
    <2>3. ASSUME NEW o \in Ops, Halt(o) PROVE [S!Next]_(S!vars)
      <3>1. Running(o) /\ Kinds(o) /\ UNCHANGED <<mode, result>>
        BY <1>2, <2>3, HaltKinds, Zenon
      <3> QED
        BY <1>2, <3>1, KindsRefine, Zenon
    <2>4. CASE LoseWrites \/ Sweep \/ UNCHANGED vars
      <3>1. UNCHANGED <<dest, mode, effect, result>>
        BY <2>4, Zenon DEF LoseWrites, Sweep, vars, serverVars
      <3> QED
        BY <3>1, Zenon DEF S!vars
    <2> QED
      BY <1>2, <2>1, <2>2, <2>3, <2>4, StepCases, Zenon
  <1> QED
    BY <1>1, <1>2, ControlAlways, PTL DEF Spec, KeepsPromise, S!Spec
=============================================================================
