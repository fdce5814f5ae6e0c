------------------------ MODULE PutInvariantProofs ------------------------
(***************************************************************************)
(* What holds of every put and delete of module Put whatever the others do *)
(* (ControlInv and FileInv), and that the server keeps it: for any number  *)
(* of operations, any retries, faults and losses of the server.            *)
(*                                                                         *)
(* ControlInv: the last compound of an operation is blank or a full one,   *)
(* whose operations come in the order in which try_put_fused,              *)
(* close_publish and remove build them (Ordered): what publishes comes     *)
(* last. So the compound alone tells what the operation has done to the    *)
(* destination (Effect), and the place, the error and the result of the    *)
(* operation agree with it (Told). A step of the server either advances a  *)
(* compound by one operation or halts it (Kinds).                          *)
(*                                                                         *)
(* FileInv: the file under an operation's temporary name. A compound       *)
(* writes, commits, verifies and publishes it in this order (Tidy), so     *)
(* where the compound is tells what holds of the file (Checked): once      *)
(* COMMIT has run it is on disk, once VERIFY has run it has its size, and  *)
(* data that the server lost before the COMMIT shows as a write verifier   *)
(* older than the one of the COMMIT. Between compounds the same is known   *)
(* of the verifier that write_at kept (Steady). A name is used for one     *)
(* file only (Named, Fresh).                                               *)
(***************************************************************************)
EXTENDS Put, TLAPS

\* Operation n of the compound c has run.
Ran(c, n) == \E i \in 1 .. c.next - 1 : c.ops[i] = n

\* The order of the operations in a compound of an operation with mode m.
Ordered(ops, m) ==
  /\ Len(ops) > 1
  /\ ops[Len(ops)] = IF m = "overwrite" THEN "rename" ELSE "remove"
  /\ m = "create" => ops[Len(ops) - 1] = "link"
  /\ \A i \in 1 .. Len(ops) :
       /\ m = "delete" => ops[i] \in {"sequence", "lookup", "remove"}
       /\ ops[i] = "rename" => m = "overwrite" /\ i = Len(ops)
       /\ ops[i] = "link" => m = "create" /\ i = Len(ops) - 1
       /\ ops[i] = "remove" => i = Len(ops)
       /\ ops[i] = "open" => \E j \in 1 .. i - 1 : ops[j] = "lookup"

\* A compound that was not sent, and one the server runs, has run or stopped.
Blank(c) == Len(c.ops) = 0 /\ c.next = 1 /\ c.st \in {"none", "notsent", "invalid"}
Full(c, m) ==
  /\ Ordered(c.ops, m)
  /\ c.next \in 1 .. Len(c.ops) + 1
  /\ c.st \in Statuses \cup {"running", "ok"}
  /\ c.st = "ok" <=> c.next = Len(c.ops) + 1
Shape(o) == Blank(cmp[o]) \/ Full(cmp[o], mode[o])
Running(o) == cmp[o].st = "running"
Op(o) == cmp[o].ops[cmp[o].next]

\* Where an operation with mode m may be.
Quiet == {"begin", "fuse", "open", "mkdir", "reopen", "write", "write_failed", "close",
          "republish", "remove", "reconnect"}
Waiting == {"fused", "publish", "removing"}
Failing == {"fused_failed", "publish_failed"}
Labels == Quiet \cup Waiting \cup Failing \cup {"idle", "done"}
Puts == {"create", "overwrite"}
Allows(label, m) ==
  /\ label = "idle" <=> m = "none"
  /\ label \in {"remove", "removing"} => m = "delete"
  /\ label \in {"fuse", "open", "mkdir", "reopen", "write", "write_failed", "close",
                "republish", "fused", "publish"} \cup Failing => m \in Puts
Place(o) ==
  /\ Allows(pc[o], mode[o])
  /\ pc[o] = "idle" => Blank(cmp[o])
  /\ pc[o] \in Waiting \cup Failing => cmp[o].st # "none"

\* What its last compound has done to the destination is what o has done.
Effect(o) ==
  /\ mode[o] # "delete" =>
       /\ effect[o] = "applied" <=> Ran(cmp[o], "link") \/ Ran(cmp[o], "rename")
       /\ effect[o] = "rejected" <=> cmp[o].st = "exist" /\ Op(o) = "link"
  /\ mode[o] = "delete" =>
       effect[o] = IF cmp[o].st \in {"ok", "noent"} THEN "applied" ELSE "none"

\* What o has been told, and has returned, is true of what it has done.
Told(o) ==
  /\ pc[o] \in Quiet \cup {"idle"} => effect[o] = "none" /\ ~Running(o)
  /\ pc[o] # "done" => result[o] = "none"
  /\ pc[o] \in Failing =>
       err[o] \in CallErrors \/ (~Running(o) /\ err[o] = Decoded(cmp[o]) /\ err[o] # NoError)
  /\ result[o] = "ok" => effect[o] = "applied"
  /\ result[o] = "exists" => effect[o] = "rejected"
  /\ result[o] = "error" => effect[o] = "none"
  /\ Running(o) => result[o] \in {"none", "unknown"}

\* Nothing is in a directory that does not exist.
Looked(o) == Ran(cmp[o], "lookup") => parent
Parented == temps # {} \/ dest # Absent => parent
Types ==
  /\ dest \in (Ops \X Nat) \cup {Absent}
  /\ boot \in 0 .. MaxLosses
  /\ temp \in [Ops -> Nat]
  /\ unstable \in [Ops -> -1 .. MaxLosses]
  /\ pc \in [Ops -> Labels]
  /\ mode \in [Ops -> Modes \cup {"none"}]
  /\ cmp \in [Ops -> Compounds]
  /\ err \in [Ops -> Errors]
  /\ result \in [Ops -> {"none", "ok", "exists", "error", "unknown"}]
  /\ effect \in [Ops -> {"none", "applied", "rejected"}]
Control(o) == Shape(o) /\ Place(o) /\ Effect(o) /\ Told(o) /\ Looked(o)
ControlInv == Types /\ Parented /\ \A o \in Ops : Control(o)

-----------------------------------------------------------------------------
(* The file under an operation's temporary name *)

\* The order in which a compound prepares, commits, checks and publishes a file.
Rank(n) ==
  IF n = "open" THEN 1 ELSE IF n = "write" THEN 2 ELSE IF n = "commit" THEN 3
  ELSE IF n = "verify" THEN 4 ELSE IF n = "close" THEN 5
  ELSE IF n \in {"link", "rename"} THEN 6 ELSE IF n = "remove" THEN 7 ELSE 0
Has(ops, n) == \E i \in 1 .. Len(ops) : ops[i] = n
Sorted(ops) ==
  \A i, j \in 1 .. Len(ops) :
    /\ 0 < Rank(ops[i]) /\ Rank(ops[i]) < Rank(ops[j]) => i < j
    /\ 0 < Rank(ops[i]) /\ Rank(ops[i]) = Rank(ops[j]) => i = j
Tidy(ops) ==
  /\ Sorted(ops)
  /\ Has(ops, "open") => Has(ops, "write")
  /\ Has(ops, "write") => Has(ops, "commit")
  /\ Has(ops, "commit") => Has(ops, "verify")

\* Operation n of the compound c is still to run.
Pending(c, n) == \E i \in c.next .. Len(c.ops) : c.ops[i] = n

\* The compound that writes, commits, verifies or publishes o's temporary.
Live(o) ==
  /\ mode[o] # "delete" /\ Len(cmp[o].ops) > 0
  /\ Running(o) \/ pc[o] \in {"fused", "publish"} \cup Failing
File(o) == file[Temp(o)]

\* Every name o uses is one of Names: at most two in each attempt.
Slack(label) ==
  IF label \in {"idle", "begin", "reconnect"} THEN 0
  ELSE IF label \in {"fuse", "fused", "fused_failed", "open", "mkdir", "reopen"} THEN 1 ELSE 2
Named(o) ==
  /\ attempts[o] <= ReconnectRetries
  /\ temp[o] <= 2 * attempts[o] + Slack(pc[o])
  /\ mode[o] \in Puts /\ (pc[o] \notin {"idle", "begin", "done"} \/ Len(cmp[o].ops) > 0)
       => temp[o] >= 1
Fresh(o) == \A n \in Names : n > temp[o] => file[<<o, n>>] = NoFile
Arranged(o) ==
  /\ Tidy(cmp[o].ops)
  /\ pc[o] = "publish" =>
       /\ ~Has(cmp[o].ops, "write")
       /\ Has(cmp[o].ops, "commit") \/ Has(cmp[o].ops, "verify") => Has(cmp[o].ops, "close")

\* What has been committed and verified is committed and has its size; what was
\* lost before the COMMIT shows in the verifiers.
Checked(o) ==
  Live(o) =>
    /\ ~Pending(cmp[o], "verify") => File(o).size = size[o]
    /\ ~Pending(cmp[o], "commit") =>
         /\ ~File(o).dirty
         /\ File(o).torn => 0 <= cmp[o].write /\ cmp[o].write < cmp[o].commit
    /\ Pending(cmp[o], "commit") /\ ~Pending(cmp[o], "write") =>
         /\ File(o).dirty => cmp[o].write = boot
         /\ File(o).torn => 0 <= cmp[o].write /\ cmp[o].write < boot
Steady(o) ==
  pc[o] \in {"write", "close", "publish"} =>
    /\ File(o).dirty => unstable[o] = boot
    /\ File(o).torn => 0 <= unstable[o] /\ unstable[o] < boot
Sound(o) == ~File(o).dirty /\ ~File(o).torn
Settled(o) == Sound(o) /\ File(o).size = size[o]
Ready(o) == pc[o] = "republish" => Settled(o)
Kept(o) == result[o] = "ok" /\ mode[o] # "delete" => Sound(o)
FileTypes ==
  /\ file \in [Temps -> [size : Int, dirty : BOOLEAN, torn : BOOLEAN]]
  /\ size \in [Ops -> Nat] /\ attempts \in [Ops -> Nat]
Owned(o) == /\ Named(o) /\ Fresh(o) /\ Arranged(o) /\ Checked(o) /\ Steady(o) /\ Ready(o)
            /\ Kept(o)
Good(t) ==
  /\ t = Temp(t[1]) /\ effect[t[1]] = "applied" /\ mode[t[1]] # "delete"
  /\ file[t].size = size[t[1]] /\ ~file[t].dirty
FileInv == FileTypes /\ (dest # Absent => Good(dest)) /\ \A o \in Ops : Owned(o)
FileRec == [size : Int, dirty : BOOLEAN, torn : BOOLEAN]

-----------------------------------------------------------------------------
(* The compounds *)

LEMMA Concatenation ==
  ASSUME NEW Kind, NEW a \in Seq(Kind), NEW b \in Seq(Kind)
  PROVE  /\ a \o b \in Seq(Kind)
         /\ Len(a \o b) = Len(a) + Len(b)
         /\ \A i \in 1 .. Len(a) : (a \o b)[i] = a[i]
         /\ \A j \in 1 .. Len(b) : (a \o b)[Len(a) + j] = b[j]
  OBVIOUS

\* Operations before the ones that publish.
Plain == {"sequence", "lookup", "write", "commit", "verify", "close"}
Leads(a) ==
  /\ a \in Seq(OpNames) /\ Len(a) > 0
  /\ \A i \in 1 .. Len(a) :
       a[i] \in Plain \/ (a[i] = "open" /\ \E j \in 1 .. i - 1 : a[j] = "lookup")

LEMMA PublishOrdered ==
  ASSUME NEW o \in Ops, mode[o] \in Puts, NEW a, Leads(a)
  PROVE  a \o PublishOps(o) \in Seq(OpNames) /\ Ordered(a \o PublishOps(o), mode[o])
  <1> DEFINE b == PublishOps(o)
             s == a \o b
  <1>1. /\ a \in Seq(OpNames) /\ Len(a) > 0 /\ Len(a) \in Nat
        /\ \A i \in 1 .. Len(a) : a[i] \notin {"rename", "link", "remove"}
        /\ \A i \in 1 .. Len(a) : a[i] = "open" => \E j \in 1 .. i - 1 : a[j] = "lookup"
    BY DEF Leads, Plain
  <1>2. CASE mode[o] = "create"
    <2>1. b = <<"lookup", "link", "remove">>
      BY <1>2, Zenon DEF PublishOps
    <2> HIDE DEF b
    <2>2. b \in Seq(OpNames) /\ Len(b) = 3 /\ b[1] = "lookup" /\ b[2] = "link" /\ b[3] = "remove"
      BY <2>1 DEF OpNames
    <2>3. /\ s \in Seq(OpNames) /\ Len(s) = Len(a) + 3
          /\ \A i \in 1 .. Len(a) : s[i] = a[i]
          /\ \A j \in 1 .. 3 : s[Len(a) + j] = b[j]
      <3>1. /\ s \in Seq(OpNames) /\ Len(s) = Len(a) + Len(b)
            /\ \A i \in 1 .. Len(a) : s[i] = a[i]
            /\ \A j \in 1 .. Len(b) : s[Len(a) + j] = b[j]
        <4>1. a \in Seq(OpNames) /\ b \in Seq(OpNames)
          BY <1>1, <2>2, Zenon
        <4> QED
          BY <4>1, Concatenation
      <3> HIDE DEF s
      <3> QED
        BY <2>2, <3>1, Zenon
    <2> HIDE DEF s
    <2>4. s[Len(a) + 1] = b[1] /\ s[Len(a) + 2] = b[2] /\ s[Len(a) + 3] = b[3]
      <3>1. \A j : j \in 1 .. 3 => s[Len(a) + j] = b[j]
        BY <2>3, Zenon
      <3>2. 1 \in 1 .. 3 /\ 2 \in 1 .. 3 /\ 3 \in 1 .. 3
        OBVIOUS
      <3> QED
        BY <3>1, <3>2, Zenon
    <2>5. ASSUME NEW i \in 1 .. Len(s)
          PROVE  /\ s[i] # "rename"
                 /\ s[i] = "link" => i = Len(s) - 1
                 /\ s[i] = "remove" => i = Len(s)
                 /\ s[i] = "open" => \E j \in 1 .. i - 1 : s[j] = "lookup"
      <3>1. CASE i \in 1 .. Len(a)
        <4>1. s[i] = a[i] /\ \A j \in 1 .. i - 1 : s[j] = a[j]
          BY <1>1, <2>3, <3>1
        <4> QED
          BY <1>1, <3>1, <4>1, Zenon
      <3>2. CASE i \in {Len(a) + 1, Len(a) + 2, Len(a) + 3}
        BY <2>2, <2>3, <2>4, <3>2
      <3> QED
        BY <1>1, <2>3, <3>1, <3>2
    <2>6. Ordered(s, "create")
      BY <1>1, <2>2, <2>3, <2>4, <2>5 DEF Ordered
    <2> QED
      BY <1>2, <2>3, <2>6, Zenon DEF s, b
  <1>3. CASE mode[o] = "overwrite"
    <2>1. b = <<"rename">>
      BY <1>3, Zenon DEF PublishOps
    <2> HIDE DEF b
    <2>2. b \in Seq(OpNames) /\ Len(b) = 1 /\ b[1] = "rename"
      BY <2>1 DEF OpNames
    <2>3. /\ s \in Seq(OpNames) /\ Len(s) = Len(a) + 1
          /\ \A i \in 1 .. Len(a) : s[i] = a[i]
          /\ \A j \in 1 .. 1 : s[Len(a) + j] = b[j]
      <3>1. /\ s \in Seq(OpNames) /\ Len(s) = Len(a) + Len(b)
            /\ \A i \in 1 .. Len(a) : s[i] = a[i]
            /\ \A j \in 1 .. Len(b) : s[Len(a) + j] = b[j]
        <4>1. a \in Seq(OpNames) /\ b \in Seq(OpNames)
          BY <1>1, <2>2, Zenon
        <4> QED
          BY <4>1, Concatenation
      <3> HIDE DEF s
      <3> QED
        BY <2>2, <3>1, Zenon
    <2> HIDE DEF s
    <2>4. s[Len(a) + 1] = "rename"
      BY <2>2, <2>3, 1 \in 1 .. 1, Zenon
    <2>5. ASSUME NEW i \in 1 .. Len(s)
          PROVE  /\ s[i] # "link" /\ s[i] # "remove"
                 /\ s[i] = "rename" => i = Len(s)
                 /\ s[i] = "open" => \E j \in 1 .. i - 1 : s[j] = "lookup"
      <3>1. CASE i \in 1 .. Len(a)
        <4>1. s[i] = a[i] /\ \A j \in 1 .. i - 1 : s[j] = a[j]
          BY <1>1, <2>3, <3>1
        <4> QED
          BY <1>1, <3>1, <4>1, Zenon
      <3>2. CASE i = Len(a) + 1
        BY <2>3, <2>4, <3>2, Zenon
      <3> QED
        BY <1>1, <2>3, <3>1, <3>2
    <2>6. Ordered(s, "overwrite")
      BY <1>1, <2>3, <2>4, <2>5 DEF Ordered
    <2> QED
      BY <1>3, <2>3, <2>6, Zenon DEF s, b
  <1> QED
    BY <1>2, <1>3, Zenon DEF Puts

LEMMA FusedOpsOrdered ==
  ASSUME NEW o \in Ops, mode[o] \in Puts
  PROVE  FusedOps(o) \in Seq(OpNames) /\ Ordered(FusedOps(o), mode[o])
  <1> DEFINE a == <<"sequence", "lookup", "open", "write", "commit", "verify">>
  <1>1. a \in Seq(OpNames) /\ Len(a) = 6 /\ a[1] = "sequence" /\ a[2] = "lookup"
        /\ a[3] = "open" /\ a[4] = "write" /\ a[5] = "commit" /\ a[6] = "verify"
    BY DEF OpNames
  <1> HIDE DEF a
  <1>2. Leads(a)
    BY <1>1 DEF Leads, Plain
  <1>3. a \o PublishOps(o) = FusedOps(o)
    BY Zenon DEF FusedOps, a
  <1> QED
    BY <1>2, <1>3, PublishOrdered, Zenon

LEMMA PlainLeads ==
  ASSUME NEW a \in Seq(Plain), Len(a) > 0
  PROVE  Leads(a)
  <1>1. a \in Seq(OpNames) /\ \A i \in 1 .. Len(a) : a[i] \in Plain
    BY DEF Plain, OpNames
  <1> QED
    BY <1>1, Zenon DEF Leads

LEMMA CloseOpsOrdered ==
  ASSUME NEW o \in Ops, mode[o] \in Puts
  PROVE  CloseOps(o) \in Seq(OpNames) /\ Ordered(CloseOps(o), mode[o])
  <1> DEFINE x == IF unstable[o] >= 0 THEN <<"commit">> ELSE <<>>
             b == <<"verify", "close">>
             q == <<"sequence">>
             a == q \o x \o b
  <1>1. q \in Seq(Plain) /\ b \in Seq(Plain) /\ Len(b) = 2
    BY DEF Plain
  <1>2. x \in Seq(Plain)
    <2>1. <<"commit">> \in Seq(Plain) /\ <<>> \in Seq(Plain)
      BY DEF Plain
    <2> QED
      BY <2>1, Zenon
  <1>3. a \o PublishOps(o) = CloseOps(o)
    BY Zenon DEF CloseOps
  <1> HIDE DEF q, x, b
  <1>4. q \o x \in Seq(Plain)
    BY <1>1, <1>2, Concatenation, Zenon
  <1>5. a \in Seq(Plain) /\ Len(a) > 0
    BY <1>1, <1>4, Concatenation
  <1> HIDE DEF a
  <1> QED
    BY <1>3, <1>5, PlainLeads, PublishOrdered, Zenon

LEMMA AfterCloseOpsOrdered ==
  ASSUME NEW o \in Ops, mode[o] \in Puts
  PROVE  AfterCloseOps(o) \in Seq(OpNames) /\ Ordered(AfterCloseOps(o), mode[o])
  <1> DEFINE a == <<"sequence">>
  <1>1. a \in Seq(Plain) /\ Len(a) > 0
    BY DEF Plain
  <1>2. a \o PublishOps(o) = AfterCloseOps(o)
    BY Zenon DEF AfterCloseOps
  <1> HIDE DEF a
  <1> QED
    BY <1>1, <1>2, PlainLeads, PublishOrdered, Zenon

LEMMA RemoveOpsOrdered ==
  RemoveOps \in Seq(OpNames) /\ Ordered(RemoveOps, "delete")
  <1> DEFINE s == <<"sequence", "lookup", "remove">>
  <1>1. s \in Seq(OpNames) /\ Len(s) = 3 /\ s[1] = "sequence" /\ s[2] = "lookup" /\ s[3] = "remove"
    BY DEF OpNames
  <1> HIDE DEF s
  <1>2. Ordered(s, "delete")
    BY <1>1 DEF Ordered
  <1> QED
    BY <1>1, <1>2, Zenon DEF RemoveOps, s

LEMMA RankValues ==
  /\ Rank("sequence") = 0 /\ Rank("lookup") = 0 /\ Rank("open") = 1 /\ Rank("write") = 2
  /\ Rank("commit") = 3 /\ Rank("verify") = 4 /\ Rank("close") = 5 /\ Rank("link") = 6
  /\ Rank("rename") = 6 /\ Rank("remove") = 7
  BY Zenon DEF Rank

\* What comes before the operations that publish.
Prefix(a) ==
  a \in Seq(OpNames) /\ Tidy(a) /\ \A i \in 1 .. Len(a) : Rank(a[i]) < 6
Prepares == {"open", "write", "commit", "verify", "close"}

LEMMA PublishTidy ==
  ASSUME NEW o \in Ops, NEW a, Prefix(a)
  PROVE  /\ Tidy(a \o PublishOps(o))
         /\ \A n \in Prepares : Has(a \o PublishOps(o), n) <=> Has(a, n)
  <1>publishRanks. LET b == PublishOps(o)
                   IN  /\ b \in Seq(OpNames) /\ Sorted(b)
                       /\ \A j \in 1 .. Len(b) : Rank(b[j]) \in {0, 6, 7}
    <2> DEFINE b == PublishOps(o)
    <2>1. CASE mode[o] = "create"
      <3>1. b = <<"lookup", "link", "remove">>
        BY <2>1, Zenon DEF PublishOps
      <3> HIDE DEF b
      <3>2. b \in Seq(OpNames) /\ Len(b) = 3 /\ b[1] = "lookup" /\ b[2] = "link" /\ b[3] = "remove"
        BY <3>1 DEF OpNames
      <3>3. Rank(b[1]) = 0 /\ Rank(b[2]) = 6 /\ Rank(b[3]) = 7
        BY <3>2, RankValues, Zenon
      <3>4. Sorted(b) /\ \A j \in 1 .. Len(b) : Rank(b[j]) \in {0, 6, 7}
        BY <3>2, <3>3 DEF Sorted
      <3> QED
        BY <3>2, <3>4, Zenon DEF b
    <2>2. CASE mode[o] # "create"
      <3>1. b = <<"rename">>
        BY <2>2, Zenon DEF PublishOps
      <3> HIDE DEF b
      <3>2. b \in Seq(OpNames) /\ Len(b) = 1 /\ b[1] = "rename"
        BY <3>1 DEF OpNames
      <3>3. Rank(b[1]) = 6
        BY <3>2, RankValues, Zenon
      <3>4. Sorted(b) /\ \A j \in 1 .. Len(b) : Rank(b[j]) \in {0, 6, 7}
        BY <3>2, <3>3 DEF Sorted
      <3> QED
        BY <3>2, <3>4, Zenon DEF b
    <2> QED
      BY <2>1, <2>2, Zenon
  <1>rankType. \A n : Rank(n) \in 0 .. 7
    BY DEF Rank
  <1> DEFINE b == PublishOps(o)
             s == a \o b
  <1>1. /\ a \in Seq(OpNames) /\ Sorted(a) /\ Len(a) \in Nat
        /\ \A i \in 1 .. Len(a) : Rank(a[i]) < 6
    BY DEF Prefix, Tidy
  <1>2. /\ b \in Seq(OpNames) /\ Sorted(b) /\ Len(b) \in Nat
        /\ \A j \in 1 .. Len(b) : Rank(b[j]) \in {0, 6, 7}
    BY <1>publishRanks
  <1> HIDE DEF b
  <1>3. /\ Len(s) = Len(a) + Len(b)
        /\ \A i \in 1 .. Len(a) : s[i] = a[i]
        /\ \A j \in 1 .. Len(b) : s[Len(a) + j] = b[j]
    BY <1>1, <1>2, Concatenation
  <1> HIDE DEF s
  <1>4. \A i \in 1 .. Len(s) : i \notin 1 .. Len(a) =>
          i - Len(a) \in 1 .. Len(b) /\ s[i] = b[i - Len(a)]
    BY <1>1, <1>2, <1>3
  <1>5. \A n \in Prepares : Has(s, n) <=> Has(a, n)
    <2>1. \A n \in Prepares : Rank(n) \in 1 .. 5
      BY RankValues DEF Prepares
    <2>2. ASSUME NEW n \in Prepares, NEW i \in 1 .. Len(s), s[i] = n PROVE Has(a, n)
      <3>1. i \in 1 .. Len(a)
        BY <1>2, <1>4, <2>1, <2>2
      <3> QED
        BY <1>3, <2>2, <3>1, Zenon DEF Has
    <2>3. ASSUME NEW n \in Prepares, NEW i \in 1 .. Len(a), a[i] = n PROVE Has(s, n)
      <3>1. i \in 1 .. Len(s)
        BY <1>1, <1>2, <1>3
      <3> QED
        BY <1>3, <2>3, <3>1, Zenon DEF Has
    <2> QED
      BY <2>2, <2>3, Zenon DEF Has
  <1>6. Sorted(s)
    <2> SUFFICES ASSUME NEW i \in 1 .. Len(s), NEW j \in 1 .. Len(s), 0 < Rank(s[i])
                 PROVE  /\ Rank(s[i]) < Rank(s[j]) => i < j
                        /\ Rank(s[i]) = Rank(s[j]) => i = j
      BY Zenon DEF Sorted
    <2>1. CASE i \in 1 .. Len(a) /\ j \in 1 .. Len(a)
      BY <1>1, <1>3, <2>1, Zenon DEF Sorted
    <2>2. CASE i \in 1 .. Len(a) /\ j \notin 1 .. Len(a)
      <3>1. Rank(s[i]) \in 1 .. 5 /\ Rank(s[j]) \in {0, 6, 7}
        <4>1. Rank(s[i]) < 6 /\ Rank(s[j]) \in {0, 6, 7}
          BY <1>1, <1>2, <1>3, <1>4, <2>2, Zenon
        <4> QED
          BY <4>1, <1>rankType
      <3> QED
        BY <1>1, <1>3, <2>2, <3>1
    <2>3. CASE i \notin 1 .. Len(a) /\ j \in 1 .. Len(a)
      <3>1. Rank(s[i]) \in {6, 7} /\ Rank(s[j]) \in 0 .. 5
        <4>1. Rank(s[i]) \in {0, 6, 7} /\ Rank(s[j]) < 6
          BY <1>1, <1>2, <1>3, <1>4, <2>3, Zenon
        <4> QED
          BY <4>1, <1>rankType
      <3> QED
        BY <3>1
    <2>4. CASE i \notin 1 .. Len(a) /\ j \notin 1 .. Len(a)
      <3> DEFINE x == i - Len(a)
                 y == j - Len(a)
      <3>1. x \in 1 .. Len(b) /\ y \in 1 .. Len(b) /\ s[i] = b[x] /\ s[j] = b[y]
        BY <1>4, <2>4, Zenon
      <3>2. (x < y => i < j) /\ (x = y => i = j)
        BY <1>1, <1>3
      <3> HIDE DEF x, y
      <3> QED
        BY <1>2, <3>1, <3>2, Zenon DEF Sorted
    <2> QED
      BY <2>1, <2>2, <2>3, <2>4, Zenon
  <1>7. Tidy(s)
    BY <1>5, <1>6, Zenon DEF Tidy, Prefix, Prepares
  <1> QED
    BY <1>5, <1>7, Zenon DEF s, b

LEMMA FusedTidy ==
  ASSUME NEW o \in Ops
  PROVE  /\ Tidy(FusedOps(o)) /\ Has(FusedOps(o), "write")
         /\ Has(FusedOps(o), "commit") /\ Has(FusedOps(o), "verify")
  <1> DEFINE a == <<"sequence", "lookup", "open", "write", "commit", "verify">>
  <1>1. a \in Seq(OpNames) /\ Len(a) = 6 /\ a[1] = "sequence" /\ a[2] = "lookup"
        /\ a[3] = "open" /\ a[4] = "write" /\ a[5] = "commit" /\ a[6] = "verify"
    BY DEF OpNames
  <1>2. a \o PublishOps(o) = FusedOps(o)
    BY Zenon DEF FusedOps
  <1> HIDE DEF a
  <1>3. \A i \in 1 .. Len(a) : Rank(a[i]) = IF i < 3 THEN 0 ELSE i - 2
    BY <1>1, RankValues
  <1>4. Sorted(a) /\ \A i \in 1 .. Len(a) : Rank(a[i]) < 6
    BY <1>1, <1>3 DEF Sorted
  <1>5. Has(a, "write") /\ Has(a, "commit") /\ Has(a, "verify")
    BY <1>1 DEF Has
  <1>6. Prefix(a)
    BY <1>1, <1>4, <1>5, Zenon DEF Prefix, Tidy
  <1>7. "verify" \in Prepares /\ "write" \in Prepares /\ "commit" \in Prepares
    BY Zenon DEF Prepares
  <1>8. /\ Tidy(a \o PublishOps(o)) /\ Has(a \o PublishOps(o), "write")
        /\ Has(a \o PublishOps(o), "commit") /\ Has(a \o PublishOps(o), "verify")
    BY <1>5, <1>6, <1>7, PublishTidy, Zenon
  <1> QED
    BY <1>2, <1>8, Zenon

LEMMA CloseTidy ==
  ASSUME NEW o \in Ops, unstable[o] \in Int
  PROVE  /\ Tidy(CloseOps(o)) /\ Has(CloseOps(o), "verify") /\ Has(CloseOps(o), "close")
         /\ ~Has(CloseOps(o), "write") /\ (Has(CloseOps(o), "commit") <=> unstable[o] >= 0)
  <1> DEFINE x == IF unstable[o] >= 0 THEN <<"commit">> ELSE <<>>
             a == <<"sequence">> \o x \o <<"verify", "close">>
  <1>1. a \o PublishOps(o) = CloseOps(o)
    BY Zenon DEF CloseOps
  <1>2. /\ Prefix(a) /\ Has(a, "verify") /\ Has(a, "close") /\ ~Has(a, "write")
        /\ Has(a, "commit") <=> unstable[o] >= 0
    <2>1. CASE unstable[o] >= 0
      <3> DEFINE q == <<"sequence">>
                 k == <<"commit">>
                 b == <<"verify", "close">>
      <3>1. a = (q \o k) \o b
        BY <2>1, Zenon
      <3>2. /\ q \in Seq(OpNames) /\ Len(q) = 1 /\ q[1] = "sequence"
            /\ k \in Seq(OpNames) /\ Len(k) = 1 /\ k[1] = "commit"
            /\ b \in Seq(OpNames) /\ Len(b) = 2 /\ b[1] = "verify" /\ b[2] = "close"
        BY DEF OpNames
      <3> HIDE DEF a, q, k, b
      <3>3. a \in Seq(OpNames) /\ Len(a) = 4 /\ a[1] = "sequence" /\ a[2] = "commit"
            /\ a[3] = "verify" /\ a[4] = "close"
        <4> DEFINE w == q \o k
        <4>1. a = w \o b
          BY <3>1, Zenon
        <4>2. /\ w \in Seq(OpNames) /\ Len(w) = Len(q) + Len(k)
              /\ \A i \in 1 .. Len(q) : w[i] = q[i]
              /\ \A j \in 1 .. Len(k) : w[Len(q) + j] = k[j]
          <5>1. q \in Seq(OpNames) /\ k \in Seq(OpNames)
            BY <3>2, Zenon
          <5> QED
            BY <5>1, Concatenation
        <4> HIDE DEF w
        <4>3. /\ a \in Seq(OpNames) /\ Len(a) = Len(w) + Len(b)
              /\ \A i \in 1 .. Len(w) : a[i] = w[i]
              /\ \A j \in 1 .. Len(b) : a[Len(w) + j] = b[j]
          <5>1. w \in Seq(OpNames) /\ b \in Seq(OpNames)
            BY <3>2, <4>2, Zenon
          <5> QED
            BY <4>1, <5>1, Concatenation
        <4> QED
          BY <3>2, <4>2, <4>3
      <3>4. \A i \in 1 .. Len(a) : Rank(a[i]) = IF i < 2 THEN 0 ELSE i + 1
        BY <3>3, RankValues
      <3>5. Sorted(a) /\ \A i \in 1 .. Len(a) : Rank(a[i]) < 6
        BY <3>3, <3>4 DEF Sorted
      <3>6. Has(a, "verify") /\ Has(a, "close") /\ Has(a, "commit") /\ ~Has(a, "write")
            /\ ~Has(a, "open")
        BY <3>3 DEF Has
      <3> QED
        BY <2>1, <3>3, <3>5, <3>6, Zenon DEF Prefix, Tidy
    <2>2. CASE ~(unstable[o] >= 0)
      <3> DEFINE q == <<"sequence">>
                 k == <<>>
                 b == <<"verify", "close">>
      <3>1. a = (q \o k) \o b
        BY <2>2, Zenon
      <3>2. /\ q \in Seq(OpNames) /\ Len(q) = 1 /\ q[1] = "sequence"
            /\ k \in Seq(OpNames) /\ Len(k) = 0
            /\ b \in Seq(OpNames) /\ Len(b) = 2 /\ b[1] = "verify" /\ b[2] = "close"
        BY DEF OpNames
      <3> HIDE DEF a, q, k, b
      <3>3. a \in Seq(OpNames) /\ Len(a) = 3 /\ a[1] = "sequence" /\ a[2] = "verify"
            /\ a[3] = "close"
        <4> DEFINE w == q \o k
        <4>1. a = w \o b
          BY <3>1, Zenon
        <4>2. /\ w \in Seq(OpNames) /\ Len(w) = Len(q) + Len(k)
              /\ \A i \in 1 .. Len(q) : w[i] = q[i]
              /\ \A j \in 1 .. Len(k) : w[Len(q) + j] = k[j]
          <5>1. q \in Seq(OpNames) /\ k \in Seq(OpNames)
            BY <3>2, Zenon
          <5> QED
            BY <5>1, Concatenation
        <4> HIDE DEF w
        <4>3. /\ a \in Seq(OpNames) /\ Len(a) = Len(w) + Len(b)
              /\ \A i \in 1 .. Len(w) : a[i] = w[i]
              /\ \A j \in 1 .. Len(b) : a[Len(w) + j] = b[j]
          <5>1. w \in Seq(OpNames) /\ b \in Seq(OpNames)
            BY <3>2, <4>2, Zenon
          <5> QED
            BY <4>1, <5>1, Concatenation
        <4> QED
          BY <3>2, <4>2, <4>3
      <3>4. \A i \in 1 .. Len(a) : Rank(a[i]) = IF i < 2 THEN 0 ELSE i + 2
        BY <3>3, RankValues
      <3>5. Sorted(a) /\ \A i \in 1 .. Len(a) : Rank(a[i]) < 6
        BY <3>3, <3>4 DEF Sorted
      <3>6. Has(a, "verify") /\ Has(a, "close") /\ ~Has(a, "commit") /\ ~Has(a, "write")
            /\ ~Has(a, "open")
        BY <3>3 DEF Has
      <3> QED
        BY <2>2, <3>3, <3>5, <3>6, Zenon DEF Prefix, Tidy
    <2> QED
      BY <2>1, <2>2, Zenon
  <1> HIDE DEF a
  <1>3. Tidy(CloseOps(o)) /\ \A n \in Prepares : Has(CloseOps(o), n) <=> Has(a, n)
    BY <1>1, <1>2, PublishTidy, Zenon
  <1>4. "verify" \in Prepares /\ "close" \in Prepares /\ "write" \in Prepares
        /\ "commit" \in Prepares
    BY Zenon DEF Prepares
  <1> QED
    BY <1>2, <1>3, <1>4, Zenon

LEMMA AfterCloseTidy ==
  ASSUME NEW o \in Ops
  PROVE  /\ Tidy(AfterCloseOps(o))
         /\ \A n \in Prepares : ~Has(AfterCloseOps(o), n)
  <1> DEFINE a == <<"sequence">>
  <1>1. a \in Seq(OpNames) /\ Len(a) = 1 /\ a[1] = "sequence"
    BY DEF OpNames
  <1>2. a \o PublishOps(o) = AfterCloseOps(o)
    BY Zenon DEF AfterCloseOps
  <1> HIDE DEF a
  <1>3. Rank(a[1]) = 0 /\ \A n \in Prepares : ~Has(a, n)
    BY <1>1, RankValues DEF Has, Prepares
  <1>4. Sorted(a) /\ \A i \in 1 .. Len(a) : Rank(a[i]) < 6
    BY <1>1, <1>3 DEF Sorted
  <1>5. Prefix(a)
    BY <1>1, <1>3, <1>4, Zenon DEF Prefix, Tidy, Prepares
  <1> QED
    BY <1>2, <1>3, <1>5, PublishTidy, Zenon

LEMMA RemoveTidy == Tidy(RemoveOps)
  <1> DEFINE s == <<"sequence", "lookup", "remove">>
  <1>1. Len(s) = 3 /\ s[1] = "sequence" /\ s[2] = "lookup" /\ s[3] = "remove"
    BY Zenon
  <1> HIDE DEF s
  <1>2. Rank(s[1]) = 0 /\ Rank(s[2]) = 0 /\ Rank(s[3]) = 7
    BY <1>1, RankValues, Zenon
  <1>3. Sorted(s)
    BY <1>1, <1>2 DEF Sorted
  <1>4. ~Has(s, "open") /\ ~Has(s, "write") /\ ~Has(s, "commit")
    BY <1>1 DEF Has
  <1> QED
    BY <1>3, <1>4, Zenon DEF Tidy, RemoveOps, s

LEMMA EmptyTidy ==
  ASSUME NEW s, Len(s) = 0
  PROVE  Tidy(s) /\ \A n : ~Has(s, n)
  <1>1. \A n : ~Has(s, n)
    BY DEF Has
  <1>2. Sorted(s)
    BY DEF Sorted
  <1> QED
    BY <1>1, <1>2, Zenon DEF Tidy

-----------------------------------------------------------------------------
(* Where a compound is *)

LEMMA BlankRan ==
  ASSUME NEW c, c.next = 1, NEW n
  PROVE  ~Ran(c, n)
  BY DEF Ran

\* What has run when an operation is about to run.
LEMMA AtOp ==
  ASSUME NEW c \in Compounds, NEW m, Full(c, m), c.next \in 1 .. Len(c.ops),
         NEW op, op = c.ops[c.next]
  PROVE  /\ op \in OpNames
         /\ op = "rename" => m = "overwrite" /\ c.next = Len(c.ops)
         /\ op = "link" => m = "create" /\ c.next # Len(c.ops)
         /\ op = "remove" => m # "overwrite" /\ c.next = Len(c.ops)
         /\ m = "create" /\ op = "remove" => Ran(c, "link")
         /\ op # "remove" => ~Ran(c, "link")
         /\ ~Ran(c, "rename")
         /\ m = "delete" => op \in {"sequence", "lookup", "remove"} /\ ~Ran(c, "link")
         /\ op = "open" => Ran(c, "lookup")
         /\ c.next = Len(c.ops) /\ m # "overwrite" => op = "remove"
  <1> DEFINE s == c.ops
             k == c.next
  <1>1. s \in Seq(OpNames) /\ k \in 1 .. Len(s) /\ Len(s) \in Nat
    BY DEF Compounds
  <1>2. /\ Len(s) > 1 /\ s[Len(s)] = (IF m = "overwrite" THEN "rename" ELSE "remove")
        /\ m = "create" => s[Len(s) - 1] = "link"
    BY Zenon DEF Full, Ordered
  <1>3. \A i \in 1 .. Len(s) :
          /\ m = "delete" => s[i] \in {"sequence", "lookup", "remove"}
          /\ s[i] = "rename" => m = "overwrite" /\ i = Len(s)
          /\ s[i] = "link" => m = "create" /\ i = Len(s) - 1
          /\ s[i] = "remove" => i = Len(s)
          /\ s[i] = "open" => \E j \in 1 .. i - 1 : s[j] = "lookup"
    BY Zenon DEF Full, Ordered
  <1>4. \A n : Ran(c, n) <=> \E i \in 1 .. k - 1 : s[i] = n
    BY Zenon DEF Ran
  <1> HIDE DEF s, k
  <1>5. op = s[k]
    BY Zenon DEF s, k
  <1>6. ~Ran(c, "rename") /\ (Ran(c, "link") => m = "create" /\ k = Len(s))
    BY <1>1, <1>3, <1>4
  <1>7. m = "create" /\ k = Len(s) => Ran(c, "link")
    BY <1>1, <1>2, <1>4
  <1>8. k = Len(s) /\ m # "overwrite" => op = "remove"
    BY <1>2, <1>5, Zenon
  <1>9. /\ op \in OpNames
        /\ op = "rename" => m = "overwrite" /\ k = Len(s)
        /\ op = "link" => m = "create" /\ k # Len(s)
        /\ op = "remove" => k = Len(s)
        /\ m = "delete" => op \in {"sequence", "lookup", "remove"}
        /\ op = "open" => Ran(c, "lookup")
    BY <1>1, <1>3, <1>4, <1>5
  <1>10. op = "remove" => m # "overwrite"
    BY <1>2, <1>5, <1>9, Zenon
  <1> HIDE <1>1, <1>2, <1>3, <1>4, <1>5
  <1> QED
    BY <1>6, <1>7, <1>8, <1>9, <1>10, Zenon DEF s, k

-----------------------------------------------------------------------------
(* The server's steps *)

Proceeds(c, d) ==
  /\ d.ops = c.ops /\ d.next = c.next + 1
  /\ d.st = IF c.next = Len(c.ops) THEN "ok" ELSE c.st
Stops(c, d, st) == d.ops = c.ops /\ d.next = c.next /\ d.st = st

LEMMA ProceedsFull ==
  ASSUME NEW c \in Compounds, NEW d \in Compounds, NEW m, Full(c, m), c.st = "running",
         Proceeds(c, d)
  PROVE  /\ Full(d, m)
         /\ \A n : Ran(d, n) <=> Ran(c, n) \/ n = c.ops[c.next]
         /\ d.st = "ok" <=> c.next = Len(c.ops)
         /\ d.st \notin Statuses /\ d.st # "none"
  <1>1. Len(c.ops) \in Nat /\ c.next \in Nat /\ c.next \in 1 .. Len(c.ops)
    BY DEF Compounds, Full
  <1>2. Full(d, m)
    BY <1>1 DEF Full, Proceeds
  <1>3. \A n : Ran(d, n) <=> Ran(c, n) \/ n = c.ops[c.next]
    BY <1>1 DEF Ran, Proceeds
  <1>4. (d.st = "ok" <=> c.next = Len(c.ops)) /\ d.st \in {"ok", "running"}
    BY Zenon DEF Proceeds
  <1> QED
    BY <1>2, <1>3, <1>4, Zenon DEF Statuses

LEMMA StopsFull ==
  ASSUME NEW c \in Compounds, NEW d \in Compounds, NEW m, Full(c, m), c.st = "running",
         NEW st \in Statuses, Stops(c, d, st)
  PROVE  /\ Full(d, m)
         /\ \A n : Ran(d, n) <=> Ran(c, n)
         /\ d.ops[d.next] = c.ops[c.next] /\ d.st = st /\ st \notin {"ok", "running", "none"}
  <1>1. Full(d, m)
    BY Zenon DEF Full, Stops, Statuses
  <1>2. \A n : Ran(d, n) <=> Ran(c, n)
    BY Zenon DEF Ran, Stops
  <1> QED
    BY <1>1, <1>2, Zenon DEF Stops, Statuses

\* A step of o's compound, and of no other.
Only(o) == cmp' \in [Ops -> Compounds] /\ \A p \in Ops \ {o} : cmp'[p] = cmp[p]
Advances(o) == Only(o) /\ Proceeds(cmp[o], cmp'[o])
Halts(o, st) == Only(o) /\ st \in Statuses /\ Stops(cmp[o], cmp'[o], st)

\* c is o's compound, up to the verifiers it has returned.
LEMMA ProceedAdvances ==
  ASSUME cmp \in [Ops -> Compounds], NEW o \in Ops, NEW c \in Compounds,
         c.ops = cmp[o].ops, c.next = cmp[o].next, c.st = cmp[o].st, Proceed(o, c)
  PROVE  Advances(o)
  <1> DEFINE d == [c EXCEPT !.next = @ + 1,
                            !.st = IF c.next = Len(c.ops) THEN "ok" ELSE @]
  <1>1. /\ d.ops = c.ops /\ d.next = c.next + 1
        /\ d.st = (IF c.next = Len(c.ops) THEN "ok" ELSE c.st)
    BY Zenon DEF Compounds
  <1>2. d \in Compounds
    <2>1. c.next + 1 \in Nat
      BY DEF Compounds
    <2>2. (IF c.next = Len(c.ops) THEN "ok" ELSE c.st)
            \in Statuses \cup {"none", "running", "ok", "notsent", "invalid"}
      BY Zenon DEF Compounds
    <2> QED
      BY <2>1, <2>2, Zenon DEF Compounds
  <1> HIDE DEF d
  <1>3. cmp' = [cmp EXCEPT ![o] = d]
    BY Zenon DEF Proceed, d
  <1>4. Only(o) /\ cmp'[o] = d
    BY <1>2, <1>3, Zenon DEF Only
  <1> QED
    BY <1>1, <1>4, Zenon DEF Proceeds, Advances

LEMMA StopHalts ==
  ASSUME cmp \in [Ops -> Compounds], NEW o \in Ops, NEW st \in Statuses, Stop(o, st)
  PROVE  Halts(o, st)
  <1> DEFINE d == [cmp[o] EXCEPT !.st = st]
  <1>1. cmp[o] \in Compounds
    BY Zenon
  <1>2. d \in Compounds /\ d.ops = cmp[o].ops /\ d.next = cmp[o].next /\ d.st = st
    BY <1>1, Zenon DEF Compounds
  <1> HIDE DEF d
  <1>3. cmp' = [cmp EXCEPT ![o] = d]
    BY Zenon DEF Stop, d
  <1>4. Only(o) /\ cmp'[o] = d
    BY <1>2, <1>3, Zenon DEF Only
  <1> QED
    BY <1>2, <1>4, Zenon DEF Stops, Halts

LEMMA RunningCompound ==
  ASSUME ControlInv, NEW o \in Ops, Running(o)
  PROVE  /\ cmp \in [Ops -> Compounds] /\ cmp[o] \in Compounds
         /\ Full(cmp[o], mode[o]) /\ cmp[o].next \in 1 .. Len(cmp[o].ops)
         /\ mode[o] \in Puts \cup {"delete"} /\ cmp[o].st = "running"
  <1>1. cmp \in [Ops -> Compounds] /\ cmp[o] \in Compounds /\ mode[o] \in Modes \cup {"none"}
    BY Zenon DEF ControlInv, Types
  <1>2. Shape(o) /\ Place(o)
    BY Zenon DEF ControlInv, Control
  <1>3. Full(cmp[o], mode[o]) /\ ~Blank(cmp[o])
    BY <1>2, Zenon DEF Shape, Blank, Running
  <1>4. cmp[o].next \in 1 .. Len(cmp[o].ops)
    BY <1>1, <1>3 DEF Full, Running, Compounds
  <1>5. mode[o] # "none"
    BY <1>2, <1>3, Zenon DEF Place, Allows
  <1> QED
    BY <1>1, <1>3, <1>4, <1>5, ModesAssumption, Zenon DEF Puts, Running

\* What an operation of a compound does to the destination.
Passes(o) ==
  /\ UNCHANGED <<dest, effect>>
  /\ \/ /\ Advances(o)
        /\ Op(o) \notin {"rename", "link"}
        /\ mode[o] = "delete" => Op(o) # "remove"
        /\ Op(o) = "lookup" => parent
     \/ \E st \in Statuses :
          /\ Halts(o, st)
          /\ st = "exist" => Op(o) # "link"
          /\ mode[o] = "delete" => st # "noent"
Publishes(o) ==
  /\ Op(o) \in {"rename", "link"}
  /\ Op(o) = "link" => dest = Absent
  /\ Advances(o)
  /\ Temp(o) \in temps /\ dest' = Temp(o) /\ TakesEffect(o, "applied")
IsRejected(o) ==
  /\ Op(o) = "link" /\ Halts(o, "exist")
  /\ dest # Absent /\ dest' = dest /\ TakesEffect(o, "rejected")
Deletes(o) ==
  /\ mode[o] = "delete"
  /\ (Op(o) = "remove" /\ Advances(o)) \/ Halts(o, "noent")
  /\ dest' = Absent /\ TakesEffect(o, "applied")
Kinds(o) == Passes(o) \/ Publishes(o) \/ IsRejected(o) \/ Deletes(o)

LEMMA RunKinds ==
  ASSUME ControlInv, NEW o \in Ops, Run(o)
  PROVE  Running(o) /\ Kinds(o)
  <1>1. Running(o)
    BY Zenon DEF Run, Running
  <1> SUFFICES Kinds(o)
    BY <1>1, Zenon
  <1>2. /\ cmp \in [Ops -> Compounds] /\ cmp[o] \in Compounds
        /\ mode[o] # "delete" \/ Op(o) \in {"sequence", "lookup", "remove"}
    BY <1>1, RunningCompound, AtOp, Zenon DEF Op
  <1>3. \A st \in {"noent", "exist", "notsame"} : st \in Statuses /\ (Stop(o, st) => Halts(o, st))
    <2>1. {"noent", "exist", "notsame"} \subseteq Statuses
      BY Zenon DEF Statuses
    <2> QED
      BY <1>2, <2>1, StopHalts, Zenon
  <1>4. Proceed(o, cmp[o]) => Advances(o)
    BY <1>2, ProceedAdvances, Zenon
  <1>5. CASE RunStateless(o, cmp[o])
    BY <1>4, <1>5, Zenon DEF RunStateless, Passes, Kinds, Op, serverVars
  <1>6. CASE RunLookup(o, cmp[o])
    <2>1. CASE parent /\ Proceed(o, cmp[o]) /\ UNCHANGED effect
      BY <1>4, <1>6, <2>1, Zenon DEF RunLookup, Passes, Kinds, Op
    <2>2. CASE ~parent /\ Stop(o, "noent") /\ mode[o] # "delete"
      BY <1>3, <1>6, <2>2, Zenon DEF RunLookup, Passes, Kinds, Op
    <2>3. CASE ~parent /\ Stop(o, "noent") /\ mode[o] = "delete"
      <3>1. dest = Absent
        BY <2>3, Zenon DEF ControlInv, Parented
      <3> QED
        BY <1>3, <1>6, <2>3, <3>1, Zenon DEF RunLookup, Deletes, Kinds
    <2> QED
      BY <1>6, <2>1, <2>2, <2>3, Zenon DEF RunLookup
  <1>7. CASE RunOpen(o, cmp[o])
    BY <1>2, <1>4, <1>7, Zenon DEF RunOpen, Passes, Kinds, Op
  <1>8. CASE RunWrite(o, cmp[o])
    <2>1. PICK dirty \in BOOLEAN : Proceed(o, [cmp[o] EXCEPT !.write = IF dirty THEN boot ELSE -1])
      BY <1>8, Zenon DEF RunWrite
    <2> DEFINE e == [cmp[o] EXCEPT !.write = IF dirty THEN boot ELSE -1]
    <2>2. (IF dirty THEN boot ELSE -1) \in -1 .. MaxLosses
      BY BoundsAssumption DEF ControlInv, Types
    <2>3. e \in Compounds /\ e.ops = cmp[o].ops /\ e.next = cmp[o].next /\ e.st = cmp[o].st
      BY <1>2, <2>2, Zenon DEF Compounds
    <2> HIDE DEF e
    <2>4. Proceed(o, e)
      BY <2>1, Zenon DEF e
    <2>5. Advances(o)
      BY <1>2, <2>3, <2>4, ProceedAdvances, Zenon
    <2> QED
      BY <1>8, <2>5, Zenon DEF RunWrite, Passes, Kinds, Op
  <1>9. CASE RunCommit(o, cmp[o])
    <2> DEFINE e == [cmp[o] EXCEPT !.commit = boot]
    <2>1. boot \in -1 .. MaxLosses
      BY BoundsAssumption DEF ControlInv, Types
    <2>2. e \in Compounds /\ e.ops = cmp[o].ops /\ e.next = cmp[o].next /\ e.st = cmp[o].st
      BY <1>2, <2>1, Zenon DEF Compounds
    <2> HIDE DEF e
    <2>3. Proceed(o, e)
      BY <1>9, Zenon DEF e, RunCommit
    <2>4. Advances(o)
      BY <1>2, <2>2, <2>3, ProceedAdvances, Zenon
    <2> QED
      BY <1>9, <2>4, Zenon DEF RunCommit, Passes, Kinds, Op
  <1>10. CASE RunVerify(o, cmp[o])
    <2>1. Proceed(o, cmp[o]) \/ Stop(o, "notsame")
      BY <1>10, Zenon DEF RunVerify
    <2> QED
      BY <1>2, <1>3, <1>4, <1>10, <2>1, Zenon DEF RunVerify, Passes, Kinds, Op, serverVars
  <1>11. CASE RunRename(o, cmp[o])
    <2>1. CASE Temp(o) \in temps
      BY <1>4, <1>11, <2>1, Zenon DEF RunRename, Publishes, Kinds, Op
    <2>2. CASE Temp(o) \notin temps
      BY <1>2, <1>3, <1>11, <2>2, Zenon DEF RunRename, Passes, Kinds, Op
    <2> QED
      BY <2>1, <2>2, Zenon
  <1>12. CASE RunLink(o, cmp[o])
    <2>1. CASE dest # Absent
      BY <1>3, <1>12, <2>1, Zenon DEF RunLink, IsRejected, Kinds, Op
    <2>2. CASE dest = Absent /\ Temp(o) \in temps
      BY <1>4, <1>12, <2>2, Zenon DEF RunLink, Publishes, Kinds, Op
    <2>3. CASE dest = Absent /\ Temp(o) \notin temps
      BY <1>2, <1>3, <1>12, <2>3, Zenon DEF RunLink, Passes, Kinds, Op
    <2> QED
      BY <2>1, <2>2, <2>3, Zenon
  <1>13. CASE RunRemove(o, cmp[o])
    <2>1. CASE mode[o] = "delete"
      BY <1>3, <1>4, <1>13, <2>1, Zenon DEF RunRemove, Deletes, Kinds, Op
    <2>2. CASE mode[o] # "delete"
      BY <1>3, <1>4, <1>13, <2>2, Zenon DEF RunRemove, Passes, Kinds, Op
    <2> QED
      BY <2>1, <2>2, Zenon
  <1> QED
    BY <1>1, <1>5, <1>6, <1>7, <1>8, <1>9, <1>10, <1>11, <1>12, <1>13, Zenon DEF Run

LEMMA HaltKinds ==
  ASSUME ControlInv, NEW o \in Ops, Halt(o)
  PROVE  /\ Running(o) /\ Kinds(o) /\ Passes(o)
         /\ UNCHANGED <<parent, boot, temp, unstable, pc, mode, err, result, temps>>
  <1>1. cmp \in [Ops -> Compounds] /\ Running(o)
    BY Zenon DEF ControlInv, Types, Halt, Running
  <1>2. UNCHANGED <<parent, boot, temp, unstable, pc, mode, err, result, temps, dest, effect>>
    BY Zenon DEF Halt, serverVars, callVars
  <1>3. PICK st \in {"delay", "rebuild", "notsupp", "other", "exist"} :
          Stop(o, st) /\ (st = "exist" => Op(o) = "open")
    BY Zenon DEF Halt, Op
  <1>4. st \in Statuses /\ st # "noent" /\ (st = "exist" => Op(o) # "link")
    BY <1>3, Zenon DEF Statuses
  <1>5. Halts(o, st)
    BY <1>1, <1>3, <1>4, StopHalts, Zenon
  <1>6. Passes(o)
    BY <1>2, <1>4, <1>5, Zenon DEF Passes
  <1> QED
    BY <1>1, <1>2, <1>6, Zenon DEF Kinds

LEMMA AdvancesFacts ==
  ASSUME ControlInv, NEW o \in Ops, Running(o), Advances(o)
  PROVE  /\ Full(cmp'[o], mode[o])
         /\ \A n : Ran(cmp'[o], n) <=> Ran(cmp[o], n) \/ n = Op(o)
         /\ cmp'[o].st = "ok" <=> cmp[o].next = Len(cmp[o].ops)
         /\ cmp'[o].st \notin {"exist", "noent", "none"}
  <1>1. /\ cmp[o] \in Compounds /\ Full(cmp[o], mode[o]) /\ cmp[o].st = "running"
        /\ cmp'[o] \in Compounds /\ Proceeds(cmp[o], cmp'[o])
    BY RunningCompound, Zenon DEF Advances, Only
  <1>2. {"exist", "noent"} \subseteq Statuses
    BY Zenon DEF Statuses
  <1> QED
    BY <1>1, <1>2, ProceedsFull DEF Op

LEMMA HaltsFacts ==
  ASSUME ControlInv, NEW o \in Ops, Running(o), NEW st \in Statuses, Halts(o, st)
  PROVE  /\ Full(cmp'[o], mode[o])
         /\ \A n : Ran(cmp'[o], n) <=> Ran(cmp[o], n)
         /\ cmp'[o].ops[cmp'[o].next] = Op(o)
         /\ cmp'[o].st = st /\ st \notin {"ok", "none"}
  <1>1. /\ cmp[o] \in Compounds /\ Full(cmp[o], mode[o]) /\ cmp[o].st = "running"
        /\ cmp'[o] \in Compounds /\ Stops(cmp[o], cmp'[o], st)
    BY RunningCompound, Zenon DEF Halts, Only
  <1> QED
    BY <1>1, StopsFull DEF Op

-----------------------------------------------------------------------------
(* The client's steps *)

\* What every step of o itself leaves alone.
Client(o) ==
  /\ UNCHANGED <<dest, effect, boot>>
  /\ parent => parent'
  /\ temps' # {} => temps # {} \/ parent
  /\ temp' \in [Ops -> Nat]
  /\ unstable' \in [Ops -> -1 .. MaxLosses]
  /\ err' \in [Ops -> Errors]
  /\ \A p \in Ops \ {o} : err'[p] = err[p]

\* o is called; works on its temporary, having done nothing to the destination;
\* sends a compound; is told that it failed; returns; is cancelled.
Asks(o) ==
  /\ pc[o] = "idle"
  /\ \E m \in Modes : mode' = [mode EXCEPT ![o] = m]
  /\ Goto(o, "begin") /\ UNCHANGED <<cmp, result>>
Rests(o) ==
  /\ \E label \in Quiet : Goto(o, label) /\ Allows(label, mode[o])
  /\ effect[o] = "none" /\ ~Running(o) /\ result[o] = "none"
  /\ UNCHANGED <<mode, cmp, result>>
Sends(o) ==
  /\ \E label \in Waiting : Goto(o, label) /\ Allows(label, mode[o])
  /\ effect[o] = "none" /\ result[o] = "none"
  /\ Only(o) /\ cmp'[o].next = 1 /\ cmp'[o].st \in {"running", "notsent", "invalid"}
  /\ Blank(cmp'[o]) \/ (Ordered(cmp'[o].ops, mode[o]) /\ cmp'[o].st = "running")
  /\ UNCHANGED <<mode, result>>
Learns(o) ==
  /\ \E label \in Failing : Goto(o, label) /\ Allows(label, mode[o])
  /\ \/ err'[o] \in CallErrors
     \/ ~Running(o) /\ err'[o] = Decoded(cmp[o]) /\ err'[o] # NoError
  /\ result[o] = "none" /\ cmp[o].st # "none"
  /\ UNCHANGED <<mode, cmp, result>>
Ends(o, r) ==
  /\ Goto(o, "done") /\ result' = [result EXCEPT ![o] = r]
  /\ mode[o] # "none" /\ result[o] = "none"
  /\ r = "ok" => effect[o] = "applied"
  /\ r = "exists" => effect[o] = "rejected"
  /\ r = "error" => effect[o] = "none"
  /\ Running(o) => r = "unknown"
  /\ UNCHANGED <<mode, cmp>>
Returned == {"ok", "exists", "error", "unknown"}
Drops(o) ==
  /\ Goto(o, "done") /\ mode[o] # "none" /\ result[o] = "none"
  /\ UNCHANGED <<mode, cmp, result>>
Moves(o) ==
  \/ Asks(o) \/ Rests(o) \/ Sends(o) \/ Learns(o) \/ Drops(o)
  \/ \E r \in Returned : Ends(o, r)

LEMMA ControlTypes ==
  ASSUME ControlInv, NEW o \in Ops
  PROVE  /\ pc \in [Ops -> Labels] /\ mode \in [Ops -> Modes \cup {"none"}]
         /\ cmp \in [Ops -> Compounds] /\ err \in [Ops -> Errors]
         /\ result \in [Ops -> {"none"} \cup Returned]
         /\ effect \in [Ops -> {"none", "applied", "rejected"}]
         /\ temp \in [Ops -> Nat] /\ unstable \in [Ops -> -1 .. MaxLosses]
         /\ boot \in 0 .. MaxLosses /\ dest \in (Ops \X Nat) \cup {Absent}
         /\ Shape(o) /\ Place(o) /\ Effect(o) /\ Told(o) /\ Looked(o) /\ Parented
  <1>1. {"none"} \cup Returned = {"none", "ok", "exists", "error", "unknown"}
    BY Zenon DEF Returned
  <1> QED
    BY <1>1, Zenon DEF ControlInv, Control, Types

LEMMA LabelKinds ==
  /\ \A l \in Quiet :
       l \in Labels /\ l \notin Waiting /\ l \notin Failing /\ l \notin {"idle", "done"}
  /\ \A l \in Waiting :
       l \in Labels /\ l \notin Quiet /\ l \notin Failing /\ l \notin {"idle", "done"}
  /\ \A l \in Failing :
       l \in Labels /\ l \notin Quiet /\ l \notin Waiting /\ l \notin {"idle", "done"}
  /\ "done" \in Labels /\ "done" \notin Quiet \cup Waiting \cup Failing \cup {"idle"}
  /\ "begin" \in Quiet
  BY Zenon DEF Labels, Quiet, Waiting, Failing

LEMMA AtRest ==
  ASSUME ControlInv, NEW o \in Ops, pc[o] \in Quiet
  PROVE  /\ effect[o] = "none" /\ ~Running(o) /\ result[o] = "none"
         /\ mode[o] \in Puts \cup {"delete"}
         /\ pc[o] \in {"remove"} => mode[o] = "delete"
         /\ pc[o] \in {"fuse", "open", "mkdir", "reopen", "write", "write_failed", "close",
                       "republish"} => mode[o] \in Puts
  <1>1. pc[o] # "idle" /\ pc[o] # "done"
    BY LabelKinds, Zenon
  <1>2. Allows(pc[o], mode[o]) /\ Told(o) /\ mode[o] \in Modes \cup {"none"}
    BY ControlTypes, Zenon DEF Place
  <1>3. mode[o] \in Puts \cup {"delete"}
    BY <1>1, <1>2, ModesAssumption, Zenon DEF Allows, Puts
  <1> QED
    BY <1>1, <1>2, <1>3, Zenon DEF Allows, Told

LEMMA AtWait ==
  ASSUME ControlInv, NEW o \in Ops, pc[o] \in Waiting
  PROVE  /\ result[o] = "none" /\ cmp[o].st # "none"
         /\ pc[o] = "removing" => mode[o] = "delete"
         /\ pc[o] \in {"fused", "publish"} => mode[o] \in Puts
  BY ControlTypes, LabelKinds, Zenon DEF Place, Allows, Told

LEMMA AtFailing ==
  ASSUME ControlInv, NEW o \in Ops, pc[o] \in Failing
  PROVE  /\ result[o] = "none" /\ mode[o] \in Puts /\ cmp[o].st # "none"
         /\ \/ err[o] \in CallErrors
            \/ ~Running(o) /\ err[o] = Decoded(cmp[o]) /\ err[o] # NoError
  BY ControlTypes, LabelKinds, Zenon DEF Place, Allows, Told

LEMMA AllowsPut ==
  ASSUME NEW m \in Puts
  PROVE  /\ \A l \in (Labels \ {"idle", "remove", "removing"}) : Allows(l, m)
         /\ m # "none" /\ m # "delete"
  BY Zenon DEF Allows, Puts

\* What the reply of a compound that ended says is what the compound did.
LEMMA DecodedTrue ==
  ASSUME ControlInv, NEW o \in Ops, ~Running(o), cmp[o].st # "none"
  PROVE  LET e == Decoded(cmp[o])
         IN /\ e = NoError => cmp[o].st = "ok" /\ Full(cmp[o], mode[o])
            /\ e.op # "none" =>
                 /\ e = [op |-> Op(o), st |-> cmp[o].st]
                 /\ cmp[o].next \in 1 .. Len(cmp[o].ops) /\ Full(cmp[o], mode[o])
                 /\ e.op \in OpNames /\ e.st \in Statuses
            /\ e.op = "none" => e \in {NoError, Local("notsent"), Local("invalid"), Local("verifier")}
            /\ e \in {Local("notsent"), Local("invalid")} => Blank(cmp[o])
  <1> DEFINE c == cmp[o]
             e == Decoded(c)
  <1>1. c \in Compounds /\ Shape(o)
    BY ControlTypes, Zenon
  <1>2. CASE Blank(c)
    <2>1. c.st \in {"notsent", "invalid"}
      BY <1>2, Zenon DEF Blank
    <2>2. e = Local(c.st)
      BY <2>1, Zenon DEF Decoded
    <2> QED
      BY <1>2, <2>1, <2>2 DEF NoError, Local
  <1>3. CASE Full(c, mode[o])
    <2>1. c.st \in Statuses \cup {"ok"} /\ c.next \in 1 .. Len(c.ops) + 1
          /\ (c.st = "ok" <=> c.next = Len(c.ops) + 1)
      BY <1>3, Zenon DEF Full, Running
    <2>2. c.st \notin {"notsent", "invalid", "running"} /\ "ok" \notin Statuses
      BY <2>1, Zenon DEF Statuses
    <2>3. CASE e = Local("verifier")
      BY <2>3 DEF NoError, Local
    <2>4. CASE c.st = "ok" /\ e = NoError
      BY <1>3, <2>4 DEF NoError, Local
    <2>5. CASE c.st # "ok" /\ e = [op |-> c.ops[c.next], st |-> c.st]
      <3>1. c.next \in 1 .. Len(c.ops) /\ c.st \in Statuses
        BY <1>1, <2>1, <2>5 DEF Compounds
      <3>2. c.ops[c.next] \in OpNames
        BY <1>1, <3>1 DEF Compounds
      <3>3. e.op = c.ops[c.next] /\ e.st = c.st
        BY <2>5
      <3>4. "none" \notin OpNames
        BY Zenon DEF OpNames
      <3> QED
        BY <1>3, <2>5, <3>1, <3>2, <3>3, <3>4 DEF NoError, Local, Op
    <2> QED
      BY <2>2, <2>3, <2>4, <2>5, Zenon DEF Decoded
  <1> QED
    BY <1>1, <1>2, <1>3, Zenon DEF Shape

LEMMA LocalErrors ==
  /\ \A st \in {"notsent", "invalid", "verifier", "lost", "malformed"} :
       /\ Local(st) \in Errors /\ Local(st) # NoError
       /\ Local(st).op = "none" /\ Local(st).st = st
  /\ NoError \in Errors /\ NoError.op = "none" /\ NoError.st = "none"
  /\ CallErrors \subseteq Errors
  BY Zenon DEF Local, Errors, NoError, CallErrors

LEMMA DecodedType ==
  ASSUME ControlInv, NEW o \in Ops, ~Running(o), cmp[o].st # "none"
  PROVE  Decoded(cmp[o]) \in Errors
  <1> DEFINE e == Decoded(cmp[o])
  <1>1. CASE e.op = "none"
    BY <1>1, DecodedTrue, LocalErrors, Zenon
  <1>2. CASE e.op # "none"
    <2>1. e = [op |-> Op(o), st |-> cmp[o].st] /\ e.op \in OpNames /\ e.st \in Statuses
      BY <1>2, DecodedTrue, Zenon
    <2> QED
      BY <2>1, Zenon DEF Errors
  <1> QED
    BY <1>1, <1>2, Zenon

\* The answer to a compound, or none.
LEMMA ReturnsTold ==
  ASSUME ControlInv, NEW o \in Ops, pc[o] \in Waiting, NEW e, Returns(o, e)
  PROVE  /\ e \in Errors
         /\ \/ e \in CallErrors /\ e # NoError /\ e.op = "none" /\ e.st \in {"lost", "malformed"}
            \/ ~Running(o) /\ e = Decoded(cmp[o])
         /\ cmp[o].st # "none" /\ result[o] = "none"
  <1>1. cmp[o].st # "none" /\ result[o] = "none"
    BY AtWait, Zenon
  <1>2. CASE ~Running(o) /\ e = Decoded(cmp[o])
    BY <1>1, <1>2, DecodedType, Zenon
  <1>3. CASE e \in {Local("lost"), Local("malformed")}
    BY <1>1, <1>3, LocalErrors, Zenon DEF CallErrors
  <1> QED
    BY <1>2, <1>3, Zenon DEF Returns, Running

LEMMA StepCases ==
  ASSUME [Next]_vars
  PROVE  \/ \E o \in Ops : Step(o) \/ Cancel(o)
         \/ \E o \in Ops : Run(o)
         \/ \E o \in Ops : Halt(o)
         \/ LoseWrites \/ Sweep \/ UNCHANGED vars
  BY Zenon DEF Next, Quiescent

-----------------------------------------------------------------------------
(* The server keeps ControlInv *)

\* What the server's step leaves alone; a temporary is created in a directory only.
LEMMA RunBeside ==
  ASSUME NEW o \in Ops, Run(o)
  PROVE  /\ UNCHANGED <<parent, boot, temp, unstable, pc, mode, err, result>>
         /\ temps' # {} => temps # {} \/ Op(o) = "open"
  <1>1. UNCHANGED <<temp, unstable, pc, mode, err, result>>
    BY Zenon DEF Run, callVars
  <1>2. UNCHANGED <<parent, boot>>
    BY Zenon DEF Run, RunStateless, RunLookup, RunOpen, RunWrite, RunCommit, RunVerify,
           RunRename, RunLink, RunRemove, serverVars
  <1>3. temps' # {} => temps # {} \/ Op(o) = "open"
    BY Zenon DEF Run, RunStateless, RunLookup, RunOpen, RunWrite, RunCommit, RunVerify,
           RunRename, RunLink, RunRemove, serverVars, Op
  <1> QED
    BY <1>1, <1>2, <1>3, Zenon

\* What o has done before, while its compound runs.
LEMMA RunningEffect ==
  ASSUME ControlInv, NEW o \in Ops, Running(o)
  PROVE  /\ effect \in [Ops -> {"none", "applied", "rejected"}]
         /\ mode[o] # "delete" => (effect[o] = "applied" <=> Ran(cmp[o], "link"))
         /\ mode[o] = "delete" => effect[o] = "none"
         /\ effect[o] \in {"none", "applied"}
         /\ effect[o] = "applied" => Op(o) = "remove" /\ mode[o] = "create"
         /\ ~Ran(cmp[o], "rename")
         /\ Op(o) = "rename" => mode[o] = "overwrite"
         /\ Op(o) = "link" => mode[o] = "create"
         /\ mode[o] = "delete" => (Op(o) = "remove" <=> cmp[o].next = Len(cmp[o].ops))
         /\ Op(o) = "open" => Ran(cmp[o], "lookup")
  <1>1. /\ cmp[o] \in Compounds /\ Full(cmp[o], mode[o]) /\ cmp[o].st = "running"
        /\ cmp[o].next \in 1 .. Len(cmp[o].ops) /\ mode[o] \in Puts \cup {"delete"}
    BY RunningCompound, Zenon
  <1>2. effect \in [Ops -> {"none", "applied", "rejected"}] /\ Effect(o)
    BY Zenon DEF ControlInv, Control, Types
  <1>3. /\ ~Ran(cmp[o], "rename")
        /\ Op(o) = "rename" => mode[o] = "overwrite"
        /\ Op(o) = "link" => mode[o] = "create"
        /\ mode[o] = "delete" => (Op(o) = "remove" <=> cmp[o].next = Len(cmp[o].ops))
        /\ Op(o) = "open" => Ran(cmp[o], "lookup")
        /\ Op(o) # "remove" => ~Ran(cmp[o], "link")
        /\ Op(o) = "remove" => mode[o] # "overwrite"
    BY <1>1, AtOp DEF Op
  <1>4. /\ mode[o] # "delete" => (effect[o] = "applied" <=> Ran(cmp[o], "link"))
        /\ mode[o] = "delete" => effect[o] = "none"
        /\ effect[o] # "rejected"
    BY <1>1, <1>2, <1>3, Zenon DEF Effect
  <1> QED
    BY <1>1, <1>2, <1>3, <1>4, Zenon DEF Puts

\* A step of others.
Untouched(p) ==
  /\ pc'[p] = pc[p] /\ mode'[p] = mode[p] /\ cmp'[p] = cmp[p] /\ err'[p] = err[p]
  /\ result'[p] = result[p] /\ effect'[p] = effect[p]

LEMMA ControlFrame ==
  ASSUME NEW p \in Ops, Control(p), Untouched(p), parent => parent'
  PROVE  Control(p)'
  <1>1. Shape(p)' /\ Place(p)'
    BY Zenon DEF Control, Shape, Place, Untouched
  <1>2. Effect(p)'
    BY Zenon DEF Control, Effect, Untouched, Op
  <1>3. Told(p)'
    BY Zenon DEF Control, Told, Untouched, Running
  <1>4. Looked(p)'
    BY Zenon DEF Control, Looked, Untouched
  <1> QED
    BY <1>1, <1>2, <1>3, <1>4, Zenon DEF Control

LEMMA ServerStep ==
  ASSUME ControlInv, NEW o \in Ops, Running(o), Kinds(o),
         UNCHANGED <<parent, boot, temp, unstable, pc, mode, err, result>>,
         temps' # {} => temps # {} \/ Op(o) = "open"
  PROVE  ControlInv'
  <1>kindEffect. ASSUME UNCHANGED mode PROVE Effect(o)'
    <2> USE <1>kindEffect
    <2> DEFINE d == cmp'[o]
    <2>1. Effect(o)' <=>
            /\ mode[o] # "delete" =>
                 /\ effect'[o] = "applied" <=> Ran(d, "link") \/ Ran(d, "rename")
                 /\ effect'[o] = "rejected" <=> d.st = "exist" /\ d.ops[d.next] = "link"
            /\ mode[o] = "delete" =>
                 effect'[o] = IF d.st \in {"ok", "noent"} THEN "applied" ELSE "none"
      BY Zenon DEF Effect, Op
    <2>2. /\ mode[o] # "delete" => (effect[o] = "applied" <=> Ran(cmp[o], "link"))
          /\ mode[o] = "delete" => effect[o] = "none"
          /\ effect[o] # "rejected" /\ ~Ran(cmp[o], "rename")
          /\ effect \in [Ops -> {"none", "applied", "rejected"}]
      BY RunningEffect, Zenon
    <2>3. Advances(o) =>
            /\ Ran(d, "link") <=> Ran(cmp[o], "link") \/ Op(o) = "link"
            /\ Ran(d, "rename") <=> Op(o) = "rename"
            /\ d.st \notin {"exist", "noent"}
            /\ d.st = "ok" <=> cmp[o].next = Len(cmp[o].ops)
      BY <2>2, AdvancesFacts, Zenon
    <2>4. \A st \in Statuses : Halts(o, st) =>
            /\ Ran(d, "link") <=> Ran(cmp[o], "link")
            /\ ~Ran(d, "rename") /\ d.ops[d.next] = Op(o) /\ d.st = st /\ st # "ok"
      BY <2>2, HaltsFacts, Zenon
    <2> HIDE DEF d
    <2>5. CASE Passes(o)
      <3>1. effect'[o] = effect[o]
        BY <2>5, Zenon DEF Passes
      <3>2. CASE /\ Advances(o) /\ Op(o) \notin {"rename", "link"}
                 /\ mode[o] = "delete" => Op(o) # "remove"
        <4>1. mode[o] = "delete" => cmp[o].next # Len(cmp[o].ops)
          BY <3>2, RunningEffect, Zenon
        <4> QED
          BY <2>1, <2>2, <2>3, <3>1, <3>2, <4>1, Zenon
      <3>3. ASSUME NEW st \in Statuses, Halts(o, st), st = "exist" => Op(o) # "link",
                   mode[o] = "delete" => st # "noent"
            PROVE  Effect(o)'
        BY <2>1, <2>2, <2>4, <3>1, <3>3, Zenon
      <3> QED
        BY <2>5, <3>2, <3>3, Zenon DEF Passes
    <2>6. CASE Publishes(o)
      <3>1. effect'[o] = "applied" /\ Advances(o) /\ Op(o) \in {"rename", "link"}
        BY <2>2, <2>6, Zenon DEF Publishes, TakesEffect
      <3>2. mode[o] # "delete"
        BY <3>1, RunningEffect, Zenon
      <3> QED
        BY <2>1, <2>3, <3>1, <3>2, Zenon
    <2>7. CASE IsRejected(o)
      <3>1. /\ effect'[o] = "rejected" /\ Halts(o, "exist") /\ "exist" \in Statuses
            /\ Op(o) = "link"
        BY <2>2, <2>7, Zenon DEF IsRejected, TakesEffect, Halts
      <3>2. mode[o] # "delete" /\ ~Ran(cmp[o], "link")
        BY <2>2, <3>1, RunningEffect, Zenon
      <3> QED
        BY <2>1, <2>4, <3>1, <3>2, Zenon
    <2>8. CASE Deletes(o)
      <3>1. /\ effect'[o] = "applied" /\ mode[o] = "delete"
            /\ (Op(o) = "remove" /\ Advances(o)) \/ (Halts(o, "noent") /\ "noent" \in Statuses)
        BY <2>2, <2>8, Zenon DEF Deletes, TakesEffect, Halts
      <3>2. Op(o) = "remove" => cmp[o].next = Len(cmp[o].ops)
        BY <3>1, RunningEffect, Zenon
      <3> QED
        BY <2>1, <2>3, <2>4, <3>1, <3>2, Zenon
    <2> QED
      BY <2>5, <2>6, <2>7, <2>8, Zenon DEF Kinds
  <1>1. Types /\ Parented /\ Shape(o) /\ Place(o) /\ Told(o) /\ Looked(o)
    BY Zenon DEF ControlInv, Control
  <1>2. Only(o)
    BY Zenon DEF Kinds, Passes, Publishes, IsRejected, Deletes, Advances, Halts
  <1>3. effect' = effect \/ \E x \in {"applied", "rejected"} : effect' = [effect EXCEPT ![o] = x]
    BY Zenon DEF Kinds, Passes, Publishes, IsRejected, Deletes, TakesEffect
  <1>4. /\ effect' \in [Ops -> {"none", "applied", "rejected"}]
        /\ \A p \in Ops \ {o} : effect'[p] = effect[p]
    BY <1>1, <1>3, Zenon DEF Types
  <1>5. Types'
    <2>1. Temp(o) \in Ops \X Nat
      BY <1>1, Zenon DEF Types, Temp
    <2>2. dest' \in {dest, Temp(o), Absent}
      BY Zenon DEF Kinds, Passes, Publishes, IsRejected, Deletes
    <2>3. dest' \in (Ops \X Nat) \cup {Absent}
      BY <1>1, <2>1, <2>2, Zenon DEF Types
    <2> QED
      BY <1>1, <1>2, <1>4, <2>3, Zenon DEF Types, Only
  <1>6. Full(cmp'[o], mode[o]) /\ cmp'[o].st # "none"
    BY AdvancesFacts, HaltsFacts, Zenon
       DEF Kinds, Passes, Publishes, IsRejected, Deletes, Halts
  <1>7. Ran(cmp'[o], "lookup") => parent
    <2>1. Advances(o) \/ \E st \in Statuses : Halts(o, st)
      BY Zenon DEF Kinds, Passes, Publishes, IsRejected, Deletes, Halts
    <2>2. Advances(o) /\ Op(o) = "lookup" => parent
      <3>1. ASSUME NEW st \in Statuses, Halts(o, st), Advances(o) PROVE FALSE
        BY <3>1, AdvancesFacts, HaltsFacts DEF Advances, Halts, Proceeds, Stops, Only, Compounds
      <3> QED
        BY <3>1, Zenon DEF Kinds, Passes, Publishes, IsRejected, Deletes, Halts
    <2> QED
      BY <1>1, <2>1, <2>2, AdvancesFacts, HaltsFacts, Zenon DEF Looked
  <1>8. Parented'
    <2>1. temps' # {} => parent
      BY <1>1, RunningEffect, Zenon DEF Parented, Looked
    <2>2. dest' # Absent => parent
      BY <1>1, Zenon DEF Kinds, Passes, Publishes, IsRejected, Deletes, Parented
    <2> QED
      BY <2>1, <2>2, Zenon DEF Parented
  <1>9. Control(o)'
    <2>1. ~Blank(cmp[o])
      BY Zenon DEF Blank, Running
    <2>2. Shape(o)' /\ Place(o)' /\ Looked(o)'
      BY <1>1, <1>6, <1>7, <2>1, Zenon DEF Shape, Place, Looked
    <2>3. Told(o)'
      BY <1>1, Zenon DEF Told, Running
    <2> QED
      BY <2>2, <2>3, <1>kindEffect, Zenon DEF Control
  <1>10. ASSUME NEW p \in Ops \ {o} PROVE Control(p)'
    BY <1>2, <1>4, ControlFrame, Zenon DEF Only, Untouched, ControlInv
  <1> QED
    BY <1>5, <1>8, <1>9, <1>10, Zenon DEF ControlInv

-----------------------------------------------------------------------------
(* The server keeps FileInv *)

\* What is still to run of a compound in order, when an operation runs or not.
LEMMA PendingAt ==
  ASSUME NEW c \in Compounds, NEW m, Full(c, m), c.next \in 1 .. Len(c.ops), Tidy(c.ops)
  PROVE  LET op == c.ops[c.next]
         IN  /\ \A n : 0 < Rank(n) /\ Rank(n) < Rank(op) => ~Pending(c, n)
             /\ Rank(op) \in 4 .. 7 => ~Pending(c, "commit") /\ ~Pending(c, "write")
             /\ Rank(op) \in 5 .. 7 => ~Pending(c, "verify")
             /\ op = "commit" => ~Pending(c, "write")
  <1> DEFINE op == c.ops[c.next]
  <1>1. c.next \in Nat /\ Len(c.ops) \in Nat
    BY DEF Compounds
  <1>2. \A n : 0 < Rank(n) /\ Rank(n) < Rank(op) => ~Pending(c, n)
    BY <1>1 DEF Pending, Tidy, Sorted
  <1> HIDE DEF op
  <1>3. /\ Rank(op) \in 4 .. 7 => ~Pending(c, "commit") /\ ~Pending(c, "write")
        /\ Rank(op) \in 5 .. 7 => ~Pending(c, "verify")
        /\ op = "commit" => ~Pending(c, "write")
    BY <1>2, RankValues
  <1> QED
    BY <1>2, <1>3, Zenon DEF op

LEMMA PendingAfter ==
  ASSUME NEW c \in Compounds, NEW d \in Compounds, NEW m, Full(c, m), c.st = "running",
         Proceeds(c, d), Tidy(c.ops)
  PROVE  LET op == c.ops[c.next]
         IN  /\ \A n : Pending(c, n) <=> Pending(d, n) \/ n = op
             /\ Rank(op) > 0 => ~Pending(d, op)
             /\ op = "open" => Pending(d, "write")
             /\ op \in {"open", "write"} => Pending(d, "commit") /\ Pending(d, "verify")
  <1> DEFINE op == c.ops[c.next]
  <1>1. /\ c.next \in 1 .. Len(c.ops) /\ Len(c.ops) \in Nat /\ Sorted(c.ops)
        /\ d.ops = c.ops /\ d.next = c.next + 1
    BY DEF Compounds, Full, Proceeds, Tidy
  <1>2. \A n : Pending(c, n) <=> Pending(d, n) \/ n = op
    BY <1>1 DEF Pending
  <1>3. Rank(op) > 0 => ~Pending(d, op)
    BY <1>1 DEF Pending, Sorted
  <1>4. \A n : Has(c.ops, n) /\ 0 < Rank(op) /\ Rank(op) < Rank(n) => Pending(d, n)
    BY <1>1 DEF Pending, Sorted, Has
  <1>5. Has(c.ops, op)
    BY <1>1, Zenon DEF Has
  <1> HIDE DEF op
  <1>6. op = "open" => Has(c.ops, "write")
    BY <1>5, Zenon DEF Tidy
  <1>7. op \in {"open", "write"} => Has(c.ops, "commit") /\ Has(c.ops, "verify")
    BY <1>5, Zenon DEF Tidy
  <1>8. /\ op = "open" => Pending(d, "write")
        /\ op \in {"open", "write"} => Pending(d, "commit") /\ Pending(d, "verify")
    BY <1>4, <1>6, <1>7, RankValues
  <1> QED
    BY <1>2, <1>3, <1>8, Zenon DEF op

\* When a compound has run CLOSE, or has run to its end.
LEMMA PendingEnd ==
  ASSUME NEW c \in Compounds, NEW m, Full(c, m), Tidy(c.ops)
  PROVE  /\ c.st = "ok" => \A n : ~Pending(c, n)
         /\ Ran(c, "close") => ~Pending(c, "commit") /\ ~Pending(c, "verify")
         /\ Ran(c, "open") => c.next \notin 1 .. Len(c.ops) \/ c.ops[c.next] # "open"
  <1>1. c.next \in 1 .. Len(c.ops) + 1 /\ Len(c.ops) \in Nat /\ Sorted(c.ops)
    BY DEF Compounds, Full, Tidy
  <1>2. c.st = "ok" => \A n : ~Pending(c, n)
    BY <1>1 DEF Pending, Full
  <1>3. \A n : 0 < Rank(n) /\ Rank(n) < Rank("close") /\ Ran(c, "close") => ~Pending(c, n)
    BY <1>1 DEF Pending, Ran, Sorted
  <1>4. ASSUME NEW i \in 1 .. c.next - 1, c.ops[i] = "open", c.next \in 1 .. Len(c.ops),
               c.ops[c.next] = "open"
        PROVE  FALSE
    <2>1. i \in 1 .. Len(c.ops) /\ i # c.next
      BY <1>1
    <2>2. 0 < Rank("open")
      BY RankValues
    <2> QED
      BY <1>1, <1>4, <2>1, <2>2, Zenon DEF Sorted
  <1>5. Ran(c, "open") => c.next \notin 1 .. Len(c.ops) \/ c.ops[c.next] # "open"
    BY <1>4, Zenon DEF Ran
  <1>6. Ran(c, "close") => ~Pending(c, "commit") /\ ~Pending(c, "verify")
    BY <1>3, RankValues
  <1> QED
    BY <1>2, <1>5, <1>6, Zenon

LEMMA FileFacts ==
  ASSUME ControlInv, FileInv, NEW o \in Ops
  PROVE  /\ temp[o] \in Nat /\ attempts[o] \in Nat /\ boot \in Nat /\ unstable[o] \in Int
         /\ size[o] \in Nat /\ cmp[o] \in Compounds
         /\ cmp[o].write \in Int /\ cmp[o].commit \in Int
         /\ FileTypes
         /\ Named(o) /\ Fresh(o) /\ Arranged(o) /\ Checked(o) /\ Steady(o) /\ Ready(o) /\ Kept(o)
  <1>1. /\ FileTypes
        /\ Named(o) /\ Fresh(o) /\ Arranged(o) /\ Checked(o) /\ Steady(o) /\ Ready(o) /\ Kept(o)
    BY Zenon DEF FileInv, Owned
  <1>2. size[o] \in Nat /\ attempts[o] \in Nat
    BY <1>1, Zenon DEF FileTypes
  <1>3. temp[o] \in Nat /\ boot \in 0 .. MaxLosses /\ unstable[o] \in -1 .. MaxLosses
        /\ cmp[o] \in Compounds
    BY ControlTypes, Zenon
  <1>4. cmp[o].write \in -1 .. MaxLosses /\ cmp[o].commit \in -1 .. MaxLosses
    BY <1>3, Zenon DEF Compounds
  <1>5. boot \in Nat /\ unstable[o] \in Int /\ cmp[o].write \in Int /\ cmp[o].commit \in Int
    BY <1>3, <1>4, BoundsAssumption
  <1> QED
    BY <1>1, <1>2, <1>3, <1>5, Zenon

\* The operations whose file matters.
LEMMA WithCompound ==
  ASSUME ControlInv, NEW o \in Ops, mode[o] # "delete", Len(cmp[o].ops) > 0
  PROVE  mode[o] \in Puts /\ Full(cmp[o], mode[o])
  <1>1. Shape(o) /\ Place(o) /\ mode[o] \in Modes \cup {"none"}
    BY ControlTypes, Zenon
  <1>2. ~Blank(cmp[o])
    BY DEF Blank
  <1>3. mode[o] # "none"
    BY <1>1, <1>2, Zenon DEF Place, Allows
  <1> QED
    BY <1>1, <1>2, <1>3, ModesAssumption, Zenon DEF Shape, Puts

LEMMA WhenUsed ==
  ASSUME ControlInv, FileInv, NEW o \in Ops,
         \/ Live(o) \/ pc[o] \in {"write", "close", "publish", "republish"}
         \/ effect[o] = "applied" /\ mode[o] # "delete"
         \/ result[o] = "ok" /\ mode[o] # "delete"
  PROVE  mode[o] \in Puts /\ temp[o] \in Names /\ Temp(o) \in Temps
  <1>withEffect. ASSUME mode[o] # "delete", effect[o] = "applied"
                 PROVE  Len(cmp[o].ops) > 0 /\ mode[o] \in Puts
    <2> USE <1>withEffect
    <2>1. Shape(o) /\ Effect(o) /\ cmp[o] \in Compounds
      BY ControlTypes, Zenon
    <2>2. Ran(cmp[o], "link") \/ Ran(cmp[o], "rename")
      BY <2>1, Zenon DEF Effect
    <2>3. ~Blank(cmp[o])
      BY <2>2, BlankRan, Zenon DEF Blank
    <2>4. Len(cmp[o].ops) > 1
      BY <2>1, <2>3, Zenon DEF Shape, Full, Ordered
    <2>5. Len(cmp[o].ops) > 0
      BY <2>1, <2>4 DEF Compounds
    <2> QED
      BY <2>5, WithCompound, Zenon
  <1>inUse. ASSUME mode[o] \in Puts, pc[o] \notin {"idle", "begin", "done"} \/ Len(cmp[o].ops) > 0
            PROVE  temp[o] \in Names /\ Temp(o) \in Temps
    <2> USE <1>inUse
    <2>1. Slack(pc[o]) \in {0, 1, 2}
      BY Zenon DEF Slack
    <2>2. temp[o] \in Nat /\ attempts[o] \in Nat /\ attempts[o] <= ReconnectRetries
          /\ temp[o] <= 2 * attempts[o] + Slack(pc[o]) /\ temp[o] >= 1
      BY FileFacts, Zenon DEF Named
    <2>3. temp[o] \in Names
      BY <2>1, <2>2, RetriesAssumption DEF Names
    <2> QED
      BY <2>3, Zenon DEF Temps, Temp
  <1>1. CASE Live(o)
    BY <1>1, WithCompound, <1>inUse, Zenon DEF Live
  <1>2. CASE pc[o] \in {"write", "close", "publish", "republish"}
    <2>1. mode[o] \in Puts
      BY <1>2, ControlTypes, Zenon DEF Place, Allows
    <2> QED
      BY <1>2, <2>1, <1>inUse, Zenon
  <1>3. CASE effect[o] = "applied" /\ mode[o] # "delete"
    BY <1>3, <1>withEffect, <1>inUse, Zenon
  <1>4. CASE result[o] = "ok" /\ mode[o] # "delete"
    <2>1. effect[o] = "applied"
      BY <1>4, ControlTypes, Zenon DEF Told
    <2> QED
      BY <1>4, <2>1, <1>withEffect, <1>inUse, Zenon
  <1> QED
    BY <1>1, <1>2, <1>3, <1>4, Zenon

\* A step of others.
Same(p) ==
  /\ pc'[p] = pc[p] /\ mode'[p] = mode[p] /\ cmp'[p] = cmp[p] /\ temp'[p] = temp[p]
  /\ unstable'[p] = unstable[p] /\ size'[p] = size[p] /\ attempts'[p] = attempts[p]
  /\ result'[p] = result[p]
  /\ \A n \in Names : file'[<<p, n>>] = file[<<p, n>>]

LEMMA OwnedFrame ==
  ASSUME ControlInv, FileInv, NEW p \in Ops, Same(p), boot' = boot
  PROVE  Owned(p)'
  <1>1. temp[p] \in Names => File(p)' = File(p)
    <2>1. temp'[p] = temp[p] /\ \A n \in Names : file'[<<p, n>>] = file[<<p, n>>]
      BY Zenon DEF Same
    <2> QED
      BY <2>1 DEF File, Temp
  <1>2. Named(p)' /\ Fresh(p)' /\ Arranged(p)'
    BY FileFacts, Zenon DEF Named, Fresh, Arranged, Same
  <1>3. Live(p)' <=> Live(p)
    BY Zenon DEF Live, Same, Running
  <1>4. Checked(p)'
    BY <1>1, <1>3, FileFacts, WhenUsed, Zenon DEF Checked, Same
  <1>5. Steady(p)'
    BY <1>1, FileFacts, WhenUsed, Zenon DEF Steady, Same
  <1>6. Ready(p)'
    BY <1>1, FileFacts, WhenUsed, Zenon DEF Ready, Settled, Sound, Same
  <1>7. Kept(p)'
    BY <1>1, FileFacts, WhenUsed, Zenon DEF Kept, Sound, Same
  <1> QED
    BY <1>2, <1>4, <1>5, <1>6, <1>7, Zenon DEF Owned

\* What a published file depends on.
SameFile(p) ==
  /\ mode'[p] = mode[p] /\ temp'[p] = temp[p] /\ size'[p] = size[p] /\ effect'[p] = effect[p]
  /\ file'[Temp(p)].size = file[Temp(p)].size
  /\ ~file[Temp(p)].dirty => ~file'[Temp(p)].dirty

LEMMA DestFrame ==
  ASSUME ControlInv, FileInv, UNCHANGED dest,
         \A p \in Ops : effect[p] = "applied" /\ mode[p] # "delete" => SameFile(p)
  PROVE  (dest # Absent => Good(dest))'
  <1> SUFFICES ASSUME dest # Absent PROVE Good(dest)'
    BY Zenon
  <1> DEFINE p == dest[1]
  <1>1. dest \in Ops \X Nat /\ Good(dest)
    BY Zenon DEF ControlInv, Types, FileInv
  <1>2. p \in Ops
    BY <1>1, Zenon
  <1>3. SameFile(p) /\ dest = Temp(p)
    BY <1>1, <1>2, Zenon DEF Good
  <1> QED
    BY <1>1, <1>3, Zenon DEF Good, SameFile, Temp

LEMMA SameIsSameFile ==
  ASSUME ControlInv, FileInv, NEW p \in Ops, effect[p] = "applied", mode[p] # "delete",
         Same(p), effect'[p] = effect[p]
  PROVE  SameFile(p)
  <1>1. file'[Temp(p)] = file[Temp(p)]
    BY WhenUsed, Zenon DEF Same, Temp
  <1> QED
    BY <1>1, Zenon DEF SameFile, Same

\* A step of the client of o.
LEMMA ClientFile ==
  ASSUME ControlInv, FileInv, NEW o \in Ops, Client(o), FileTypes', Owned(o)',
         \A p \in Ops \ {o} : Same(p),
         effect[o] = "applied" => UNCHANGED <<file, temp, mode, size>>
  PROVE  FileInv'
  <1>1. UNCHANGED <<dest, effect, boot>>
    BY Zenon DEF Client
  <1>2. ASSUME NEW p \in Ops, effect[p] = "applied", mode[p] # "delete" PROVE SameFile(p)
    <2>1. CASE p = o
      BY <1>1, <1>2, <2>1, Zenon DEF SameFile
    <2>2. CASE p # o
      BY <1>1, <1>2, <2>2, SameIsSameFile, Zenon
    <2> QED
      BY <2>1, <2>2, Zenon
  <1>3. (dest # Absent => Good(dest))'
    BY <1>1, <1>2, DestFrame, Zenon
  <1>4. \A p \in Ops : Owned(p)'
    BY <1>1, OwnedFrame, Zenon
  <1> QED
    BY <1>3, <1>4, Zenon DEF FileInv

Touches(o, f) == f \in FileRec /\ file' = [file EXCEPT ![Temp(o)] = f]
Verifiers(o) == cmp'[o].write = cmp[o].write /\ cmp'[o].commit = cmp[o].commit

\* What an operation of a compound does to the temporary.
Skips(o) ==
  /\ Advances(o) /\ Verifiers(o) /\ UNCHANGED file
  /\ Op(o) \notin {"open", "write", "commit"}
  /\ Op(o) = "verify" => File(o).size = size[o]
Stays(o) == (\E st \in Statuses : Halts(o, st)) /\ Verifiers(o) /\ UNCHANGED file
Opens(o) == Op(o) = "open" /\ Advances(o) /\ Verifiers(o) /\ Touches(o, NoFile)
Writes(o) ==
  /\ Op(o) = "write" /\ Advances(o)
  /\ \E f \in FileRec : Touches(o, f) /\ ~f.torn /\ (f.dirty => cmp'[o].write = boot)
Commits(o) ==
  /\ Op(o) = "commit" /\ Advances(o)
  /\ \E f \in FileRec :
       Touches(o, f) /\ ~f.dirty /\ f.size = File(o).size /\ f.torn = File(o).torn
  /\ cmp'[o].write = cmp[o].write /\ cmp'[o].commit = boot
FileKinds(o) == Skips(o) \/ Stays(o) \/ Opens(o) \/ Writes(o) \/ Commits(o)
ServerOnly == UNCHANGED <<boot, pc, mode, temp, unstable, size, attempts, result>>

LEMMA StopVerifiers ==
  ASSUME cmp \in [Ops -> Compounds], NEW o \in Ops, NEW st, Stop(o, st)
  PROVE  Verifiers(o)
  <1> DEFINE d == [cmp[o] EXCEPT !.st = st]
  <1>1. cmp[o] \in Compounds
    BY Zenon
  <1>2. d.write = cmp[o].write /\ d.commit = cmp[o].commit
    BY <1>1, Zenon DEF Compounds
  <1> HIDE DEF d
  <1>3. cmp' = [cmp EXCEPT ![o] = d]
    BY Zenon DEF Stop, d
  <1>4. cmp'[o] = d
    BY <1>3, Zenon
  <1> QED
    BY <1>2, <1>4, Zenon DEF Verifiers

LEMMA RunFileKinds ==
  ASSUME ControlInv, FileInv, NEW o \in Ops, Run(o)
  PROVE  FileKinds(o) /\ ServerOnly
  <1>proceedVerifiers. ASSUME cmp \in [Ops -> Compounds], NEW c \in Compounds, Proceed(o, c)
                       PROVE  cmp'[o].write = c.write /\ cmp'[o].commit = c.commit
    <2> USE <1>proceedVerifiers
    <2> DEFINE d == [c EXCEPT !.next = @ + 1,
                              !.st = IF c.next = Len(c.ops) THEN "ok" ELSE @]
    <2>1. d.write = c.write /\ d.commit = c.commit
      BY Zenon DEF Compounds
    <2> HIDE DEF d
    <2>2. cmp' = [cmp EXCEPT ![o] = d]
      BY Zenon DEF Proceed, d
    <2>3. cmp'[o] = d
      BY <2>2, Zenon
    <2> QED
      BY <2>1, <2>3, Zenon
  <1>1. Running(o)
    BY Zenon DEF Run, Running
  <1>2. cmp \in [Ops -> Compounds] /\ cmp[o] \in Compounds
    BY <1>1, RunningCompound, Zenon
  <1>3. \A st \in {"noent", "exist", "notsame"} :
          st \in Statuses /\ (Stop(o, st) => Halts(o, st) /\ Verifiers(o))
    <2>1. {"noent", "exist", "notsame"} \subseteq Statuses
      BY Zenon DEF Statuses
    <2> QED
      BY <1>2, <2>1, StopHalts, StopVerifiers, Zenon
  <1>4. Proceed(o, cmp[o]) => Advances(o) /\ Verifiers(o)
    BY <1>2, ProceedAdvances, <1>proceedVerifiers, Zenon DEF Verifiers
  <1>5. boot \in 0 .. MaxLosses /\ size[o] \in Nat /\ FileTypes
    BY FileFacts, ControlTypes, Zenon
  <1>6. ServerOnly \/ ~(UNCHANGED boot)
    BY Zenon DEF Run, ServerOnly, callVars
  <1>7. CASE RunStateless(o, cmp[o])
    BY <1>4, <1>6, <1>7, Zenon DEF RunStateless, Skips, FileKinds, Op, serverVars
  <1>8. CASE RunLookup(o, cmp[o])
    BY <1>3, <1>4, <1>6, <1>8, Zenon DEF RunLookup, Skips, Stays, FileKinds, Op
  <1>9. CASE RunOpen(o, cmp[o])
    <2>1. NoFile \in FileRec
      BY DEF NoFile, FileRec
    <2> QED
      BY <1>4, <1>6, <1>9, <2>1, Zenon DEF RunOpen, Opens, Touches, FileKinds, Op
  <1>10. CASE RunWrite(o, cmp[o])
    <2>1. PICK n \in {size[o] - 1, size[o]}, dirty \in BOOLEAN :
            /\ file' = [file EXCEPT ![Temp(o)] = [size |-> n, dirty |-> dirty, torn |-> FALSE]]
            /\ Proceed(o, [cmp[o] EXCEPT !.write = IF dirty THEN boot ELSE -1])
      BY <1>10, Zenon DEF RunWrite
    <2> DEFINE e == [cmp[o] EXCEPT !.write = IF dirty THEN boot ELSE -1]
               f == [size |-> n, dirty |-> dirty, torn |-> FALSE]
    <2>2. (IF dirty THEN boot ELSE -1) \in -1 .. MaxLosses
      BY <1>5, BoundsAssumption
    <2>3. /\ e \in Compounds /\ e.ops = cmp[o].ops /\ e.next = cmp[o].next /\ e.st = cmp[o].st
          /\ dirty => e.write = boot
      BY <1>2, <2>2, Zenon DEF Compounds
    <2>4. n \in Int
      BY <1>5
    <2>5. f \in FileRec /\ ~f.torn /\ f.dirty = dirty
      BY <2>4, Zenon DEF FileRec
    <2> HIDE DEF e, f
    <2>6. Proceed(o, e) /\ file' = [file EXCEPT ![Temp(o)] = f]
      BY <2>1, Zenon DEF e, f
    <2>7. Advances(o) /\ cmp'[o].write = e.write
      BY <1>2, <2>3, <2>6, ProceedAdvances, <1>proceedVerifiers, Zenon
    <2>8. Writes(o)
      BY <1>10, <2>3, <2>5, <2>6, <2>7, Zenon DEF Writes, RunWrite, Op, Touches
    <2> QED
      BY <1>6, <1>10, <2>8, Zenon DEF FileKinds, RunWrite
  <1>11. CASE RunCommit(o, cmp[o])
    <2> DEFINE e == [cmp[o] EXCEPT !.commit = boot]
               f == [File(o) EXCEPT !.dirty = FALSE]
    <2>1. mode[o] # "delete" /\ Len(cmp[o].ops) > 0
      <3>1. Op(o) = "commit" /\ Full(cmp[o], mode[o]) /\ cmp[o].next \in 1 .. Len(cmp[o].ops)
        BY <1>1, <1>11, RunningCompound, Zenon DEF RunCommit, Op
      <3>2. mode[o] = "delete" => Op(o) \in {"sequence", "lookup", "remove"}
        BY <1>2, <3>1, AtOp, Zenon DEF Op
      <3>3. Len(cmp[o].ops) > 0
        BY <1>2, <3>1 DEF Compounds
      <3> QED
        BY <3>1, <3>2, <3>3, Zenon
    <2>2. Temp(o) \in Temps
      BY <1>1, <2>1, WhenUsed, Zenon DEF Live
    <2>3. boot \in -1 .. MaxLosses
      BY <1>5
    <2>4. /\ e \in Compounds /\ e.ops = cmp[o].ops /\ e.next = cmp[o].next /\ e.st = cmp[o].st
          /\ e.write = cmp[o].write /\ e.commit = boot
      BY <1>2, <2>3, Zenon DEF Compounds
    <2>5. File(o) \in FileRec
      BY <1>5, <2>2, Zenon DEF FileTypes, FileRec, File
    <2>6. f \in FileRec /\ ~f.dirty /\ f.size = File(o).size /\ f.torn = File(o).torn
      BY <2>5, Zenon DEF FileRec
    <2>7. file' = [file EXCEPT ![Temp(o)] = f]
      BY <1>11, Zenon DEF RunCommit, File
    <2>8. Proceed(o, e)
      BY <1>11, Zenon DEF RunCommit
    <2> HIDE DEF e, f
    <2>9. Advances(o) /\ cmp'[o].write = cmp[o].write /\ cmp'[o].commit = boot
      BY <1>2, <2>4, <2>8, ProceedAdvances, <1>proceedVerifiers, Zenon
    <2>10. Commits(o)
      BY <1>11, <2>6, <2>7, <2>9, Zenon DEF Commits, RunCommit, Op, Touches
    <2> QED
      BY <1>6, <1>11, <2>10, Zenon DEF FileKinds, RunCommit
  <1>12. CASE RunVerify(o, cmp[o])
    BY <1>3, <1>4, <1>6, <1>12, Zenon DEF RunVerify, Skips, Stays, FileKinds, Op, File, serverVars
  <1>13. CASE RunRename(o, cmp[o])
    BY <1>3, <1>4, <1>6, <1>13, Zenon DEF RunRename, Skips, Stays, FileKinds, Op
  <1>14. CASE RunLink(o, cmp[o])
    BY <1>3, <1>4, <1>6, <1>14, Zenon DEF RunLink, Skips, Stays, FileKinds, Op
  <1>15. CASE RunRemove(o, cmp[o])
    BY <1>3, <1>4, <1>6, <1>15, Zenon DEF RunRemove, Skips, Stays, FileKinds, Op
  <1> QED
    BY <1>7, <1>8, <1>9, <1>10, <1>11, <1>12, <1>13, <1>14, <1>15, Zenon DEF Run

LEMMA HaltFileKinds ==
  ASSUME ControlInv, NEW o \in Ops, Halt(o)
  PROVE  FileKinds(o) /\ ServerOnly
  <1>1. cmp \in [Ops -> Compounds]
    BY ControlTypes, Zenon
  <1>2. PICK st \in {"delay", "rebuild", "notsupp", "other", "exist"} : Stop(o, st)
    BY Zenon DEF Halt
  <1>3. st \in Statuses
    BY <1>2, Zenon DEF Statuses
  <1>4. Halts(o, st) /\ Verifiers(o)
    BY <1>1, <1>2, <1>3, StopHalts, StopVerifiers, Zenon
  <1>5. UNCHANGED file /\ ServerOnly
    BY Zenon DEF Halt, ServerOnly, serverVars, callVars
  <1> QED
    BY <1>3, <1>4, <1>5, Zenon DEF FileKinds, Stays

\* What a server step of o has before it and leaves alone.
LEMMA ServerAt ==
  ASSUME ControlInv, FileInv, NEW o \in Ops, Running(o)
  PROVE  /\ cmp[o] \in Compounds /\ Full(cmp[o], mode[o]) /\ cmp[o].next \in 1 .. Len(cmp[o].ops)
         /\ cmp[o].st = "running" /\ Tidy(cmp[o].ops) /\ Has(cmp[o].ops, Op(o))
         /\ Len(cmp[o].ops) > 0 /\ mode[o] \in Puts \cup {"delete"}
         /\ pc[o] \notin Quiet \cup {"idle"} /\ result[o] \in {"none", "unknown"}
         /\ mode[o] # "delete" => Live(o) /\ Temp(o) \in Temps /\ temp[o] \in Names
         /\ mode[o] = "delete" => Op(o) \notin {"open", "write", "commit", "rename", "link"}
         /\ pc[o] = "publish" => Op(o) \notin {"open", "write"}
  <1>1. /\ cmp[o] \in Compounds /\ Full(cmp[o], mode[o]) /\ cmp[o].next \in 1 .. Len(cmp[o].ops)
        /\ cmp[o].st = "running" /\ mode[o] \in Puts \cup {"delete"}
    BY RunningCompound, Zenon
  <1>2. Arranged(o) /\ Told(o)
    BY FileFacts, ControlTypes, Zenon
  <1>3. Has(cmp[o].ops, Op(o)) /\ Tidy(cmp[o].ops)
    BY <1>1, <1>2, Zenon DEF Has, Op, Arranged
  <1>4. Len(cmp[o].ops) > 0
    BY <1>1 DEF Compounds
  <1>5. pc[o] \notin Quiet \cup {"idle"} /\ result[o] \in {"none", "unknown"}
    BY <1>2, Zenon DEF Told
  <1>6. mode[o] # "delete" => Live(o) /\ Temp(o) \in Temps /\ temp[o] \in Names
    BY <1>4, WhenUsed, Zenon DEF Live
  <1>7. mode[o] = "delete" => Op(o) \notin {"open", "write", "commit", "rename", "link"}
    <2>1. mode[o] = "delete" => Op(o) \in {"sequence", "lookup", "remove"}
      BY <1>1, AtOp, Zenon DEF Op
    <2> QED
      BY <2>1, Zenon
  <1>8. pc[o] = "publish" => Op(o) \notin {"open", "write"}
    BY <1>2, <1>3, Zenon DEF Arranged, Tidy
  <1> QED
    BY <1>1, <1>3, <1>4, <1>5, <1>6, <1>7, <1>8, Zenon

\* Files that are not o's temporary do not change.
LEMMA TouchFrame ==
  ASSUME ControlInv, FileInv, NEW o \in Ops, NEW f, Touches(o, f), Temp(o) \in Temps,
         UNCHANGED temp
  PROVE  /\ file' \in [Temps -> FileRec] /\ file'[Temp(o)] = f /\ File(o)' = f
         /\ \A p \in Ops \ {o} : \A n \in Names : file'[<<p, n>>] = file[<<p, n>>]
         /\ \A n \in Names : n # temp[o] => file'[<<o, n>>] = file[<<o, n>>]
  <1>1. file \in [Temps -> FileRec] /\ f \in FileRec
    BY Zenon DEF FileInv, FileTypes, FileRec, Touches
  <1>2. file' = [file EXCEPT ![Temp(o)] = f]
    BY Zenon DEF Touches
  <1>3. file' \in [Temps -> FileRec] /\ file'[Temp(o)] = f
        /\ \A t \in Temps : t # Temp(o) => file'[t] = file[t]
    BY <1>1, <1>2, Zenon
  <1>4. File(o)' = f
    BY <1>3, Zenon DEF File, Temp
  <1>5. \A p \in Ops \ {o} : \A n \in Names : <<p, n>> \in Temps /\ <<p, n>> # Temp(o)
    BY Zenon DEF Temps, Temp
  <1>6. \A n \in Names : n # temp[o] => <<o, n>> \in Temps /\ <<o, n>> # Temp(o)
    BY Zenon DEF Temps, Temp
  <1> QED
    BY <1>3, <1>4, <1>5, <1>6, Zenon

LEMMA ServerFile ==
  ASSUME ControlInv, FileInv, NEW o \in Ops, Run(o) \/ Halt(o)
  PROVE  FileInv'
  <1>serverFrame. ASSUME Running(o), FileKinds(o), ServerOnly
                  PROVE  /\ Only(o) /\ cmp'[o] \in Compounds /\ cmp'[o].ops = cmp[o].ops
                         /\ FileTypes' /\ \A p \in Ops \ {o} : Same(p)
                         /\ Fresh(o)' /\ Named(o)' /\ Arranged(o)' /\ Ready(o)' /\ Kept(o)'
    <2> USE <1>serverFrame
    <2>1. Only(o) /\ cmp'[o] \in Compounds /\ cmp'[o].ops = cmp[o].ops
      BY Zenon DEF FileKinds, Skips, Stays, Opens, Writes, Commits, Advances, Halts, Only,
                   Proceeds, Stops
    <2>2. UNCHANGED file \/ (Temp(o) \in Temps /\ \E f \in FileRec : Touches(o, f))
      <3>1. NoFile \in FileRec
        BY DEF NoFile, FileRec
      <3>2. Op(o) \in {"open", "write", "commit"} => Temp(o) \in Temps
        BY ServerAt, Zenon
      <3> QED
        BY <3>1, <3>2, Zenon DEF FileKinds, Skips, Stays, Opens, Writes, Commits
    <2>3. /\ file' \in [Temps -> FileRec]
          /\ \A p \in Ops \ {o} : \A n \in Names : file'[<<p, n>>] = file[<<p, n>>]
          /\ \A n \in Names : n # temp[o] => file'[<<o, n>>] = file[<<o, n>>]
      <3>1. file \in [Temps -> FileRec] /\ UNCHANGED temp
        BY Zenon DEF FileInv, FileTypes, FileRec, ServerOnly
      <3> QED
        BY <2>2, <3>1, TouchFrame, Zenon
    <2>4. FileTypes'
      BY <2>3, Zenon DEF FileInv, FileTypes, FileRec, ServerOnly
    <2>5. \A p \in Ops \ {o} : Same(p)
      BY <2>1, <2>3, Zenon DEF Same, Only, ServerOnly
    <2>6. Fresh(o)'
      <3>1. temp[o] \in Nat
        BY FileFacts, Zenon
      <3>2. \A n \in Names : n > temp[o] => n # temp[o]
        BY <3>1 DEF Names
      <3> QED
        BY <2>3, <3>2, FileFacts, Zenon DEF Fresh, ServerOnly
    <2>7. Named(o)' /\ Arranged(o)'
      BY <2>1, FileFacts, Zenon DEF Named, Arranged, ServerOnly
    <2>8. pc[o] # "republish" /\ result[o] # "ok"
      BY ServerAt, Zenon DEF Quiet
    <2>9. Ready(o)' /\ Kept(o)'
      BY <2>8, Zenon DEF Ready, Kept, ServerOnly
    <2> QED
      BY <2>1, <2>4, <2>5, <2>6, <2>7, <2>9, Zenon
  <1>serverOwned. ASSUME Running(o), FileKinds(o), ServerOnly PROVE Owned(o)'
    <2> USE <1>serverOwned
    <2>serverSteady. Steady(o)'
      <3> SUFFICES ASSUME pc[o] = "publish"
                   PROVE  /\ File(o)'.dirty => unstable[o] = boot
                          /\ File(o)'.torn => 0 <= unstable[o] /\ unstable[o] < boot
        <4>1. pc[o] \notin {"write", "close"}
          BY ServerAt, Zenon DEF Quiet
        <4> QED
          BY <4>1, Zenon DEF Steady, ServerOnly
      <3>1. /\ File(o).dirty => unstable[o] = boot
            /\ File(o).torn => 0 <= unstable[o] /\ unstable[o] < boot
        BY FileFacts, Zenon DEF Steady
      <3>2. Op(o) \notin {"open", "write"}
        BY ServerAt, Zenon
      <3>3. CASE UNCHANGED file
        BY <3>1, <3>3, Zenon DEF File, Temp, ServerOnly
      <3>4. CASE Commits(o)
        <4>1. PICK f \in FileRec : Touches(o, f) /\ ~f.dirty /\ f.torn = File(o).torn
          BY <3>4, Zenon DEF Commits
        <4>2. Temp(o) \in Temps
          BY <3>4, ServerAt, Zenon DEF Commits
        <4>3. File(o)' = f
          BY <4>1, <4>2, TouchFrame, Zenon DEF ServerOnly
        <4> QED
          BY <3>1, <4>1, <4>3, Zenon
      <3> QED
        BY <3>2, <3>3, <3>4, Zenon DEF FileKinds, Skips, Stays, Opens, Writes
    <2>skipsChecked. ASSUME Live(o), Skips(o) PROVE Checked(o)'
      <3> USE <2>skipsChecked
      <3> DEFINE c == cmp[o]
                 d == cmp'[o]
      <3>1. /\ c \in Compounds /\ Full(c, mode[o]) /\ c.st = "running" /\ Tidy(c.ops)
            /\ Op(o) = c.ops[c.next]
        BY ServerAt, Zenon DEF Op
      <3>2. Proceeds(c, d) /\ d \in Compounds
        BY Zenon DEF Skips, Advances, Only
      <3>3. \A n : Pending(c, n) <=> Pending(d, n) \/ n = Op(o)
        <4>1. \A n : Pending(c, n) <=> Pending(d, n) \/ n = c.ops[c.next]
          BY <3>1, <3>2, PendingAfter, Zenon
        <4> QED
          BY <3>1, <4>1, Zenon
      <3>4. /\ Pending(d, "commit") <=> Pending(c, "commit")
            /\ Pending(d, "write") <=> Pending(c, "write")
            /\ ~Pending(d, "verify") => ~Pending(c, "verify") \/ File(o).size = size[o]
        BY <3>3, Zenon DEF Skips
      <3>5. File(o)' = File(o) /\ d.write = c.write /\ d.commit = c.commit
        BY Zenon DEF File, Temp, Skips, Verifiers, ServerOnly
      <3> HIDE DEF c, d
      <3>6. /\ ~Pending(c, "verify") => File(o).size = size[o]
            /\ ~Pending(c, "commit") =>
                 /\ ~File(o).dirty
                 /\ File(o).torn => 0 <= c.write /\ c.write < c.commit
            /\ Pending(c, "commit") /\ ~Pending(c, "write") =>
                 /\ File(o).dirty => c.write = boot
                 /\ File(o).torn => 0 <= c.write /\ c.write < boot
        BY FileFacts, Zenon DEF Checked, c
      <3> QED
        BY <3>4, <3>5, <3>6, Zenon DEF Checked, ServerOnly, d
    <2>staysChecked. ASSUME Live(o), Stays(o) PROVE Checked(o)'
      <3> USE <2>staysChecked
      <3>1. \A n : Pending(cmp'[o], n) <=> Pending(cmp[o], n)
        BY Zenon DEF Stays, Halts, Stops, Pending
      <3>2. File(o)' = File(o) /\ cmp'[o].write = cmp[o].write /\ cmp'[o].commit = cmp[o].commit
        BY Zenon DEF File, Temp, Stays, Verifiers, ServerOnly
      <3>3. Checked(o)
        BY FileFacts, Zenon
      <3> QED
        BY <3>1, <3>2, <3>3, Zenon DEF Checked, ServerOnly
    <2>opensChecked. ASSUME Opens(o) PROVE Checked(o)'
      <3> USE <2>opensChecked
      <3>1. /\ cmp[o] \in Compounds /\ Full(cmp[o], mode[o]) /\ cmp[o].st = "running"
            /\ Tidy(cmp[o].ops)
        BY ServerAt, Zenon
      <3>2. Proceeds(cmp[o], cmp'[o]) /\ cmp'[o] \in Compounds /\ cmp[o].ops[cmp[o].next] = "open"
        BY Zenon DEF Opens, Advances, Only, Op
      <3>3. Pending(cmp'[o], "write") /\ Pending(cmp'[o], "commit") /\ Pending(cmp'[o], "verify")
        BY <3>1, <3>2, PendingAfter, Zenon
      <3> QED
        BY <3>3, Zenon DEF Checked
    <2>writesChecked. ASSUME Writes(o) PROVE Checked(o)'
      <3> USE <2>writesChecked
      <3>1. /\ cmp[o] \in Compounds /\ Full(cmp[o], mode[o]) /\ cmp[o].st = "running"
            /\ Tidy(cmp[o].ops) /\ Temp(o) \in Temps
        BY ServerAt, Zenon DEF Writes
      <3>2. Proceeds(cmp[o], cmp'[o]) /\ cmp'[o] \in Compounds /\ cmp[o].ops[cmp[o].next] = "write"
        BY Zenon DEF Writes, Advances, Only, Op
      <3>3. Pending(cmp'[o], "commit") /\ Pending(cmp'[o], "verify")
        BY <3>1, <3>2, PendingAfter, Zenon
      <3>4. PICK f \in FileRec : Touches(o, f) /\ ~f.torn /\ (f.dirty => cmp'[o].write = boot)
        BY Zenon DEF Writes
      <3>5. File(o)' = f
        BY <3>1, <3>4, TouchFrame, Zenon DEF ServerOnly
      <3> QED
        BY <3>3, <3>4, <3>5, Zenon DEF Checked, ServerOnly
    <2>commitsChecked. ASSUME Live(o), Commits(o) PROVE Checked(o)'
      <3> USE <2>commitsChecked
      <3> DEFINE c == cmp[o]
                 d == cmp'[o]
      <3>1. /\ c \in Compounds /\ Full(c, mode[o]) /\ c.st = "running" /\ Tidy(c.ops)
            /\ c.next \in 1 .. Len(c.ops) /\ Temp(o) \in Temps
        BY ServerAt, Zenon DEF Commits
      <3>2. Proceeds(c, d) /\ d \in Compounds /\ c.ops[c.next] = "commit"
        BY Zenon DEF Commits, Advances, Only, Op
      <3>3. \A n : Pending(c, n) <=> Pending(d, n) \/ n = "commit"
        BY <3>1, <3>2, PendingAfter, Zenon
      <3>4. ~Pending(d, "commit") /\ ~Pending(c, "write")
        <4>1. Rank("commit") > 0
          BY RankValues
        <4>2. Rank(c.ops[c.next]) > 0 => ~Pending(d, c.ops[c.next])
          BY <3>1, <3>2, PendingAfter, Zenon
        <4>3. c.ops[c.next] = "commit" => ~Pending(c, "write")
          BY <3>1, PendingAt, Zenon
        <4> QED
          BY <3>2, <4>1, <4>2, <4>3, Zenon
      <3>5. PICK f \in FileRec :
              Touches(o, f) /\ ~f.dirty /\ f.size = File(o).size /\ f.torn = File(o).torn
        BY Zenon DEF Commits
      <3>6. File(o)' = f
        BY <3>1, <3>5, TouchFrame, Zenon DEF ServerOnly
      <3>7. d.write = c.write /\ d.commit = boot
        BY Zenon DEF Commits
      <3> HIDE DEF c, d
      <3>8. /\ ~Pending(c, "verify") => File(o).size = size[o]
            /\ Pending(c, "commit") /\ ~Pending(c, "write") =>
                 (File(o).torn => 0 <= c.write /\ c.write < boot)
        BY FileFacts, Zenon DEF Checked, c
      <3>9. Pending(c, "commit") /\ (~Pending(d, "verify") => ~Pending(c, "verify"))
        BY <3>3, Zenon
      <3> QED
        BY <3>4, <3>5, <3>6, <3>7, <3>8, <3>9, Zenon DEF Checked, ServerOnly, d
    <2>1. Checked(o)'
      <3>1. CASE mode[o] = "delete"
        BY <3>1, Zenon DEF Checked, Live, ServerOnly
      <3>2. CASE mode[o] # "delete"
        <4>1. Live(o)
          BY <3>2, ServerAt, Zenon
        <4> QED
          BY <4>1, <2>skipsChecked, <2>staysChecked, <2>opensChecked, <2>writesChecked,
             <2>commitsChecked, Zenon
             DEF FileKinds
      <3> QED
        BY <3>1, <3>2, Zenon
    <2> QED
      BY <2>1, <2>serverSteady, <1>serverFrame, Zenon DEF Owned
  <1>serverDest. ASSUME Running(o), FileKinds(o), Kinds(o), ServerOnly
                 PROVE  (dest # Absent => Good(dest))'
    <2> USE <1>serverDest
    <2>1. /\ effect[o] = "applied" /\ mode[o] # "delete" => Op(o) = "remove"
      <3>1. Effect(o) /\ cmp[o] \in Compounds /\ Full(cmp[o], mode[o])
            /\ cmp[o].next \in 1 .. Len(cmp[o].ops)
        BY ControlTypes, ServerAt, Zenon
      <3>2. ~Ran(cmp[o], "rename") /\ (Op(o) # "remove" => ~Ran(cmp[o], "link"))
        BY <3>1, AtOp, Zenon DEF Op
      <3> QED
        BY <3>1, <3>2, Zenon DEF Effect
    <2>2. Op(o) \notin {"open", "write", "commit"} => UNCHANGED file
      BY Zenon DEF FileKinds, Skips, Stays, Opens, Writes, Commits
    <2>3. ASSUME Passes(o) \/ IsRejected(o) PROVE (dest # Absent => Good(dest))'
      <3>1. UNCHANGED dest /\ \A p \in Ops : effect[p] = "applied" /\ mode[p] # "delete"
                                               => effect'[p] = effect[p]
        BY <2>1, <2>3, ControlTypes, Zenon DEF Passes, IsRejected, TakesEffect
      <3>2. ASSUME NEW p \in Ops, effect[p] = "applied", mode[p] # "delete" PROVE SameFile(p)
        <4>1. CASE p = o
          BY <2>1, <2>2, <3>1, <3>2, <4>1, Zenon DEF SameFile, ServerOnly
        <4>2. CASE p # o
          BY <3>1, <3>2, <4>2, <1>serverFrame, SameIsSameFile, Zenon
        <4> QED
          BY <4>1, <4>2, Zenon
      <3> QED
        BY <3>1, <3>2, DestFrame, Zenon
    <2>4. ASSUME Publishes(o) PROVE Good(dest)'
      <3>1. /\ mode[o] # "delete" /\ Live(o) /\ Tidy(cmp[o].ops) /\ cmp[o] \in Compounds
            /\ Full(cmp[o], mode[o]) /\ cmp[o].next \in 1 .. Len(cmp[o].ops)
        BY <2>4, ServerAt, Zenon DEF Publishes
      <3>2. Rank(cmp[o].ops[cmp[o].next]) = 6
        BY <2>4, RankValues, Zenon DEF Publishes, Op
      <3>3. ~Pending(cmp[o], "commit") /\ ~Pending(cmp[o], "verify")
        <4>1. Rank(cmp[o].ops[cmp[o].next]) \in 4 .. 7 /\ Rank(cmp[o].ops[cmp[o].next]) \in 5 .. 7
          BY <3>2
        <4> QED
          BY <3>1, <4>1, PendingAt, Zenon
      <3>4. File(o).size = size[o] /\ ~File(o).dirty
        BY <3>1, <3>3, FileFacts, Zenon DEF Checked
      <3>5. UNCHANGED <<file, temp, mode, size>> /\ dest' = Temp(o) /\ effect'[o] = "applied"
        BY <2>2, <2>4, ControlTypes, Zenon DEF Publishes, ServerOnly, TakesEffect
      <3>6. dest'[1] = o
        BY <3>5, Zenon DEF Temp
      <3> QED
        BY <3>1, <3>4, <3>5, <3>6, Zenon DEF Good, File, Temp
    <2>5. Deletes(o) => dest' = Absent
      BY Zenon DEF Deletes
    <2> QED
      BY <2>3, <2>4, <2>5, Zenon DEF Kinds
  <1>1. Running(o) /\ Kinds(o) /\ FileKinds(o) /\ ServerOnly
    BY RunKinds, HaltKinds, RunFileKinds, HaltFileKinds, Zenon
  <1>2. \A p \in Ops : Owned(p)'
    BY <1>1, <1>serverOwned, <1>serverFrame, OwnedFrame, Zenon DEF ServerOnly
  <1> QED
    BY <1>1, <1>2, <1>serverFrame, <1>serverDest, Zenon DEF FileInv

\* The server loses what was not committed.
Loses(t) ==
  /\ ~file[t].dirty => file'[t] = file[t]
  /\ file[t].dirty => ~file'[t].dirty

LEMMA LoseFile ==
  ASSUME ControlInv, FileInv, LoseWrites
  PROVE  FileInv'
  <1>loseOwned. ASSUME boot' = boot + 1, NEW o \in Ops, \A t \in Temps : Loses(t),
                       UNCHANGED <<pc, mode, cmp, temp, unstable, size, attempts, result>>
                PROVE  Owned(o)'
    <2> USE <1>loseOwned
    <2>pendingCommit. ASSUME NEW c \in Compounds, NEW m, Full(c, m), Tidy(c.ops),
                             Pending(c, "commit")
                      PROVE  Pending(c, "verify")
      <3> USE <2>pendingCommit
      <3>1. c.next \in 1 .. Len(c.ops) + 1 /\ Len(c.ops) \in Nat
        BY DEF Compounds, Full
      <3>2. PICK i \in c.next .. Len(c.ops) : c.ops[i] = "commit"
        BY Zenon DEF Pending
      <3>3. i \in 1 .. Len(c.ops) /\ i \in Nat
        BY <3>1
      <3>4. PICK j \in 1 .. Len(c.ops) : c.ops[j] = "verify"
        BY <3>2, <3>3, Zenon DEF Tidy, Has
      <3>5. 0 < Rank("commit") /\ Rank("commit") < Rank("verify")
        BY RankValues
      <3>6. i < j
        BY <3>2, <3>3, <3>4, <3>5, Zenon DEF Tidy, Sorted
      <3>7. j \in c.next .. Len(c.ops)
        BY <3>1, <3>3, <3>6
      <3> QED
        BY <3>4, <3>7, Zenon DEF Pending
    <2>1. temp[o] \in Names => Loses(Temp(o)) /\ File(o)' = file'[Temp(o)]
      BY Zenon DEF Temps, Temp, File
    <2>2. Named(o)' /\ Arranged(o)'
      BY FileFacts, Zenon DEF Named, Arranged
    <2>3. Fresh(o)'
      <3>1. \A n \in Names : n > temp[o] => <<o, n>> \in Temps /\ ~file[<<o, n>>].dirty
                                            /\ file[<<o, n>>] = NoFile
        <4>1. ~NoFile.dirty
          BY Zenon DEF NoFile
        <4> QED
          BY <4>1, FileFacts, Zenon DEF Fresh, Temps
      <3> QED
        BY <3>1, Zenon DEF Fresh, Loses
    <2>4. Ready(o)' /\ Kept(o)'
      BY <2>1, FileFacts, WhenUsed, Zenon DEF Ready, Settled, Kept, Sound, Loses, File
    <2>5. Steady(o)'
      <3> SUFFICES ASSUME pc[o] \in {"write", "close", "publish"}
                   PROVE  /\ File(o)'.dirty => unstable[o] = boot'
                          /\ File(o)'.torn => 0 <= unstable[o] /\ unstable[o] < boot'
        BY Zenon DEF Steady
      <3>1. /\ File(o).dirty => unstable[o] = boot
            /\ File(o).torn => 0 <= unstable[o] /\ unstable[o] < boot
        BY FileFacts, Zenon DEF Steady
      <3>2. Loses(Temp(o)) /\ File(o)' = file'[Temp(o)]
        BY <2>1, WhenUsed, Zenon
      <3>3. boot \in Nat /\ unstable[o] \in Int
        BY FileFacts, Zenon
      <3>4. CASE File(o).dirty
        <4>1. ~File(o)'.dirty /\ unstable[o] = boot
          BY <3>1, <3>2, <3>4, Zenon DEF Loses, File
        <4> QED
          BY <3>3, <4>1
      <3>5. CASE ~File(o).dirty
        <4>1. File(o)' = File(o)
          BY <3>2, <3>5, Zenon DEF Loses, File
        <4>2. unstable[o] < boot => unstable[o] < boot'
          BY <3>3
        <4> QED
          BY <3>1, <3>5, <4>1, <4>2, Zenon
      <3> QED
        BY <3>4, <3>5, Zenon
    <2>6. Checked(o)'
      <3> DEFINE c == cmp[o]
      <3> SUFFICES ASSUME Live(o)
                   PROVE  /\ ~Pending(c, "verify") => File(o)'.size = size[o]
                          /\ ~Pending(c, "commit") =>
                               /\ ~File(o)'.dirty
                               /\ File(o)'.torn => 0 <= c.write /\ c.write < c.commit
                          /\ Pending(c, "commit") /\ ~Pending(c, "write") =>
                               /\ File(o)'.dirty => c.write = boot'
                               /\ File(o)'.torn => 0 <= c.write /\ c.write < boot'
        BY Zenon DEF Checked, Live, Running
      <3>1. /\ ~Pending(c, "verify") => File(o).size = size[o]
            /\ ~Pending(c, "commit") =>
                 /\ ~File(o).dirty
                 /\ File(o).torn => 0 <= c.write /\ c.write < c.commit
            /\ Pending(c, "commit") /\ ~Pending(c, "write") =>
                 /\ File(o).dirty => c.write = boot
                 /\ File(o).torn => 0 <= c.write /\ c.write < boot
        BY FileFacts, Zenon DEF Checked
      <3>2. Loses(Temp(o)) /\ File(o)' = file'[Temp(o)]
        BY <2>1, WhenUsed, Zenon
      <3>3. boot \in Nat /\ c.write \in Int
        BY FileFacts, Zenon
      <3>4. CASE File(o).dirty
        <4>1. Pending(c, "commit")
          BY <3>1, <3>4, Zenon
        <4>2. Pending(c, "verify")
          <5>1. c \in Compounds /\ Full(c, mode[o]) /\ Tidy(c.ops)
            BY FileFacts, WithCompound, Zenon DEF Live, Arranged
          <5> QED
            BY <4>1, <5>1, <2>pendingCommit, Zenon
        <4>3. ~File(o)'.dirty
          BY <3>2, <3>4, Zenon DEF Loses, File
        <4>4. c.write = boot => 0 <= c.write /\ c.write < boot'
          BY <3>3
        <4> QED
          BY <3>1, <3>4, <4>1, <4>2, <4>3, <4>4, Zenon
      <3>5. CASE ~File(o).dirty
        <4>1. File(o)' = File(o)
          BY <3>2, <3>5, Zenon DEF Loses, File
        <4>2. c.write < boot => c.write < boot'
          BY <3>3
        <4> QED
          BY <3>1, <3>5, <4>1, <4>2, Zenon
      <3> QED
        BY <3>4, <3>5, Zenon
    <2> QED
      BY <2>2, <2>3, <2>4, <2>5, <2>6, Zenon DEF Owned
  <1>1. UNCHANGED <<dest, effect, pc, mode, cmp, temp, unstable, size, attempts, result>>
        /\ boot' = boot + 1
    BY Zenon DEF LoseWrites, callVars
  <1>2. PICK shrinks \in BOOLEAN :
          file' = [t \in Temps |->
                     IF ~file[t].dirty THEN file[t]
                     ELSE [size |-> IF shrinks THEN 0 ELSE file[t].size,
                           dirty |-> FALSE, torn |-> TRUE]]
    BY Zenon DEF LoseWrites
  <1>3. file \in [Temps -> FileRec]
    BY Zenon DEF FileInv, FileTypes, FileRec
  <1>4. ASSUME NEW t \in Temps
        PROVE  file'[t] \in FileRec /\ Loses(t)
    <2>1. file[t] \in FileRec
      BY <1>3, Zenon
    <2>2. CASE ~file[t].dirty
      BY <1>2, <2>1, <2>2, Zenon DEF Loses
    <2>3. CASE file[t].dirty
      <3> DEFINE f == [size |-> IF shrinks THEN 0 ELSE file[t].size, dirty |-> FALSE, torn |-> TRUE]
      <3>1. file'[t] = f
        BY <1>2, <2>3, Zenon
      <3>2. f \in FileRec /\ ~f.dirty
        BY <2>1 DEF FileRec
      <3> QED
        BY <2>3, <3>1, <3>2, Zenon DEF Loses
    <2> QED
      BY <2>2, <2>3, Zenon
  <1>5. FileTypes'
    BY <1>1, <1>2, <1>4, Zenon DEF FileInv, FileTypes, FileRec
  <1>6. ASSUME dest # Absent PROVE Good(dest)'
    <2> DEFINE p == dest[1]
    <2>1. dest \in Ops \X Nat /\ Good(dest)
      BY <1>6, Zenon DEF ControlInv, Types, FileInv
    <2>2. p \in Ops
      BY <2>1, Zenon
    <2>3. dest \in Temps
      BY <2>1, <2>2, WhenUsed, Zenon DEF Good
    <2> QED
      BY <1>1, <1>4, <2>1, <2>3, Zenon DEF Good, Loses, Temp
  <1>7. \A o \in Ops : Owned(o)'
    BY <1>1, <1>4, <1>loseOwned, Zenon
  <1> QED
    BY <1>1, <1>5, <1>6, <1>7, Zenon DEF FileInv

\* Steps that change nothing the invariant speaks of.
LEMMA StillFile ==
  ASSUME ControlInv, FileInv,
         UNCHANGED <<dest, effect, boot, file, pc, mode, cmp, temp, unstable, size, attempts,
                     result>>
  PROVE  FileInv'
  <1>1. \A p \in Ops : Same(p) /\ SameFile(p)
    BY Zenon DEF Same, SameFile
  <1> QED
    BY <1>1, OwnedFrame, DestFrame, Zenon DEF FileInv, FileTypes
=============================================================================
