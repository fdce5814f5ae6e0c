---------------------------- MODULE ParentDirs ----------------------------
(***************************************************************************)
(* NfsSession::create_parent_dirs (src/src/nfs4/session.rs): the missing   *)
(* directories of a path are made from the root down, one compound each,   *)
(* while other callers make the same directories and somebody removes      *)
(* empty ones. It resolves the path by name until a directory it made      *)
(* gives it a handle, and by that handle from there on.                    *)
(***************************************************************************)
EXTENDS Integers, Sequences, FiniteSets

CONSTANTS
  Callers,   \* calls of put that may have to make the directories
  Depth,     \* components of the parent path
  MaxRmdirs, \* bound: directories removed by somebody else
  MaxFaults  \* bound: failed calls

ASSUME DepthAssumption == Depth \in Nat \ {0}
ASSUME BoundsAssumption == MaxRmdirs \in Nat /\ MaxFaults \in Nat

VARIABLES
  dirs,   \* the directories that exist, with what tells a remade one apart
  rmdirs, \* directories removed so far
  mk,     \* mk[c]: the create_parent_dirs of c
  faults

dirVars == <<dirs, rmdirs, mk, faults>>

Path == [i \in 1 .. Depth |-> i]
Prefix(d) == SubSeq(Path, 1, d)
NoHandle == [path |-> <<>>, birth |-> -1]
Handle(p) == [path |-> p, birth |-> dirs[p]]
Paths == UNION {[1 .. d -> 1 .. Depth] : d \in 0 .. Depth}

DirTypeOK ==
  /\ DOMAIN dirs \subseteq Paths
  /\ \A p \in DOMAIN dirs : dirs[p] \in 0 .. MaxRmdirs
  /\ rmdirs \in 0 .. MaxRmdirs
  /\ mk \in [Callers -> [pc : {"idle", "mkdir", "lookup", "done", "error"},
                         depth : 0 .. Depth,
                         fh : [path : Paths, birth : -1 .. MaxRmdirs]]]
  /\ faults \in 0 .. MaxFaults

NotMaking == [pc |-> "idle", depth |-> 0, fh |-> NoHandle]

\* The root exists, and so does some part of the path.
DirInit ==
  /\ \E d \in 0 .. Depth : dirs = [p \in {Prefix(i) : i \in 0 .. d} |-> 0]
  /\ rmdirs = 0
  /\ mk = [c \in Callers |-> NotMaking]
  /\ faults = 0

\* The directory in which the next one is made: the one whose handle is held,
\* or else the one the path names.
Base(m) == IF m.fh = NoHandle THEN Prefix(m.depth) ELSE m.fh.path
Resolves(m) ==
  /\ Base(m) \in DOMAIN dirs
  /\ m.fh # NoHandle => dirs[Base(m)] = m.fh.birth
Child(m) == Append(Base(m), Path[m.depth + 1])
NeedsChildHandle(m) == m.depth + 1 < Depth

Made(p) == [q \in DOMAIN dirs \cup {p} |-> IF q \in DOMAIN dirs THEN dirs[q] ELSE rmdirs]

BelowOldHandle(m, fh) ==
  [m EXCEPT !.depth = @ + 1, !.fh = IF @ = NoHandle THEN fh ELSE @,
            !.pc = IF m.depth + 1 = Depth THEN "done" ELSE "mkdir"]

\* One turn of the loop is over; fh is what parent_fh holds now.
Below(m, fh) ==
  [m EXCEPT !.depth = @ + 1, !.fh = fh,
            !.pc = IF m.depth + 1 = Depth THEN "done" ELSE "mkdir"]

-----------------------------------------------------------------------------
Making(c) == mk[c].pc = "mkdir" /\ Resolves(mk[c])

\* create_dir_with_handle and create_child_dir_with_handle: the directory was
\* made and GETFH returns its handle.
MkdirHandle(c) ==
  /\ Making(c)
  /\ NeedsChildHandle(mk[c])
  /\ Child(mk[c]) \notin DOMAIN dirs
  /\ dirs' = Made(Child(mk[c]))
  /\ mk' = [mk EXCEPT ![c] = Below(@, [path |-> Child(@), birth |-> rmdirs])]
  /\ UNCHANGED <<rmdirs, faults>>

\* Another caller has made it: without a handle the next turn goes by path,
\* with one ensure_child_dir_handle looks the child up.
MkdirExists(c) ==
  /\ Making(c)
  /\ NeedsChildHandle(mk[c])
  /\ Child(mk[c]) \in DOMAIN dirs
  /\ mk' = [mk EXCEPT ![c] = IF @.fh = NoHandle THEN Below(@, NoHandle)
                             ELSE [@ EXCEPT !.pc = "lookup"]]
  /\ UNCHANGED <<dirs, rmdirs, faults>>

\* lookup_child_handle.
LookupChild(c) ==
  /\ mk[c].pc = "lookup"
  /\ Resolves(mk[c])
  /\ Child(mk[c]) \in DOMAIN dirs
  /\ mk' = [mk EXCEPT ![c] = Below(@, Handle(Child(@)))]
  /\ UNCHANGED <<dirs, rmdirs, faults>>

\* create_dir and create_dir_at_handle, for the last component: made or there.
MkdirLast(c) ==
  /\ Making(c)
  /\ ~NeedsChildHandle(mk[c])
  /\ dirs' = Made(Child(mk[c]))
  /\ mk' = [mk EXCEPT ![c] = Below(@, @.fh)]
  /\ UNCHANGED <<rmdirs, faults>>

\* LOOKUP finds nothing or the handle is stale.
MkdirUnresolved(c) ==
  /\ mk[c].pc \in {"mkdir", "lookup"}
  /\ ~Resolves(mk[c]) \/ (mk[c].pc = "lookup" /\ Child(mk[c]) \notin DOMAIN dirs)
  /\ mk' = [mk EXCEPT ![c].pc = "error"]
  /\ UNCHANGED <<dirs, rmdirs, faults>>

\* The call fails: refused, or lost before or after the server ran it.
MkdirFails(c) ==
  /\ mk[c].pc \in {"mkdir", "lookup"}
  /\ faults < MaxFaults
  /\ faults' = faults + 1
  /\ \/ UNCHANGED dirs
     \/ Making(c) /\ dirs' = Made(Child(mk[c]))
  /\ mk' = [mk EXCEPT ![c].pc = "error"]
  /\ UNCHANGED rmdirs

\* External: somebody removes a directory that holds no other.
Rmdir(p) ==
  /\ rmdirs < MaxRmdirs
  /\ p \in DOMAIN dirs \ {<<>>}
  /\ \A q \in DOMAIN dirs : Len(q) > Len(p) => SubSeq(q, 1, Len(p)) # p
  /\ dirs' = [q \in DOMAIN dirs \ {p} |-> dirs[q]]
  /\ rmdirs' = rmdirs + 1
  /\ UNCHANGED <<mk, faults>>

MakeStep(c) ==
  \/ MkdirHandle(c) \/ MkdirExists(c) \/ LookupChild(c) \/ MkdirLast(c)
  \/ MkdirUnresolved(c) \/ MkdirFails(c)
-----------------------------------------------------------------------------
(***************************************************************************)
(* Handles and names stay in step: whichever mixture of path and handle    *)
(* got it there, and whoever else was making or removing directories, a    *)
(* caller makes directories only where the path says.                      *)
(***************************************************************************)
MadeOnPath == \A p \in DOMAIN dirs : p = Prefix(Len(p))

(***************************************************************************)
(* If create_parent_dirs returns Ok, the whole path is there, unless       *)
(* somebody has removed a directory meanwhile.                             *)
(***************************************************************************)
ParentsMade ==
  \A c \in Callers : mk[c].pc = "done" /\ rmdirs = 0 => Path \in DOMAIN dirs

\* create_parent_dirs makes the directories of the path, and no others.
PathIsMade == MadeOnPath /\ ParentsMade
=============================================================================
