----------------------------- MODULE Directory -----------------------------
(***************************************************************************)
(* One directory of the export and the three operations of                 *)
(* src/src/client.rs that meet in it: puts leave temporary files there     *)
(* (after ParentDirs has made it), sweep_temp_files removes the stale      *)
(* ones, list_page reads it a page at a time. The module Put has the       *)
(* details of a put; here one only creates and publishes its temporary.    *)
(*                                                                         *)
(* READDIR cookies are the server's: positions in a fixed order            *)
(* ("stable"), the same but refused once the directory has changed         *)
(* ("verified"), or indices into what is there now ("positional").         *)
(***************************************************************************)
EXTENDS ParentDirs, SequencesExt

CONSTANTS
  Order,            \* every name, in directory order; a caller is the name of its temporary
  Dots,             \* "." and "..", which decode_readdir leaves out
  Stale,            \* temporary names of dead clients
  Sweepers,         \* calls of sweep_temp_files
  Lister,           \* a caller that lists the whole directory
  Casts,            \* which of them are active together
  Servers,          \* kinds of servers
  PageSize,         \* entries in a reply
  MaxEntries,       \* values of list_page's max_entries
  PipelineDepth,    \* operation_pipeline_depth
  ReconnectRetries, \* RECONNECT_RETRIES
  OlderThan,        \* sweep_temp_files' older_than
  MaxTime           \* bound: the clock

ASSUME OrderAssumption == Dots \cup Stale \cup Callers \subseteq Range(Order)
ASSUME PageAssumption == PageSize \in Nat \ {0} /\ PipelineDepth \in Nat \ {0}
ASSUME CastsAssumption == \A cast \in Casts : cast \subseteq Callers \cup Sweepers \cup {Lister}

VARIABLES
  server,  \* the kind of server
  cast,    \* who is active
  present, \* the names in the directory
  changes, \* how often the directory has changed
  now,     \* the clock that names are stamped with and judged by
  born,    \* born[n]: the creation time in n, or -1 if n is no temporary name
  put,     \* put[c]: how far the put of c is
  sw,      \* sw[s]: the sweep of s
  by,      \* history: who removed a name
  list     \* the lister

vars == <<dirVars, server, cast, present, changes, now, born, put, sw, by, list>>
dirNames == <<server, cast, changes, present, by, list>>

Names == Range(Order)
NotSwept == "nobody"

\* `begun`: a REMOVE has been issued; `hurt`: a reply failed after that.
NoSweep ==
  [pc |-> "idle", cutoff |-> -1, cookie |-> 0, verifier |-> 0, dir |-> NoHandle,
   names |-> <<>>, flight |-> {}, failed |-> FALSE, removed |-> 0, attempts |-> 0,
   result |-> "none", begun |-> FALSE, hurt |-> FALSE]
NoToken == [cookie |-> 0, verifier |-> 0]

DirectoryTypeOK ==
  /\ DirTypeOK
  /\ server \in Servers /\ cast \in Casts
  /\ present \subseteq Names
  /\ (Path \notin DOMAIN dirs => present = {})
  /\ born \in [Names -> -1 .. MaxTime]
  /\ put \in [Callers -> {"idle", "mkdir", "reopen", "written", "ok", "error"}]
  /\ by \in [Names -> Sweepers \cup {NotSwept}]
  /\ \A s \in Sweepers :
       /\ sw[s].pc \in {"idle", "first", "page", "remove", "done"}
       /\ sw[s].result \in {"none", "ok", "error", "unknown"}
       /\ Cardinality(sw[s].flight) <= PipelineDepth
       /\ sw[s].flight # {} => sw[s].pc = "remove"
       /\ sw[s].attempts <= ReconnectRetries
  /\ list.pc \in {"idle", "more", "done"}

Init ==
  /\ DirInit
  /\ server \in Servers
  /\ cast \in Casts
  /\ present \in {{}, Names \ Callers}
  /\ present # {} <=> Path \in DOMAIN dirs
  /\ changes = 0
  /\ now = OlderThan
  /\ born = [n \in Names |-> IF n \in Stale THEN 0 ELSE -1]
  /\ put = [c \in Callers |-> "idle"]
  /\ sw = [s \in Sweepers |-> NoSweep]
  /\ by = [n \in Names |-> NotSwept]
  /\ list = [pc |-> "idle", token |-> NoToken, seen |-> <<>>, steady |-> {}, answer |-> "none"]

\* A fault is a failed call.
Fault == faults < MaxFaults /\ faults' = faults + 1 /\ UNCHANGED <<dirs, rmdirs, mk>>

\* The directory's names change: what a listing in progress may rely on shrinks.
Change(names) ==
  /\ present' = names
  /\ changes' = changes + 1
  /\ list' = [list EXCEPT !.steady = @ \cap names]
-----------------------------------------------------------------------------
(* External: READDIR *)

\* NFS4ERR_NOT_SAME: the cookie is of a directory that has changed.
CookieRefused(cookie, verifier) ==
  server = "verified" /\ cookie # 0 /\ verifier # changes

\* The entries in order, with their cookies.
Entries ==
  {[i \in DOMAIN at |-> [name |-> Order[at[i]],
                         cookie |-> IF server = "positional" THEN i ELSE at[i]]] :
     at \in {SelectSeq([i \in DOMAIN Order |-> i], LAMBDA i : Order[i] \in present)}}

\* A reply holds the next entries, as many as the server likes.
Answers(cookie) ==
  UNION {{[entries |-> SubSeq(rest, 1, k), eof |-> k = Len(rest)] :
            k \in {k \in 0 .. PageSize : k <= Len(rest) /\ (k = 0 <=> rest = <<>>)}} :
           rest \in {SelectSeq(es, LAMBDA e : e.cookie > cookie) : es \in Entries}}
-----------------------------------------------------------------------------
(***************************************************************************)
(* decode_readdir: names other than dots are taken until there are limit   *)
(* of them; if an entry follows, the page ends before it and is not the    *)
(* last. The cookie is that of the last entry taken or passed over.        *)
(***************************************************************************)
Files(entries) == SelectSeq(entries, LAMBDA e : e.name \notin Dots)
Taken(entries, limit) ==
  Cardinality({i \in DOMAIN entries : Len(Files(SubSeq(entries, 1, i - 1))) < limit})

SkipsOverLimit(answer, taken) ==
  [entries |-> [i \in DOMAIN Files(SubSeq(answer.entries, 1, taken)) |->
                  Files(answer.entries)[i].name],
   eof |-> answer.eof /\ taken = Len(answer.entries),
   verifier |-> changes,
   last_cookie |-> IF taken = 0 THEN 0 ELSE Last(answer.entries).cookie]

DecodeReaddir(answer, taken) ==
  [entries |-> [i \in DOMAIN Files(SubSeq(answer.entries, 1, taken)) |->
                  Files(answer.entries)[i].name],
   eof |-> answer.eof /\ taken = Len(answer.entries),
   verifier |-> changes,
   last_cookie |-> IF taken = 0 THEN 0 ELSE answer.entries[taken].cookie]

Pages(cookie, limit) ==
  {DecodeReaddir(answer, Taken(answer.entries, limit)) : answer \in Answers(cookie)}

\* No limit is given for a sweep.
Unlimited == Len(Order)
-----------------------------------------------------------------------------
(* put: open_temp_file, create_parent_dirs, open_temp_file, publish *)

CreateTemp(c) ==
  /\ put[c] \in {"idle", "reopen"} /\ c \in cast
  /\ Path \in DOMAIN dirs
  /\ Change(present \cup {c})
  /\ born' = [born EXCEPT ![c] = now]
  /\ put' = [put EXCEPT ![c] = "written"]
  /\ UNCHANGED <<dirVars, server, cast, now, sw, by>>

\* OPEN finds no directory: make it, once.
ParentMissing(c) ==
  /\ put[c] \in {"idle", "reopen"} /\ c \in cast
  /\ Path \notin DOMAIN dirs
  /\ IF put[c] = "idle"
     THEN /\ put' = [put EXCEPT ![c] = "mkdir"]
          /\ mk' = [mk EXCEPT ![c].pc = "mkdir"]
     ELSE put' = [put EXCEPT ![c] = "error"] /\ UNCHANGED mk
  /\ UNCHANGED <<dirs, rmdirs, faults, dirNames, now, born, sw>>

MakeParents(c) ==
  /\ put[c] = "mkdir"
  /\ MakeStep(c)
  /\ put' = [put EXCEPT ![c] = CASE mk'[c].pc = "done" -> "reopen"
                                 [] mk'[c].pc = "error" -> "error"
                                 [] OTHER -> @]
  /\ IF Path \in DOMAIN dirs' \ DOMAIN dirs THEN Change(Dots) ELSE UNCHANGED <<present, changes, list>>
  /\ UNCHANGED <<server, cast, by, now, born, sw>>

\* RENAME onto a name that stays, or NOENT if the temporary was swept.
PublishTemp(c) ==
  /\ put[c] = "written"
  /\ put' = [put EXCEPT ![c] = IF c \in present THEN "ok" ELSE "error"]
  /\ IF c \in present THEN Change(present \ {c}) ELSE UNCHANGED <<present, changes, list>>
  /\ UNCHANGED <<dirVars, server, cast, now, born, sw, by>>

PutStep(c) == CreateTemp(c) \/ ParentMissing(c) \/ MakeParents(c) \/ PublishTemp(c)

\* External: somebody removes an empty directory of the path.
RemoveDirectory ==
  /\ \E p \in DOMAIN dirs : present \subseteq Dots /\ Rmdir(p)
  /\ IF Path \in DOMAIN dirs' THEN UNCHANGED <<present, changes, list>> ELSE Change({})
  /\ UNCHANGED <<server, cast, now, born, put, sw, by>>

Tick ==
  /\ now < MaxTime
  /\ now' = now + 1
  /\ UNCHANGED <<dirVars, dirNames, born, put, sw>>
-----------------------------------------------------------------------------
(* sweep_temp_files *)

Sweeping(s, w) == sw' = [sw EXCEPT ![s] = w]
SweepUnchanged == UNCHANGED <<server, cast, now, born, put>>
Ends(w, result) ==
  [w EXCEPT !.pc = "done", !.result = result, !.cookie = 0, !.verifier = 0, !.dir = NoHandle,
            !.names = <<>>]

\* The cutoff is computed once, from the clock at the start.
Sweep(s) ==
  /\ sw[s].pc = "idle" /\ s \in cast
  /\ Sweeping(s, [sw[s] EXCEPT !.pc = "first", !.cutoff = now - OlderThan])
  /\ UNCHANGED <<dirVars, present, changes, by, list>> /\ SweepUnchanged

\* remove_temp_names: names are issued up to the depth until one has failed.
Issue(w) ==
  LET room == IF w.failed THEN 0 ELSE PipelineDepth - Cardinality(w.flight)
      k == IF Len(w.names) < room THEN Len(w.names) ELSE room
  IN [w EXCEPT !.names = SubSeq(@, k + 1, Len(@)),
               !.flight = @ \cup {[name |-> w.names[i], st |-> "sent"] : i \in 1 .. k}]

IsStaleNow(w, n) == born[n] >= 0 /\ born[n] <= now - OlderThan
\* parse_temp_file_created_ms, and the comparison with the cutoff.
IsStale(w, n) == born[n] >= 0 /\ born[n] <= w.cutoff

KeepsCookie(w, page) ==
  LET stale == SelectSeq(page.entries, LAMBDA n : IsStale(w, n))
  IN IF stale # <<>> THEN Issue([w EXCEPT !.pc = "remove", !.names = stale, !.begun = TRUE])
     ELSE IF page.eof THEN Ends(w, "ok")
     ELSE [w EXCEPT !.pc = "page", !.verifier = page.verifier]

\* What the sweep does with a page: remove its stale names, end, or go on.
HandlePage(w, page) ==
  LET stale == SelectSeq(page.entries, LAMBDA n : IsStale(w, n))
  IN IF stale # <<>> THEN Issue([w EXCEPT !.pc = "remove", !.names = stale, !.begun = TRUE])
     ELSE IF page.eof THEN Ends(w, "ok")
     ELSE IF page.last_cookie = w.cookie THEN Ends(w, "error")
     ELSE [w EXCEPT !.pc = "page", !.cookie = page.last_cookie, !.verifier = page.verifier]

\* A READDIR has failed with an error that no new session cures.
ReadFailed(w) == Ends([w EXCEPT !.hurt = w.begun], "error")

\* read_dir_path_page: a missing directory counts as swept.
ReadFirst(s) ==
  /\ sw[s].pc = "first"
  /\ \/ /\ Path \in DOMAIN dirs
        /\ \E page \in Pages(0, Unlimited) :
             Sweeping(s, HandlePage([sw[s] EXCEPT !.cookie = 0, !.verifier = 0,
                                                  !.dir = Handle(Path)], page))
     \/ /\ Path \notin DOMAIN dirs
        /\ Sweeping(s, Ends([sw[s] EXCEPT !.removed = 0], "ok"))
  /\ UNCHANGED <<dirVars, present, changes, by, list>> /\ SweepUnchanged

DirectoryIsLive(w) == Path \in DOMAIN dirs /\ dirs[Path] = w.dir.birth

ReadNext(s) ==
  /\ sw[s].pc = "page"
  /\ IF DirectoryIsLive(sw[s]) /\ ~CookieRefused(sw[s].cookie, sw[s].verifier)
     THEN \E page \in Pages(sw[s].cookie, Unlimited) : Sweeping(s, HandlePage(sw[s], page))
     ELSE Sweeping(s, ReadFailed(sw[s]))
  /\ UNCHANGED <<dirVars, present, changes, by, list>> /\ SweepUnchanged

\* A READDIR is refused, or lost with the session: then the sweep starts anew
\* on another session, with a count of zero, unless that cannot be had.
ReadFails(s) ==
  /\ sw[s].pc \in {"first", "page"}
  /\ Fault
  /\ \/ Sweeping(s, ReadFailed(sw[s]))
     \/ /\ sw[s].attempts < ReconnectRetries
        /\ Sweeping(s, [sw[s] EXCEPT !.pc = "first", !.removed = 0, !.attempts = @ + 1,
                                     !.hurt = @ \/ sw[s].begun, !.cookie = 0,
                                     !.verifier = 0, !.dir = NoHandle])
  /\ UNCHANGED <<present, changes, by, list>> /\ SweepUnchanged

Unlink(s, n) ==
  /\ Change(present \ {n})
  /\ by' = [by EXCEPT ![n] = s]

Answered(s, q, st) ==
  Sweeping(s, [sw[s] EXCEPT !.flight = (@ \ {q}) \cup {[q EXCEPT !.st = st]}])

\* The server runs a REMOVE: Removed, Missing, or a stale handle.
RunRemove(s) ==
  /\ \E q \in sw[s].flight :
       /\ q.st = "sent"
       /\ \/ /\ DirectoryIsLive(sw[s]) /\ q.name \in present
             /\ Unlink(s, q.name)
             /\ Answered(s, q, "removed")
          \/ /\ ~(DirectoryIsLive(sw[s]) /\ q.name \in present)
             /\ Answered(s, q, IF DirectoryIsLive(sw[s]) THEN "missing" ELSE "failed")
             /\ UNCHANGED <<present, changes, by, list>>
  /\ UNCHANGED dirVars /\ SweepUnchanged

\* A REMOVE fails: refused, or lost before or after the server ran it.
RemoveFails(s) ==
  /\ Fault
  /\ \E q \in sw[s].flight :
       /\ q.st = "sent"
       /\ Answered(s, q, "failed")
       /\ \/ UNCHANGED <<present, changes, by, list>>
          \/ DirectoryIsLive(sw[s]) /\ q.name \in present /\ Unlink(s, q.name)
  /\ SweepUnchanged

TallyMissing(w, q) ==
  [w EXCEPT !.flight = @ \ {q},
            !.removed = IF q.st # "failed" THEN @ + 1 ELSE @,
            !.failed = @ \/ q.st = "failed",
            !.hurt = @ \/ q.st = "failed"]

\* tally_remove_result.
Tally(w, q) ==
  [w EXCEPT !.flight = @ \ {q},
            !.removed = IF q.st = "removed" THEN @ + 1 ELSE @,
            !.failed = @ \/ q.st = "failed",
            !.hurt = @ \/ q.st = "failed"]

GoesOn(w) ==
  IF w.failed THEN Ends(w, "unknown") ELSE [w EXCEPT !.pc = "page", !.cookie = @ + PageSize]

\* sweep_result, or another pass from the start of the directory.
Removed(w) == IF w.failed THEN Ends(w, "unknown") ELSE [w EXCEPT !.pc = "first"]

TallyRemove(s) ==
  /\ \E q \in sw[s].flight :
       /\ q.st # "sent"
       /\ \E w \in {Issue(Tally(sw[s], q))} :
            Sweeping(s, IF w.flight = {} THEN Removed(w) ELSE w)
  /\ UNCHANGED <<dirVars, present, changes, by, list>> /\ SweepUnchanged

SweepStep(s) ==
  Sweep(s) \/ ReadFirst(s) \/ ReadNext(s) \/ ReadFails(s) \/ TallyRemove(s)

RemoveStep(s) == RunRemove(s) \/ RemoveFails(s)
-----------------------------------------------------------------------------
(* list_page, called until it returns no token *)

Listing(l) == list' = l /\ UNCHANGED <<dirVars, server, cast, present, changes, now, born,
                                       put, sw, by>>

\* max_entries of zero, or the token of another directory's listing.
ListInvalid ==
  /\ Lister \in cast /\ list.pc # "done"
  /\ \/ 0 \in MaxEntries
     \/ list.token # NoToken
  /\ Listing([list EXCEPT !.answer = "invalid"])

ListPage(max) ==
  /\ Lister \in cast /\ list.pc # "done"
  /\ max > 0
  /\ Path \in DOMAIN dirs
  /\ ~CookieRefused(list.token.cookie, list.token.verifier)
  /\ \E page \in Pages(list.token.cookie, max) :
       IF ~page.eof /\ page.last_cookie = list.token.cookie
       THEN Listing([list EXCEPT !.answer = "error"])
       ELSE Listing([pc |-> IF page.eof THEN "done" ELSE "more",
                     token |-> IF page.eof THEN NoToken
                               ELSE [cookie |-> page.last_cookie, verifier |-> page.verifier],
                     seen |-> list.seen \o page.entries,
                     steady |-> IF list.pc = "idle" THEN present \ Dots ELSE list.steady,
                     answer |-> "page"])

\* The directory is gone or its cookies are: the caller starts over. A page
\* lost with its session is asked for again on the next, with the same token.
ListFails ==
  /\ Lister \in cast /\ list.pc # "done"
  /\ Path \notin DOMAIN dirs \/ CookieRefused(list.token.cookie, list.token.verifier)
  /\ Listing([pc |-> "idle", token |-> NoToken, seen |-> <<>>, steady |-> {}, answer |-> "error"])

ListStep == ListInvalid \/ (\E max \in MaxEntries : ListPage(max)) \/ ListFails
-----------------------------------------------------------------------------
Finished ==
  /\ \A c \in Callers \cap cast : put[c] \in {"ok", "error"}
  /\ \A s \in Sweepers \cap cast : sw[s].pc = "done"
  /\ UNCHANGED vars

Next ==
  \/ \E c \in Callers : PutStep(c)
  \/ \E s \in Sweepers : SweepStep(s) \/ RemoveStep(s)
  \/ RemoveDirectory \/ Tick
  \/ ListStep
  \/ Finished

Spec == Init /\ [][Next]_vars

\* Tasks are scheduled, and a call ends: answered, or failed with its session.
FairSpec ==
  /\ Spec
  /\ \A s \in Sweepers : WF_vars(s \in cast /\ SweepStep(s))
                           /\ WF_vars(sw[s].flight # {} /\ RunRemove(s))
-----------------------------------------------------------------------------
(***************************************************************************)
(* client.rs:528: "The returned count includes only files this call        *)
(* actually removed; concurrent sweepers that observe the same name do not *)
(* both count it." And it includes all of them when the sweep returns Ok,  *)
(* unless a reply was lost after the first removal and the sweep began     *)
(* again from zero, or the directory itself went away.                     *)
(***************************************************************************)
CountIsTrue ==
  \A s \in Sweepers :
    LET gone == {n \in Names : by[n] = s}
    IN /\ sw[s].removed <= Cardinality(gone)
       /\ sw[s].result = "ok" /\ ~sw[s].hurt /\ rmdirs = 0
            => sw[s].removed = Cardinality(gone)

(***************************************************************************)
(* A sweep that returns Ok has left no file behind that was old enough     *)
(* when it began, though its own removals move the server's cookies and    *)
(* other clients change the directory between its pages. Cookies that do   *)
(* not survive the changes of others are beyond any client.                *)
(***************************************************************************)
SweepIsComplete ==
  \A s \in Sweepers :
    sw[s].result = "ok" /\ (server = "positional" => cast = {s})
      => ~\E n \in present : born[n] >= 0 /\ born[n] <= sw[s].cutoff

(***************************************************************************)
(* client.rs:523: a file younger than older_than is left alone, however    *)
(* long the sweep takes and however often it starts over, so that a put    *)
(* begun after the sweep never loses its temporary to it.                  *)
(***************************************************************************)
YoungAreSpared ==
  \A n \in Names : by[n] # NotSwept => n \in Stale \cup Callers /\ born[n] <= sw[by[n]].cutoff

(***************************************************************************)
(* The pages of list_page, put together, name each file once: whatever     *)
(* page sizes the caller and the server choose, whatever is removed and    *)
(* created between two pages, no file that was there all the time is       *)
(* missed and none is listed twice.                                        *)
(***************************************************************************)
ListIsComplete ==
  list.pc = "done" /\ (server = "positional" => cast = {Lister})
    => /\ list.steady \subseteq Range(list.seen)
       /\ IsInjective(list.seen)

(***************************************************************************)
(* Every sweep ends, though it starts over after every removal and others  *)
(* keep creating temporary files.                                          *)
(***************************************************************************)
SweepEnds == \A s \in Sweepers : s \in cast ~> sw[s].pc = "done"
=============================================================================
