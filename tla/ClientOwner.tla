---------------------------- MODULE ClientOwner ----------------------------
(***************************************************************************)
(* The client's incarnation and the sessions set up under it: the verifier *)
(* of ClientOwner (src/src/nfs4.rs), the steps of NfsSession::connect      *)
(* (session.rs), and the SEQUENCE status flags that make a session         *)
(* unusable and, if the server has lost the client's state, advance the    *)
(* verifier (codec.rs).                                                    *)
(***************************************************************************)
EXTENDS Integers, Sequences, FiniteSets

CONSTANT MaxLosses \* bound: how often the server loses the client's state

ASSUME MaxLossesAssumption == MaxLosses \in Nat

VARIABLES
  verifier,  \* the owner's verifier: how often it was replaced
  sessions,  \* sessions in the order they were begun
  lost,      \* verifiers under which the server has lost state
  reclaimed  \* verifiers whose RECLAIM_COMPLETE the server remembers

ownerVars == <<verifier, sessions, lost, reclaimed>>

(***************************************************************************)
(* A session remembers the verifier it was established with, how far its   *)
(* connect got, the flags latched in fatal_sequence_flags, whether a       *)
(* reply's handler is between the fetch_or and the compare_exchange, and   *)
(* whether its setup was cut short.                                        *)
(***************************************************************************)
Setup == {"exchange", "create", "reclaim", "root"}
Odd == {"backchannel", "moved", "unknown"}
Flags == {"state_lost", "restart"} \cup Odd
Session == [verifier : 0 .. MaxLosses, phase : Setup \cup {"live", "failed"},
            latched : SUBSET Flags, rotating : BOOLEAN, cut : BOOLEAN]

OwnerTypeOK ==
  /\ verifier \in 0 .. MaxLosses
  /\ sessions \in Seq(Session)
  /\ \A s \in DOMAIN sessions :
       sessions[s].rotating => "state_lost" \in sessions[s].latched
  /\ lost \in SUBSET (0 .. MaxLosses)
  /\ reclaimed \in SUBSET (0 .. MaxLosses)

OwnerInit ==
  /\ verifier = 0
  /\ sessions = <<>>
  /\ lost = {}
  /\ reclaimed = {}

SettingUp(s) == sessions[s].phase \in Setup
EndPhase(s, phase) == sessions' = [sessions EXCEPT ![s].phase = phase]
-----------------------------------------------------------------------------
(* validate_sequence_status_flags and latch_fatal_sequence_flags *)

LossIsUnsupported(flags, complete) ==
  IF "unknown" \in flags THEN "protocol"
  ELSE IF flags \cap {"state_lost", "moved"} # {} THEN "unsupported"
  ELSE IF "backchannel" \in flags \/ (complete /\ "restart" \in flags) THEN "connection_lost"
  ELSE "ok"

\* The error that the flags amount to; a new session cures "connection_lost".
\* A restart is no news before RECLAIM_COMPLETE.
Verdict(flags, complete) ==
  IF "unknown" \in flags THEN "protocol"
  ELSE IF \/ flags \cap {"state_lost", "backchannel"} # {}
          \/ complete /\ "restart" \in flags
       THEN "connection_lost"
  ELSE IF "moved" \in flags THEN "unsupported"
  ELSE "ok"

\* The session's reclaim_complete flag.
Complete(s) == sessions[s].phase \in {"root", "live", "failed"}

\* Up to the fetch_or: every flag of a fatal reply is latched, and the first
\* reply that says the state is lost goes on to rotate the verifier.
Latch(s, flags) ==
  IF Verdict(flags, Complete(s)) = "ok" THEN sessions[s]
  ELSE [sessions[s] EXCEPT
          !.latched = @ \cup flags,
          !.rotating = @ \/ ("state_lost" \in flags /\ "state_lost" \notin sessions[s].latched)]

\* ensure_sequence_status_usable.
Usable(s) == Verdict(sessions[s].latched, Complete(s))
-----------------------------------------------------------------------------
(* NfsSession::connect *)

\* The verifier is read once, when the transport is connected.
Connect ==
  /\ sessions' = Append(sessions, [verifier |-> verifier, phase |-> "exchange",
                                   latched |-> {}, rotating |-> FALSE, cut |-> FALSE])
  /\ UNCHANGED <<verifier, lost, reclaimed>>

\* These two carry no SEQUENCE.
ExchangeId(s) ==
  /\ sessions[s].phase = "exchange"
  /\ EndPhase(s, "create")
  /\ UNCHANGED <<verifier, lost, reclaimed>>

CreateSession(s) ==
  /\ sessions[s].phase = "create"
  /\ EndPhase(s, "reclaim")
  /\ UNCHANGED <<verifier, lost, reclaimed>>

\* External: the flags that the state of the server calls for.
Reported(s) ==
  (IF sessions[s].verifier \in lost THEN {"state_lost"} ELSE {})
    \cup (IF sessions[s].verifier \in reclaimed THEN {} ELSE {"restart"})

\* RECLAIM_COMPLETE, or COMPLETE_ALREADY if the incarnation has done it before.
ReclaimComplete(s, odd) ==
  /\ sessions[s].phase = "reclaim"
  /\ sessions' = [sessions EXCEPT
       ![s] = [Latch(s, Reported(s) \cup odd) EXCEPT !.phase = "root"]]
  /\ reclaimed' = reclaimed \cup {sessions[s].verifier}
  /\ UNCHANGED <<verifier, lost>>

\* resolve_export_root: refused if the session is not usable any more.
ResolveExportRoot(s, odd) ==
  /\ sessions[s].phase = "root"
  /\ ~sessions[s].rotating
  /\ \/ Usable(s) # "ok" /\ EndPhase(s, "failed")
     \/ /\ Usable(s) = "ok"
        /\ sessions' = [sessions EXCEPT
             ![s] = [Latch(s, Reported(s) \cup odd) EXCEPT !.phase = "live"]]
  /\ UNCHANGED <<verifier, lost, reclaimed>>

\* A call fails, or connect_timeout ends the setup.
SetupFails(s) ==
  /\ SettingUp(s)
  /\ ~sessions[s].rotating
  /\ sessions' = [sessions EXCEPT ![s].phase = "failed", ![s].cut = TRUE]
  /\ UNCHANGED <<verifier, lost, reclaimed>>
-----------------------------------------------------------------------------
\* The reply to some operation's compound, on the current session or on one
\* that has been replaced.
LateReply(s, odd) ==
  /\ sessions[s].phase = "live"
  /\ sessions' = [sessions EXCEPT ![s] = Latch(s, Reported(s) \cup odd)]
  /\ UNCHANGED <<verifier, lost, reclaimed>>

RotateNewest(s) ==
  IF verifier = sessions[s].verifier /\ s = Len(sessions) THEN verifier + 1 ELSE verifier

\* rotate_verifier_if_current: compare_exchange with the session's verifier.
RotatedVerifier(s) ==
  IF verifier = sessions[s].verifier THEN verifier + 1 ELSE verifier

Rotate(s) ==
  /\ sessions[s].rotating
  /\ verifier' = RotatedVerifier(s)
  /\ sessions' = [sessions EXCEPT ![s].rotating = FALSE]
  /\ UNCHANGED <<lost, reclaimed>>

\* External: the server revokes the state of an incarnation it knows.
LoseState ==
  /\ Cardinality(lost) < MaxLosses
  /\ \E s \in DOMAIN sessions :
       /\ sessions[s].phase # "exchange"
       /\ sessions[s].verifier \notin lost
       /\ lost' = lost \cup {sessions[s].verifier}
  /\ UNCHANGED <<verifier, sessions, reclaimed>>

\* External: a restart that keeps the sessions and asks for reclaims again.
Restart ==
  /\ reclaimed # {}
  /\ reclaimed' = {}
  /\ UNCHANGED <<verifier, sessions, lost>>

OwnerStep(s) ==
  \/ ExchangeId(s) \/ CreateSession(s) \/ SetupFails(s) \/ Rotate(s)
  \/ \E odd \in SUBSET Odd : ReclaimComplete(s, odd) \/ ResolveExportRoot(s, odd) \/ LateReply(s, odd)

OwnerNext == Connect \/ (\E s \in DOMAIN sessions : OwnerStep(s)) \/ LoseState \/ Restart

OwnerSpec == OwnerInit /\ [][OwnerNext]_ownerVars
-----------------------------------------------------------------------------
(***************************************************************************)
(* docs/architecture.md:37: when the server reports revoked state, the     *)
(* owner "advances to one new verifier/incarnation exactly once".  Not     *)
(* more often: however many sessions and late replies report the same      *)
(* loss, each incarnation is given up at most once, and only if lost.      *)
(***************************************************************************)
OneRotationPerLoss == \A v \in 0 .. verifier - 1 : v \in lost

(***************************************************************************)
(* Not less often: once a session's loss has been handled, no session      *)
(* begins under its verifier again.                                        *)
(***************************************************************************)
LostVerifierIsGone ==
  \A s \in DOMAIN sessions :
    "state_lost" \in sessions[s].latched /\ ~sessions[s].rotating
      => verifier # sessions[s].verifier

(***************************************************************************)
(* Together: rotate_verifier_if_current replaces the verifier exactly once *)
(* per loss.                                                               *)
(***************************************************************************)
RotatedExactlyOnce == OneRotationPerLoss /\ LostVerifierIsGone

(***************************************************************************)
(* Setting a session up fails only for a reason: a call failed, or a reply *)
(* reported what makes the session unusable. The reconnect of a client     *)
(* that has already reclaimed, to a server that has restarted or not, is   *)
(* not refused by the client itself.                                       *)
(***************************************************************************)
SetupFailsForAReason ==
  \A s \in DOMAIN sessions :
    sessions[s].phase = "failed"
      => sessions[s].cut \/ sessions[s].latched \cap ({"state_lost"} \cup Odd) # {}
=============================================================================
