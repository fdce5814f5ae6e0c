------------------------------- MODULE Store -------------------------------
(***************************************************************************)
(* What put and delete promise about one destination path, whatever the    *)
(* network and the server do (the documentation of NfsClient::put and      *)
(* NfsClient::delete in src/src/client.rs): an operation takes effect at   *)
(* most once and in one step; Ok says that it did; Error::AlreadyExists    *)
(* says that it met an existing destination; any other error but           *)
(* Error::OutcomeUnknown says that it did not and never will.              *)
(***************************************************************************)
CONSTANTS Ops, Absent

VARIABLES
  dest,   \* who wrote the destination, or Absent
  mode,   \* mode[o]: what o asks for, "none" before it is called
  effect, \* effect[o]: "none", "applied" or "rejected"
  result  \* result[o]: what o has returned, "none" while it runs

vars == <<dest, mode, effect, result>>

Init ==
  /\ dest = Absent
  /\ mode = [o \in Ops |-> "none"]
  /\ effect = [o \in Ops |-> "none"]
  /\ result = [o \in Ops |-> "none"]

Ask(o) ==
  /\ mode[o] = "none"
  /\ \E m \in {"overwrite", "create", "delete"} : mode' = [mode EXCEPT ![o] = m]
  /\ UNCHANGED <<dest, effect, result>>

\* The one step in which o takes effect. Only an operation that has not
\* returned, or has returned OutcomeUnknown, may still take it.
Apply(o) ==
  /\ mode[o] # "none"
  /\ result[o] \in {"none", "unknown"}
  /\ effect[o] = "none"
  /\ mode[o] = "create" => dest = Absent
  /\ dest' = IF mode[o] = "delete" THEN Absent ELSE o
  /\ effect' = [effect EXCEPT ![o] = "applied"]
  /\ UNCHANGED <<mode, result>>

\* A create meets an existing destination.
Reject(o) ==
  /\ mode[o] = "create"
  /\ result[o] \in {"none", "unknown"}
  /\ effect[o] = "none"
  /\ dest # Absent
  /\ effect' = [effect EXCEPT ![o] = "rejected"]
  /\ UNCHANGED <<dest, mode, result>>

Return(o, r) ==
  /\ mode[o] # "none"
  /\ result[o] = "none"
  /\ r = "ok" => effect[o] = "applied"
  /\ r = "exists" => effect[o] = "rejected"
  /\ r = "error" => effect[o] = "none"
  /\ result' = [result EXCEPT ![o] = r]
  /\ UNCHANGED <<dest, mode, effect>>

Next ==
  \E o \in Ops :
    \/ Ask(o) \/ Apply(o) \/ Reject(o)
    \/ \E r \in {"ok", "exists", "error", "unknown"} : Return(o, r)

Spec == Init /\ [][Next]_vars
=============================================================================
