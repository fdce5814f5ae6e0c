---------------------------- MODULE RpcPromise ----------------------------
(***************************************************************************)
(* What RpcClient::call_with_timeout promises to compound_raw_once: a call *)
(* that fails with request_not_sent never reaches the wire, and one that   *)
(* returns a reply did.  Any other error leaves both possible, even after  *)
(* the call is over.                                                       *)
(***************************************************************************)
EXTENDS Naturals

CONSTANT Callers

VARIABLES
  calls,   \* calls[c]: calls c has made
  active,  \* active[c]: c waits for call_with_timeout
  result,  \* result[c]: how c's last call ended
  unsent,  \* calls that may still reach the wire
  sent     \* calls whose record was written completely

promiseVars == <<calls, active, result, unsent, sent>>

CurrentCall(c) == <<c, calls[c]>>

Init ==
  /\ calls = [c \in Callers |-> 0]
  /\ active = [c \in Callers |-> FALSE]
  /\ result = [c \in Callers |-> "none"]
  /\ unsent = {}
  /\ sent = {}

Refuse(c) ==
  /\ ~active[c]
  /\ calls' = [calls EXCEPT ![c] = @ + 1]
  /\ result' = [result EXCEPT ![c] = "not_sent"]
  /\ UNCHANGED <<active, unsent, sent>>

Begin(c) ==
  /\ ~active[c]
  /\ calls' = [calls EXCEPT ![c] = @ + 1]
  /\ active' = [active EXCEPT ![c] = TRUE]
  /\ result' = [result EXCEPT ![c] = "none"]
  /\ unsent' = unsent \cup {<<c, calls[c] + 1>>}
  /\ UNCHANGED sent

Transmit(id) ==
  /\ unsent' = unsent \ {id}
  /\ sent' = sent \cup {id}
  /\ UNCHANGED <<calls, active, result>>

\* The writer stops with requests still queued.
Discard ==
  /\ unsent' \in SUBSET unsent
  /\ UNCHANGED <<calls, active, result, sent>>

Return(c) ==
  /\ active[c]
  /\ active' = [active EXCEPT ![c] = FALSE]
  /\ \/ /\ CurrentCall(c) \notin sent
        /\ result' = [result EXCEPT ![c] = "not_sent"]
        /\ unsent' = unsent \ {CurrentCall(c)}
     \/ /\ CurrentCall(c) \in sent
        /\ \E r \in {"reply", "bad"} : result' = [result EXCEPT ![c] = r]
        /\ UNCHANGED unsent
     \/ /\ \E r \in {"lost", "timeout", "cancelled"} :
             result' = [result EXCEPT ![c] = r]
        /\ unsent' \in {unsent, unsent \ {CurrentCall(c)}}
  /\ UNCHANGED <<calls, sent>>

Next ==
  \/ \E c \in Callers : Refuse(c) \/ Begin(c) \/ Return(c)
  \/ \E id \in unsent : Transmit(id)
  \/ Discard

Spec == Init /\ [][Next]_promiseVars
=============================================================================
