------------------------------ MODULE Request ------------------------------
(***************************************************************************)
(* What nfc_service.c relies on when it hands a request to nfcd_client.c:  *)
(* every asynchronous function of nfcd_client.h takes a callback and calls *)
(* it exactly once, with success or failure, before it returns or later.   *)
(* The result callbacks reply to the luna message and free the request, so *)
(* a second call would use freed memory and a missing one leave the caller *)
(* waiting.  TagWrite, CardEmulation and PassportRead are shown to keep    *)
(* this contract, NfcService is built on it.                               *)
(***************************************************************************)
CONSTANT Requests

VARIABLE phase    \* of each request: "ok" and "failed" are its answers

Phases == {"idle", "pending", "ok", "failed"}
Answers == {"ok", "failed"}

Init == phase = [i \in Requests |-> "idle"]

\* The function returns with the callback still to come.
Ask(i) ==
  /\ phase[i] = "idle"
  /\ phase' = [phase EXCEPT ![i] = "pending"]

\* The callback comes before the function returns.
AnswerAtOnce(i, a) ==
  /\ phase[i] = "idle"
  /\ phase' = [phase EXCEPT ![i] = a]

\* The callback comes from the main loop.
Answer(i, a) ==
  /\ phase[i] = "pending"
  /\ phase' = [phase EXCEPT ![i] = a]

Next ==
  \E i \in Requests :
    \/ Ask(i)
    \/ \E a \in Answers : AnswerAtOnce(i, a) \/ Answer(i, a)

\* No caller waits for ever.
Liveness == \A i \in Requests : (phase[i] = "pending") ~> (phase[i] \in Answers)

Safety == Init /\ [][Next]_phase

Spec == Safety /\ Liveness
=============================================================================
