--------------------------- MODULE WriteContract ---------------------------
(***************************************************************************)
(* What a caller of writeTag, cloneTag or lockTag is promised: the tag     *)
(* changes at most once for its request, between the call and the answer,  *)
(* and all of the change is on the tag when the answer is success.  After  *)
(* a failure some, all or nothing of it may be.  TagWrite implements this. *)
(***************************************************************************)
CONSTANT Requests

VARIABLES
  phase,     \* of each request, as in Request
  effect     \* how much of what a request writes is on a tag

Effects == {"none", "part", "whole"}

Contract == INSTANCE Request

Init ==
  /\ Contract!Init
  /\ effect = [i \in Requests |-> "none"]

Call(i) ==
  /\ Contract!Ask(i) \/ Contract!AnswerAtOnce(i, "failed")
  /\ UNCHANGED effect

TakeEffect(i) ==
  /\ phase[i] = "pending"
  /\ effect[i] = "none"
  /\ \E e \in {"part", "whole"} : effect' = [effect EXCEPT ![i] = e]
  /\ UNCHANGED phase

Return(i) ==
  /\ \/ Contract!Answer(i, "failed")
     \/ effect[i] = "whole" /\ Contract!Answer(i, "ok")
  /\ UNCHANGED effect

Next == \E i \in Requests : Call(i) \/ TakeEffect(i) \/ Return(i)

Spec == Init /\ [][Next]_<<phase, effect>>
=============================================================================
