----------------------------- MODULE BatchFetch -----------------------------
(***************************************************************************)
(* What a caller of multi_request_data may rely on, without libcurl, the   *)
(* memory of the requests or the loop: every URL of the batch meets at     *)
(* most one fate, fates never change, the answers come in some order       *)
(* without repetition, and the call returns exactly once - or throws, and  *)
(* then gives no answer at all.                                            *)
(***************************************************************************)
EXTENDS Sequences

CONSTANT Url                   \* the positions of the caller's span

VARIABLES fate,                \* what became of each URL so far
          answers,             \* the URLs answered, in the order of answers
          over                 \* the call has returned

abstractVars == <<fate, answers, over>>

Init ==
  /\ fate = [u \in Url |-> "pending"]
  /\ answers = <<>>
  /\ over = FALSE

\* The request could not be built: it is logged and never answered.
Reject(u) ==
  /\ ~over /\ fate[u] = "pending"
  /\ fate' = [fate EXCEPT ![u] = "rejected"]
  /\ UNCHANGED <<answers, over>>

\* The URL is answered, well (2xx, complete) or badly.
Answer(u, f) ==
  /\ ~over /\ fate[u] = "pending"
  /\ fate' = [fate EXCEPT ![u] = f]
  /\ answers' = Append(answers, u)
  /\ UNCHANGED over

\* The call returns; a URL still pending is never answered.
Return == ~over /\ over' = TRUE /\ UNCHANGED <<fate, answers>>

\* An exception ends the call: what had been answered is lost.
Throw ==
  /\ ~over /\ over' = TRUE
  /\ fate' = [u \in Url |-> IF fate[u] = "rejected" THEN fate[u] ELSE "pending"]
  /\ answers' = <<>>

Next ==
  \/ \E u \in Url : Reject(u) \/ \E f \in {"good", "bad"} : Answer(u, f)
  \/ Return \/ Throw

Spec == Init /\ [][Next]_abstractVars /\ WF_abstractVars(Return \/ Throw)

=============================================================================
