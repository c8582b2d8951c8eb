---------------------------- MODULE BindService ----------------------------
(***************************************************************************)
(* What coalescedbind's Batcher promises to the scheduler, whatever it     *)
(* does with batches, windows, channels and workers: an accepted request   *)
(* is bound at most once and gets exactly one answer, of the bind call if  *)
(* there was one; it is answered without being bound only if its caller    *)
(* has gone away; and after Close has returned nothing is outstanding and  *)
(* nothing more is accepted.  Calls and answers are counted, so that a     *)
(* second one is a step that this specification does not allow.            *)
(***************************************************************************)
EXTENDS Naturals

CONSTANT Requests   \* calls of Submit

VARIABLES
  accepted,    \* requests taken in
  cancelled,   \* requests whose context is done
  binds,       \* how often bind has been called for each request
  answers,     \* how many answers have been sent to each request
  result,      \* the last of them
  drained      \* Close has nothing left to wait for

serviceVars == <<accepted, cancelled, binds, answers, result, drained>>

ServiceInit ==
  /\ accepted = {} /\ cancelled = {}
  /\ binds = [r \in Requests |-> 0] /\ answers = [r \in Requests |-> 0]
  /\ result = [r \in Requests |-> "none"]
  /\ drained = FALSE

Accept(r) ==
  /\ ~drained /\ r \notin accepted
  /\ accepted' = accepted \cup {r}
  /\ UNCHANGED <<cancelled, binds, answers, result, drained>>

CancelRequest(r) ==
  /\ cancelled' = cancelled \cup {r}
  /\ UNCHANGED <<accepted, binds, answers, result, drained>>

CallBind(r) ==
  /\ r \in accepted /\ binds[r] = 0 /\ answers[r] = 0
  /\ binds' = [binds EXCEPT ![r] = 1]
  /\ UNCHANGED <<accepted, cancelled, answers, result, drained>>

\* The answer of bind, or of a request whose caller left before bind was called.
Answer(r, answer) ==
  /\ r \in accepted /\ answers[r] = 0
  /\ IF answer = "cancelled" THEN r \in cancelled /\ binds[r] = 0 ELSE binds[r] = 1
  /\ answers' = [answers EXCEPT ![r] = 1]
  /\ result' = [result EXCEPT ![r] = answer]
  /\ UNCHANGED <<accepted, cancelled, binds, drained>>

Drain ==
  /\ \A r \in accepted : answers[r] = 1
  /\ drained' = TRUE
  /\ UNCHANGED <<accepted, cancelled, binds, answers, result>>

ServiceNext ==
  \/ \E r \in Requests :
       \/ Accept(r) \/ CancelRequest(r) \/ CallBind(r)
       \/ \E answer \in {"bound", "failed", "cancelled"} : Answer(r, answer)
  \/ Drain

ServiceSpec == ServiceInit /\ [][ServiceNext]_serviceVars
=============================================================================
