------------------------- MODULE AsyncNotification -------------------------
(***************************************************************************)
(* What aio_cancel/3-1.c relies on, stated without threads or signals.    *)
(* Each asynchronous request is open until it either completes or is       *)
(* cancelled; a single cancellation of the descriptor cancels some of the  *)
(* open ones and no request is cancelled otherwise; every ended request    *)
(* is noticed at most once; the verdict is given after every request has *)
(* been noticed, and is PASS exactly when one was cancelled.               *)
(***************************************************************************)
CONSTANT Reqs

VARIABLES
  outcome,       \* each request: "open", "done" or "canceled"
  seen,          \* the requests whose end has been noticed
  cancelIssued,  \* the descriptor's requests have been cancelled
  verdict        \* "none", "PASS" or "UNRESOLVED"

avars == <<outcome, seen, cancelIssued, verdict>>

Init ==
  /\ outcome = [r \in Reqs |-> "open"]
  /\ seen = {}
  /\ cancelIssued = FALSE
  /\ verdict = "none"

\* An open request completes.
Complete(r) ==
  /\ verdict = "none"
  /\ outcome[r] = "open"
  /\ outcome' = [outcome EXCEPT ![r] = "done"]
  /\ UNCHANGED <<seen, cancelIssued, verdict>>

\* The one cancellation: some of the open requests end cancelled.
CancelSome ==
  /\ verdict = "none"
  /\ ~cancelIssued
  /\ \E C \in SUBSET {r \in Reqs : outcome[r] = "open"} :
       outcome' = [r \in Reqs |-> IF r \in C THEN "canceled" ELSE outcome[r]]
  /\ cancelIssued' = TRUE
  /\ UNCHANGED <<seen, verdict>>

\* The end of a request is noticed, once.
Notice(r) ==
  /\ verdict = "none"
  /\ outcome[r] # "open"
  /\ r \notin seen
  /\ seen' = seen \cup {r}
  /\ UNCHANGED <<outcome, cancelIssued, verdict>>

\* With every request noticed, the verdict.
Report ==
  /\ verdict = "none"
  /\ cancelIssued
  /\ seen = Reqs
  /\ verdict' = IF \E r \in Reqs : outcome[r] = "canceled"
                  THEN "PASS" ELSE "UNRESOLVED"
  /\ UNCHANGED <<outcome, seen, cancelIssued>>

Next ==
  \/ \E r \in Reqs : Complete(r) \/ Notice(r)
  \/ CancelSome
  \/ Report

Spec == Init /\ [][Next]_avars
====
