--------------------------- MODULE AioSuspendList ---------------------------
(***************************************************************************)
(* conformance/interfaces/aio_suspend/8-1.c: aio_suspend on a request of a *)
(* lio_listio(LIO_NOWAIT) list.  Each request notifies SIGRTMIN+1 with its *)
(* index, and sigrt1_handler sets received_selected for WAIT_FOR_AIOCB;    *)
(* the whole list notifies SIGRTMIN+2, and sigrt2_handler sets             *)
(* received_all.  Main fails if the selected request has completed before  *)
(* aio_suspend, if aio_suspend returns -1, or if a request's aio_error and *)
(* aio_return are both wrong; it sleeps until received_all.                *)
(*                                                                         *)
(* The AIO engine completes the queued requests in any order, correctly    *)
(* (aio_error 0, aio_return BUF_SIZE), and queues their signals.  A        *)
(* handler runs on main's thread between two of its steps.  `intr` is the  *)
(* platform's choice, allowed by POSIX, to end an aio_suspend interrupted  *)
(* by a caught signal with EINTR rather than resume the wait.              *)
(***************************************************************************)
EXTENDS Naturals, FiniteSets

CONSTANTS
  NumAiocbs,    \* NUM_AIOCBS
  WaitForAiocb, \* WAIT_FOR_AIOCB, the index main suspends on
  IntrCases     \* subset of BOOLEAN: does a caught signal end aio_suspend?

ASSUME NumAiocbs \in Nat \ {0}
ASSUME WaitForAiocb \in 0..(NumAiocbs - 1)
ASSUME IntrCases \subseteq BOOLEAN /\ IntrCases # {}

Reqs == 0..(NumAiocbs - 1)

VARIABLES
  pc,               \* main's program counter
  st,               \* each request: "unsubmitted", "queued" or "done"
  sig1,             \* requests whose SIGRTMIN+1 is pending
  sig2,             \* the list's SIGRTMIN+2 is pending
  receivedSelected, \* received_selected
  receivedAll,      \* received_all
  verdict,          \* main's exit code, "none" while it runs
  intr              \* platform: a caught signal ends aio_suspend with EINTR

vars == <<pc, st, sig1, sig2, receivedSelected, receivedAll, verdict, intr>>

Running == verdict = "none"

Exit(code) == verdict' = code /\ pc' = "exited"

\* A handler that interrupts main blocked in aio_suspend makes it return -1
\* (EINTR) on a platform that does not resume the wait.
Interrupt == pc' = IF pc = "suspended" /\ intr THEN "eintr" ELSE pc

(***************************************************************************)
(* main                                                                    *)
(***************************************************************************)
\* ret = lio_listio(LIO_NOWAIT, aiocbs, NUM_AIOCBS, &event) queues them all.
MainListio ==
  /\ Running
  /\ pc = "listio"
  /\ st' = [r \in Reqs |-> "queued"]
  /\ pc' = "check_selected"
  /\ UNCHANGED <<sig1, sig2, receivedSelected, receivedAll, verdict, intr>>

\* if (received_selected) exit(PTS_FAIL): "already completed before suspend".
MainCheckSelected ==
  /\ Running
  /\ pc = "check_selected"
  /\ IF receivedSelected THEN Exit("FAIL") ELSE pc' = "suspend" /\ UNCHANGED verdict
  /\ UNCHANGED <<st, sig1, sig2, receivedSelected, receivedAll, intr>>

\* aio_suspend(plist, 2, NULL): main blocks until the request is done.
MainSuspend ==
  /\ Running
  /\ pc = "suspend"
  /\ pc' = "suspended"
  /\ UNCHANGED <<st, sig1, sig2, receivedSelected, receivedAll, verdict, intr>>

\* aio_suspend returns 0 once aiocbs[WAIT_FOR_AIOCB] is done; then
\* aio_error is 0 and aio_return BUF_SIZE, so the check at line 197 passes.
MainWake ==
  /\ Running
  /\ pc = "suspended"
  /\ st[WaitForAiocb] = "done"
  /\ pc' = "wait_all"
  /\ UNCHANGED <<st, sig1, sig2, receivedSelected, receivedAll, verdict, intr>>

\* if (ret) exit(PTS_FAIL): aio_suspend returned -1.
MainSuspendFailed ==
  /\ Running
  /\ pc = "eintr"
  /\ Exit("FAIL")
  /\ UNCHANGED <<st, sig1, sig2, receivedSelected, receivedAll, intr>>

\* while (!received_all) sleep(1);  one turn.
MainSleep ==
  /\ Running
  /\ pc = "wait_all"
  /\ ~receivedAll
  /\ UNCHANGED vars

\* The loop ends; each other request with aio_error != 0 and aio_return
\* != BUF_SIZE (one still in progress) counts an error; FAIL or PASS.
MainCheckAll ==
  /\ Running
  /\ pc = "wait_all"
  /\ receivedAll
  /\ LET errors == Cardinality({r \in Reqs \ {WaitForAiocb} : st[r] # "done"})
     IN Exit(IF errors # 0 THEN "FAIL" ELSE "PASS")
  /\ UNCHANGED <<st, sig1, sig2, receivedSelected, receivedAll, intr>>

(***************************************************************************)
(* Platform: the AIO engine completes one queued request; with the last    *)
(* one it also sends the list's SIGRTMIN+2.                                 *)
(***************************************************************************)
AioComplete(r) ==
  /\ Running
  /\ st[r] = "queued"
  /\ st' = [st EXCEPT ![r] = "done"]
  /\ sig1' = sig1 \cup {r}
  /\ sig2' = (sig2 \/ \A q \in Reqs \ {r} : st[q] = "done")
  /\ UNCHANGED <<pc, receivedSelected, receivedAll, verdict, intr>>

(***************************************************************************)
(* Handlers, run on main's thread wherever main is.                        *)
(***************************************************************************)
\* sigrt1_handler: if (info->si_value.sival_int == WAIT_FOR_AIOCB)
\* received_selected = 1;
SigRt1Handler(r) ==
  /\ Running
  /\ r \in sig1
  /\ sig1' = sig1 \ {r}
  /\ receivedSelected' = (receivedSelected \/ r = WaitForAiocb)
  /\ Interrupt
  /\ UNCHANGED <<st, sig2, receivedAll, verdict, intr>>

\* sigrt2_handler: received_all = 1;
SigRt2Handler ==
  /\ Running
  /\ sig2
  /\ sig2' = FALSE
  /\ receivedAll' = TRUE
  /\ Interrupt
  /\ UNCHANGED <<st, sig1, receivedSelected, verdict, intr>>

\* After exit() nothing changes any more.
Exited ==
  /\ ~Running
  /\ UNCHANGED vars

\* After the file is written, the aiocbs built and both handlers installed.
Init ==
  /\ pc = "listio"
  /\ st = [r \in Reqs |-> "unsubmitted"]
  /\ sig1 = {}
  /\ sig2 = FALSE
  /\ receivedSelected = FALSE
  /\ receivedAll = FALSE
  /\ verdict = "none"
  /\ intr \in IntrCases

MainStep ==
  MainListio \/ MainCheckSelected \/ MainSuspend \/ MainWake
  \/ MainSuspendFailed \/ MainSleep \/ MainCheckAll

Next ==
  \/ MainStep
  \/ \E r \in Reqs : AioComplete(r) \/ SigRt1Handler(r)
  \/ SigRt2Handler
  \/ Exited

\* Main, the engine and signal delivery each make progress.
Fairness ==
  /\ WF_vars(MainStep) /\ WF_vars(SigRt2Handler)
  /\ \A r \in Reqs : WF_vars(AioComplete(r)) /\ WF_vars(SigRt1Handler(r))

Spec == Init /\ [][Next]_vars /\ Fairness

-----------------------------------------------------------------------------
TypeOK ==
  /\ pc \in {"listio", "check_selected", "suspend", "suspended", "eintr",
             "wait_all", "exited"}
  /\ st \in [Reqs -> {"unsubmitted", "queued", "done"}]
  /\ sig1 \subseteq Reqs /\ sig2 \in BOOLEAN
  /\ receivedSelected \in BOOLEAN /\ receivedAll \in BOOLEAN
  /\ verdict \in {"none", "PASS", "FAIL"}

\* The engine of this model completes every request correctly, so a
\* conforming platform: the test must never exit(PTS_FAIL) on it, whatever
\* the timing of the completions and of their signals.
NoFalseFailure == verdict # "FAIL"
====
