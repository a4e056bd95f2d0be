-------------------------- MODULE AioCancelNotify --------------------------
(***************************************************************************)
(* conformance/interfaces/aio_cancel/3-1.c: "Asynchronous notification    *)
(* shall occur for AIO that are successfully cancelled."  Main queues      *)
(* BUF_NB aio_write()s, each with a SIGRTMIN+1 notification carrying its   *)
(* aiocb, then aio_cancel()s everything on the descriptor, closes it and   *)
(* spins until the handler has counted every notification down.  The      *)
(* handler counts the ECANCELED ones, calls aio_return, and frees the     *)
(* buffer and the aiocb.                                                   *)
(*                                                                         *)
(* The AIO engine is the platform: a queued request may start and then    *)
(* complete at any time; aio_cancel cancels those still queued.  Every    *)
(* completion or cancellation queues one real-time signal, unless          *)
(* `sigLimit` signals are already pending (the queue of the process is     *)
(* full and the notification is lost).  The handler runs on main's thread *)
(* between two of its steps, and not nested (SIGRTMIN+1 is blocked while   *)
(* it runs).                                                               *)
(***************************************************************************)
EXTENDS Naturals, FiniteSets

CONSTANTS
  BufNb,      \* BUF_NB, the number of aio_write requests
  SigLimits   \* possible sizes of the pending real-time signal queue

ASSUME BufNb \in Nat \ {0}
ASSUME SigLimits \subseteq Nat \ {0} /\ SigLimits # {}

Reqs == 1..BufNb

VARIABLES
  pc,          \* main's program counter
  i,           \* main's loop index
  st,          \* each request: "unborn", "queued", "inprogress", "done",
               \* "canceled", or "freed" once its handler ran
  sigPending,  \* requests whose SIGRTMIN+1 is queued, not yet handled
  countdown,   \* countdown (static volatile, starts at BUF_NB)
  canceled,    \* canceled (static volatile, starts at 0)
  verdict,     \* main's return code, "none" while it runs
  sigLimit,    \* platform: room in the pending signal queue
  lost,        \* history: requests whose notification was dropped
  unsafeFree,  \* history: the handler's free() interrupted main's malloc()
  cancelled    \* history: the requests aio_cancel really cancelled

vars == <<pc, i, st, sigPending, countdown, canceled, verdict, sigLimit,
          lost, unsafeFree, cancelled>>

Running == verdict = "none"

\* The SIGEV_SIGNAL notifications of the requests R: each one more pending
\* SIGRTMIN+1, as long as the queue has room; the others are lost.
Notify(R) ==
  IF Cardinality(sigPending) + Cardinality(R) <= sigLimit
    THEN /\ sigPending' = sigPending \cup R
         /\ UNCHANGED lost
    ELSE \E fit \in SUBSET R :
           /\ Cardinality(sigPending) + Cardinality(fit) = sigLimit
           /\ sigPending' = sigPending \cup fit
           /\ lost' = lost \cup (R \ fit)

(***************************************************************************)
(* main                                                                    *)
(***************************************************************************)
\* aiocb = malloc(sizeof(struct aiocb)); aiocb->aio_buf = malloc(BUF_SIZE):
\* main is inside malloc between these two steps.
MainMallocEnter ==
  /\ Running
  /\ pc = "alloc"
  /\ pc' = "inmalloc"
  /\ UNCHANGED <<i, st, sigPending, countdown, canceled, verdict, sigLimit, lost, unsafeFree, cancelled>>

MainMallocLeave ==
  /\ Running
  /\ pc = "inmalloc"
  /\ pc' = "submit"
  /\ UNCHANGED <<i, st, sigPending, countdown, canceled, verdict, sigLimit, lost, unsafeFree, cancelled>>

\* Mutant: the loop runs once more than BUF_NB (i <= BUF_NB).
MainAioWriteOffByOne ==
  /\ Running
  /\ pc = "submit"
  /\ st' = [st EXCEPT ![i] = "queued"]
  /\ i' = i + 1
  /\ pc' = IF i <= BufNb THEN "alloc" ELSE "cancel"
  /\ UNCHANGED <<sigPending, countdown, canceled, verdict, sigLimit, lost, unsafeFree, cancelled>>

\* aio_write(aiocb) queues request i; the loop goes on while i < BUF_NB.
MainAioWrite ==
  /\ Running
  /\ pc = "submit"
  /\ st' = [st EXCEPT ![i] = "queued"]
  /\ i' = i + 1
  /\ pc' = IF i < BufNb THEN "alloc" ELSE "cancel"
  /\ UNCHANGED <<sigPending, countdown, canceled, verdict, sigLimit, lost, unsafeFree, cancelled>>

\* aio_cancel(fd, NULL) cancels every request still queued and notifies
\* each; one in progress or done is left alone.  Then close(fd).
MainCancel ==
  /\ Running
  /\ pc = "cancel"
  /\ LET Q == {r \in Reqs : st[r] = "queued"}
     IN /\ st' = [r \in Reqs |-> IF r \in Q THEN "canceled" ELSE st[r]]
        /\ Notify(Q)
        /\ cancelled' = Q
  /\ pc' = "spin"
  /\ UNCHANGED <<i, countdown, canceled, verdict, sigLimit, unsafeFree>>

\* while (countdown);  one turn of the busy loop.
MainSpin ==
  /\ Running
  /\ pc = "spin"
  /\ countdown # 0
  /\ UNCHANGED vars

\* Mutant: the loop stops with one notification still outstanding.
MainReportEarly ==
  /\ Running
  /\ pc = "spin"
  /\ countdown <= 1
  /\ verdict' = IF canceled = 0 THEN "UNRESOLVED" ELSE "PASS"
  /\ pc' = "exited"
  /\ UNCHANGED <<i, st, sigPending, countdown, canceled, sigLimit, lost, unsafeFree, cancelled>>

\* The loop ends; if (!canceled) PTS_UNRESOLVED, else PTS_PASS.
MainReport ==
  /\ Running
  /\ pc = "spin"
  /\ countdown = 0
  /\ verdict' = IF canceled = 0 THEN "UNRESOLVED" ELSE "PASS"
  /\ pc' = "exited"
  /\ UNCHANGED <<i, st, sigPending, countdown, canceled, sigLimit, lost, unsafeFree, cancelled>>
(***************************************************************************)
(* Platform: the AIO engine works on queued requests in any order.         *)
(***************************************************************************)
AioStart(r) ==
  /\ Running
  /\ st[r] = "queued"
  /\ st' = [st EXCEPT ![r] = "inprogress"]
  /\ UNCHANGED <<pc, i, sigPending, countdown, canceled, verdict, sigLimit, lost, unsafeFree, cancelled>>

AioComplete(r) ==
  /\ Running
  /\ st[r] = "inprogress"
  /\ st' = [st EXCEPT ![r] = "done"]
  /\ Notify({r})
  /\ UNCHANGED <<pc, i, countdown, canceled, verdict, sigLimit, unsafeFree, cancelled>>

(***************************************************************************)
(* sigusr1_handler(SIGRTMIN+1, info) for the request r in si_value.  It    *)
(* interrupts main wherever main is, inside malloc() too.                  *)
(***************************************************************************)
\* if (aio_error(a) == ECANCELED) canceled++;
IsCanceled(r) == st[r] = "canceled"

\* Mutant: countdown-- inside the if, as if the braces were misplaced.
HandlerBraces(r) ==
  /\ Running
  /\ r \in sigPending
  /\ canceled' = IF IsCanceled(r) THEN canceled + 1 ELSE canceled
  /\ st' = [st EXCEPT ![r] = "freed"]
  /\ countdown' = IF IsCanceled(r) THEN countdown - 1 ELSE countdown
  /\ sigPending' = sigPending \ {r}
  /\ unsafeFree' = (unsafeFree \/ pc = "inmalloc")
  /\ UNCHANGED <<pc, i, verdict, sigLimit, lost, cancelled>>

\* ... aio_return(a); free(a->aio_buf); free(a); countdown--;
Handler(r) ==
  /\ Running
  /\ r \in sigPending
  /\ canceled' = IF IsCanceled(r) THEN canceled + 1 ELSE canceled
  /\ st' = [st EXCEPT ![r] = "freed"]
  /\ countdown' = countdown - 1
  /\ sigPending' = sigPending \ {r}
  /\ unsafeFree' = (unsafeFree \/ pc = "inmalloc")
  /\ UNCHANGED <<pc, i, verdict, sigLimit, lost, cancelled>>

\* After main returns nothing changes any more.
Exited ==
  /\ ~Running
  /\ UNCHANGED vars

\* After open() and sigaction(), main enters the loop with i = 0 (here 1).
Init ==
  /\ pc = "alloc"
  /\ i = 1
  /\ st = [r \in Reqs |-> "unborn"]
  /\ sigPending = {}
  /\ countdown = BufNb
  /\ canceled = 0
  /\ verdict = "none"
  /\ sigLimit \in SigLimits
  /\ lost = {}
  /\ unsafeFree = FALSE
  /\ cancelled = {}

MainStep ==
  MainMallocEnter \/ MainMallocLeave \/ MainAioWrite \/ MainCancel
  \/ MainSpin \/ MainReport

Next ==
  \/ MainStep
  \/ \E r \in Reqs : AioStart(r) \/ AioComplete(r) \/ Handler(r)
  \/ Exited

\* Main, the AIO engine and signal delivery each make progress: the engine
\* finishes what it started and a pending unblocked signal is delivered.
\* Whether a queued request is started before aio_cancel is a race, so
\* AioStart has no fairness.
Fairness ==
  /\ WF_vars(MainStep)
  /\ \A r \in Reqs : WF_vars(AioComplete(r)) /\ WF_vars(Handler(r))

Spec == Init /\ [][Next]_vars /\ Fairness

-----------------------------------------------------------------------------
TypeOK ==
  /\ pc \in {"alloc", "inmalloc", "submit", "cancel", "spin", "exited"}
  /\ i \in 1..(BufNb + 1)
  /\ st \in [Reqs -> {"unborn", "queued", "inprogress", "done", "canceled",
                       "freed"}]
  /\ sigPending \subseteq Reqs /\ lost \subseteq Reqs
  /\ countdown \in 0..BufNb /\ canceled \in 0..BufNb
  /\ verdict \in {"none", "PASS", "UNRESOLVED"}
  /\ unsafeFree \in BOOLEAN /\ cancelled \subseteq Reqs

\* When the process can queue a notification per request, main's
\* while (countdown) ends and the test reports.
Termination == sigLimit >= BufNb => <>(verdict # "none")

\* The handler's free() never runs while main is inside malloc(): free and
\* malloc are not async-signal-safe.
NoFreeInMalloc == ~unsafeFree

-----------------------------------------------------------------------------
(***************************************************************************)
(* Refinement: the test implements AsyncNotification.  A request not yet  *)
(* started, or in progress, is open; a freed one keeps the end its handler *)
(* saw; the handler is the notice of the request; main's cancellation and  *)
(* its report are the abstract ones.                                       *)
(***************************************************************************)
OutcomeOf(r) ==
  CASE st[r] \in {"unborn", "queued", "inprogress"} -> "open"
    [] st[r] = "done"                             -> "done"
    [] st[r] = "canceled"                         -> "canceled"
    [] OTHER -> IF r \in cancelled THEN "canceled" ELSE "done"

Abstract == INSTANCE AsyncNotification WITH
  outcome      <- [r \in Reqs |-> OutcomeOf(r)],
  seen         <- {r \in Reqs : st[r] = "freed"},
  cancelIssued <- pc \in {"spin", "exited"},
  verdict      <- verdict

\* The test implements the abstract promise: no request is cancelled
\* except by main's aio_cancel, each handler notices one ended request
\* once, and main reports only after noticing all of them, PASS exactly
\* when the handler counted a cancellation.
RefinesAsyncNotification == Abstract!Spec
====
