--------------------------- MODULE AioReturnOnce ---------------------------
(***************************************************************************)
(* conformance/interfaces/aio_return/2-1.c: "aio_return() may be called   *)
(* exactly once".  Main queues one aio_write of BUF_SIZE bytes, closes the *)
(* descriptor at once, polls aio_error until the request is no longer      *)
(* EINPROGRESS, and calls aio_return twice: the first must give BUF_SIZE,  *)
(* the second -1.                                                          *)
(*                                                                         *)
(* The AIO engine starts and completes the request at any time.  Two      *)
(* results are the platform's, each allowed by POSIX: close() "may cancel" *)
(* an outstanding request it can still cancel (one not yet started), and  *)
(* a non-cancelled one completes as if the close had not happened;         *)
(* after the first aio_return, a second one "may" return an error, or may  *)
(* repeat the status.                                                      *)
(***************************************************************************)
EXTENDS Integers

CONSTANTS
  CancelCases,  \* subset of BOOLEAN: does close() cancel a queued request?
  SecondCases   \* subset of {"error", "repeat"}: the second aio_return

ASSUME CancelCases \subseteq BOOLEAN /\ CancelCases # {}
ASSUME SecondCases \subseteq {"error", "repeat"} /\ SecondCases # {}

\* #define BUF_SIZE 111
BufSize == 111

VARIABLES
  pc,             \* main's program counter
  st,             \* the request: "none", "queued", "inprogress", "done",
                  \* or "canceled"
  verdict,        \* main's exit code, "none" while it runs
  closeCancels,   \* platform: close(fd) cancels a request not yet started
  secondReturn    \* platform: what a repeated aio_return gives

env  == <<closeCancels, secondReturn>>
vars == <<pc, st, verdict, env>>

Running == verdict = "none"

Exit(code) == verdict' = code /\ pc' = "exited"

\* aio_error: EINPROGRESS until the request has ended.
InProgress == st \in {"queued", "inprogress"}

\* aio_return of an ended request: the bytes written, or -1 (ECANCELED).
ReturnOf(s) == IF s = "done" THEN BufSize ELSE -1

(***************************************************************************)
(* main                                                                    *)
(***************************************************************************)
\* memset the buffer and the aiocb; aio_write(&aiocb) queues the request.
MainAioWrite ==
  /\ Running
  /\ pc = "write"
  /\ st' = "queued"
  /\ pc' = "close"
  /\ UNCHANGED <<verdict, env>>

\* close(fd): a request still queued may be cancelled; one in progress or
\* done is not affected.
MainClose ==
  /\ Running
  /\ pc = "close"
  /\ st' = IF st = "queued" /\ closeCancels THEN "canceled" ELSE st
  /\ pc' = "poll"
  /\ UNCHANGED <<verdict, env>>

\* do { retval = aio_error(&aiocb); } while (retval == EINPROGRESS);
\* one turn of the loop.
MainPollBusy ==
  /\ Running
  /\ pc = "poll"
  /\ InProgress
  /\ UNCHANGED vars

MainPollDone ==
  /\ Running
  /\ pc = "poll"
  /\ ~InProgress
  /\ pc' = "return1"
  /\ UNCHANGED <<st, verdict, env>>

\* retval = aio_return(&aiocb); if (retval != BUF_SIZE) exit(PTS_FAIL);
MainReturn1 ==
  /\ Running
  /\ pc = "return1"
  /\ IF ReturnOf(st) # BufSize
       THEN Exit("FAIL")
       ELSE pc' = "return2" /\ UNCHANGED verdict
  /\ UNCHANGED <<st, env>>

\* retval = aio_return(&aiocb); if (retval != -1) exit(PTS_FAIL);
\* else "Test PASSED".
MainReturn2 ==
  /\ Running
  /\ pc = "return2"
  /\ LET retval == IF secondReturn = "error" THEN -1 ELSE ReturnOf(st)
     IN Exit(IF retval # -1 THEN "FAIL" ELSE "PASS")
  /\ UNCHANGED <<st, env>>

(***************************************************************************)
(* Platform: the AIO engine takes up the request, then completes it; the  *)
(* write succeeds, whether or not fd has been closed since.                *)
(***************************************************************************)
AioStart ==
  /\ Running
  /\ st = "queued"
  /\ st' = "inprogress"
  /\ UNCHANGED <<pc, verdict, env>>

AioComplete ==
  /\ Running
  /\ st = "inprogress"
  /\ st' = "done"
  /\ UNCHANGED <<pc, verdict, env>>

\* After exit() nothing changes any more.
Exited ==
  /\ ~Running
  /\ UNCHANGED vars

\* After open() and unlink() of the temporary file.
Init ==
  /\ pc = "write"
  /\ st = "none"
  /\ verdict = "none"
  /\ closeCancels \in CancelCases
  /\ secondReturn \in SecondCases

MainStep ==
  \/ MainAioWrite \/ MainClose \/ MainPollBusy \/ MainPollDone
  \/ MainReturn1 \/ MainReturn2

Next == MainStep \/ AioStart \/ AioComplete \/ Exited

\* Main runs, and the engine finishes what it was given.
Fairness == WF_vars(MainStep) /\ WF_vars(AioStart) /\ WF_vars(AioComplete)

Spec == Init /\ [][Next]_vars /\ Fairness

-----------------------------------------------------------------------------
\* Every platform of this model is one POSIX allows, and the one request
\* ends either written in full or cancelled by the close at line 77 as
\* POSIX permits: the test's only assertion, about the second aio_return,
\* should never make it exit PTS_FAIL on such a platform.
NoFalseFailure == verdict # "FAIL"
====
