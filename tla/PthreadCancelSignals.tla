------------------------ MODULE PthreadCancelSignals ------------------------
(***************************************************************************)
(* conformance/interfaces/pthread_cancel/5-2.c: "The function does not     *)
(* return EINTR".  Main blocks SIGUSR1 and SIGUSR2 and starts:             *)
(*   - the worker `test`, which starts `testth` (spinning on do_it with    *)
(*     sched_yield), unblocks both signals and calls                       *)
(*     pthread_cancel(testth) while do_it, then joins testth;             *)
(*   - two senders `sendsig`, which kill() the process with SIGUSR1 and    *)
(*     SIGUSR2 while do_it.  Built WITH_SYNCHRO (everywhere but            *)
(*     Emscripten) each sender first sem_waits on its semaphore, which    *)
(*     the signal's handler sem_posts, so one signal is out at a time.     *)
(* After sleep(1) main clears do_it and joins the senders and the worker.  *)
(*                                                                         *)
(* The worker is the only thread with the signals unblocked (testth and    *)
(* the senders inherit the blocked mask), so a process-directed signal is *)
(* handled by the worker or stays pending.  The kernel runs the handler    *)
(* before the worker's next instruction, so a worker step needs no signal  *)
(* pending; once the worker has exited, a signal stays pending.  A         *)
(* standard signal does not queue: `pend` is a bit.                        *)
(***************************************************************************)
EXTENDS Naturals

CONSTANTS
  Builds,      \* subset of {"synchro", "nosynchro"}: WITH_SYNCHRO or not
  EsrchCases,  \* subset of BOOLEAN: pthread_cancel of an exited thread gives ESRCH
  EintrCases   \* subset of BOOLEAN: an interrupted pthread_cancel gives EINTR

ASSUME Builds \subseteq {"synchro", "nosynchro"} /\ Builds # {}
ASSUME EsrchCases \subseteq BOOLEAN /\ EsrchCases # {}
ASSUME EintrCases \subseteq BOOLEAN /\ EintrCases # {}

Senders == {"sig1", "sig2"}   \* th_sig1 sends SIGUSR1, th_sig2 SIGUSR2
Threads == {"main", "worker", "testth"} \cup Senders

VARIABLES
  pc,       \* program counter of each thread
  doIt,     \* do_it
  sem,      \* semsig1, semsig2 (WITH_SYNCHRO)
  pend,     \* SIGUSR1 / SIGUSR2 pending for the process
  verdict,  \* "none" while the process runs, else its exit status
  build, esrch, eintr

env  == <<build, esrch, eintr>>
vars == <<pc, doIt, sem, pend, verdict, env>>

Running == verdict = "none"

Goto(t, label) == pc' = [pc EXCEPT ![t] = label]

\* The worker has SIGUSR1 and SIGUSR2 unblocked and has not exited.
Receiver == pc["worker"] \in {"loop", "cancel", "join"}

\* No signal waits for the worker: it may take its next step.
Delivered == \A s \in Senders : ~pend[s]

(***************************************************************************)
(* main                                                                    *)
(***************************************************************************)
\* pthread_create(&th_work, NULL, test, NULL).
MainCreateWorker ==
  /\ Running
  /\ pc["main"] = "create_work"
  /\ pc' = [pc EXCEPT !["main"] = "create_sig1", !["worker"] = "create_testth"]
  /\ UNCHANGED <<doIt, sem, pend, verdict, env>>

\* pthread_create(&th_sigN, NULL, sendsig, &argN).
MainCreateSender(s, label, next) ==
  /\ Running
  /\ pc["main"] = label
  /\ pc' = [pc EXCEPT !["main"] = next, ![s] = "loop"]
  /\ UNCHANGED <<doIt, sem, pend, verdict, env>>

\* sleep(1); do { do_it = 0; } while (do_it);
MainStop ==
  /\ Running
  /\ pc["main"] = "stop"
  /\ doIt' = FALSE
  /\ Goto("main", "join_sig1")
  /\ UNCHANGED <<sem, pend, verdict, env>>

\* pthread_join of a thread; after the last one, PASSED.
MainJoin(t, label, next) ==
  /\ Running
  /\ pc["main"] = label
  /\ pc[t] = "done"
  /\ Goto("main", next)
  /\ verdict' = IF next = "exited" THEN "PASS" ELSE verdict
  /\ UNCHANGED <<doIt, sem, pend, env>>

(***************************************************************************)
(* worker: test()                                                          *)
(***************************************************************************)
\* pthread_create(&test_ch, NULL, testth, NULL); then
\* pthread_sigmask(SIG_UNBLOCK, &usersigs, NULL).
WorkerStart ==
  /\ Running
  /\ pc["worker"] = "create_testth"
  /\ pc' = [pc EXCEPT !["worker"] = "loop", !["testth"] = "loop"]
  /\ UNCHANGED <<doIt, sem, pend, verdict, env>>

\* while (do_it): read of the flag.
WorkerLoop ==
  /\ Running
  /\ pc["worker"] = "loop"
  /\ Delivered
  /\ Goto("worker", IF doIt THEN "cancel" ELSE "join")
  /\ UNCHANGED <<doIt, sem, pend, verdict, env>>

\* count_ope++; ret = pthread_cancel(test_ch); EINTR -> FAILED, any other
\* error -> UNRESOLVED.
WorkerCancel ==
  /\ Running
  /\ pc["worker"] = "cancel"
  /\ Delivered
  /\ \/ Goto("worker", "loop") /\ UNCHANGED verdict
     \/ /\ esrch /\ pc["testth"] = "done"
        /\ verdict' = "UNRESOLVED" /\ UNCHANGED pc
     \/ /\ eintr /\ \E s \in Senders : pc[s] = "kill"
        /\ verdict' = "FAIL" /\ UNCHANGED pc
  /\ UNCHANGED <<doIt, sem, pend, env>>

\* pthread_join(test_ch, NULL) once testth has returned; return NULL.
WorkerJoin ==
  /\ Running
  /\ pc["worker"] = "join"
  /\ Delivered
  /\ pc["testth"] = "done"
  /\ Goto("worker", "done")
  /\ UNCHANGED <<doIt, sem, pend, verdict, env>>

(***************************************************************************)
(* testth: while (do_it) sched_yield();  sched_yield is no cancellation    *)
(* point, so the deferred cancel requests are never acted upon.            *)
(***************************************************************************)
TestthYield ==
  /\ Running
  /\ pc["testth"] = "loop"
  /\ doIt
  /\ UNCHANGED vars

TestthReturn ==
  /\ Running
  /\ pc["testth"] = "loop"
  /\ ~doIt
  /\ Goto("testth", "done")
  /\ UNCHANGED <<doIt, sem, pend, verdict, env>>

(***************************************************************************)
(* senders: sendsig()                                                      *)
(***************************************************************************)
\* Mutant: the loop body skips the WITH_SYNCHRO sem_wait.
SenderLoopNoSynchro(s) ==
  /\ Running
  /\ pc[s] = "loop"
  /\ Goto(s, IF doIt THEN "kill" ELSE "done")
  /\ UNCHANGED <<doIt, sem, pend, verdict, env>>

\* while (do_it): read of the flag; WITH_SYNCHRO the body starts with
\* sem_wait(thearg->sem).
SenderLoop(s) ==
  /\ Running
  /\ pc[s] = "loop"
  /\ Goto(s, CASE ~doIt             -> "done"
               [] build = "synchro" -> "semwait"
               [] OTHER             -> "kill")
  /\ UNCHANGED <<doIt, sem, pend, verdict, env>>

\* Mutant: the sender takes the semaphore without waiting for it.
SenderSemWaitNoCheck(s) ==
  /\ Running
  /\ pc[s] = "semwait"
  /\ sem' = [sem EXCEPT ![s] = @ - 1]
  /\ Goto(s, "kill")
  /\ UNCHANGED <<doIt, pend, verdict, env>>

\* sem_wait(thearg->sem) returns once the semaphore is positive;
\* count_sig++.
SenderSemWait(s) ==
  /\ Running
  /\ pc[s] = "semwait"
  /\ sem[s] > 0
  /\ sem' = [sem EXCEPT ![s] = @ - 1]
  /\ Goto(s, "kill")
  /\ UNCHANGED <<doIt, pend, verdict, env>>

\* kill(process, thearg->sig): the signal becomes pending (again).
SenderKill(s) ==
  /\ Running
  /\ pc[s] = "kill"
  /\ pend' = [pend EXCEPT ![s] = TRUE]
  /\ Goto(s, "loop")
  /\ UNCHANGED <<doIt, sem, verdict, env>>

(***************************************************************************)
(* sighdl1 / sighdl2, run by the worker: WITH_SYNCHRO sem_post the        *)
(* sender's semaphore, else nothing.                                       *)
(***************************************************************************)
\* Mutant: each handler posts the other sender's semaphore.
HandlerWrongSem(s) ==
  /\ Running
  /\ pend[s]
  /\ Receiver
  /\ pend' = [pend EXCEPT ![s] = FALSE]
  /\ sem' = IF build = "synchro"
              THEN [sem EXCEPT ![CHOOSE o \in Senders : o # s] = @ + 1]
              ELSE sem
  /\ UNCHANGED <<pc, doIt, verdict, env>>

Handler(s) ==
  /\ Running
  /\ pend[s]
  /\ Receiver
  /\ pend' = [pend EXCEPT ![s] = FALSE]
  /\ sem' = IF build = "synchro" THEN [sem EXCEPT ![s] = @ + 1] ELSE sem
  /\ UNCHANGED <<pc, doIt, verdict, env>>

\* After exit nothing changes any more.
Exited ==
  /\ ~Running
  /\ UNCHANGED vars

\* After the handlers are installed, main's signals blocked and both
\* semaphores initialised to 1.
Init ==
  /\ pc = [t \in Threads |-> IF t = "main" THEN "create_work" ELSE "unborn"]
  /\ doIt = TRUE
  /\ sem = [s \in Senders |-> 1]
  /\ pend = [s \in Senders |-> FALSE]
  /\ verdict = "none"
  /\ build \in Builds
  /\ esrch \in EsrchCases
  /\ eintr \in EintrCases

MainStep ==
  \/ MainCreateWorker
  \/ MainCreateSender("sig1", "create_sig1", "create_sig2")
  \/ MainCreateSender("sig2", "create_sig2", "stop")
  \/ MainStop
  \/ MainJoin("sig1", "join_sig1", "join_sig2")
  \/ MainJoin("sig2", "join_sig2", "join_work")
  \/ MainJoin("worker", "join_work", "exited")

WorkerStep == WorkerStart \/ WorkerLoop \/ WorkerCancel \/ WorkerJoin

TestthStep == TestthYield \/ TestthReturn

SenderStep(s) == SenderLoop(s) \/ SenderSemWait(s) \/ SenderKill(s)

Next ==
  \/ MainStep \/ WorkerStep \/ TestthStep
  \/ \E s \in Senders : SenderStep(s) \/ Handler(s)
  \/ Exited

\* Every thread runs when it can (testth yields, it does not block the
\* others), and a pending signal the worker can take is delivered.
Fairness ==
  /\ WF_vars(MainStep) /\ WF_vars(WorkerStep) /\ WF_vars(TestthStep)
  /\ \A s \in Senders : WF_vars(SenderStep(s)) /\ WF_vars(Handler(s))

Spec == Init /\ [][Next]_vars /\ Fairness

-----------------------------------------------------------------------------
TypeOK ==
  /\ pc \in [Threads -> {"create_work", "create_sig1", "create_sig2", "stop",
                         "join_sig1", "join_sig2", "join_work", "exited",
                         "unborn", "create_testth", "loop", "cancel", "join",
                         "semwait", "kill", "done"}]
  /\ doIt \in BOOLEAN
  /\ sem \in [Senders -> 0..1]
  /\ pend \in [Senders -> BOOLEAN]
  /\ verdict \in {"none", "PASS", "FAIL", "UNRESOLVED"}

\* The test always ends, in both builds: once main clears do_it every loop
\* stops; WITH_SYNCHRO a sender blocked in sem_wait is released because its
\* last signal is handled by the worker before the worker can exit; and
\* main's three pthread_joins return.
Termination == <>(verdict # "none")

\* WITH_SYNCHRO each sender has exactly one signal out at any time: the
\* unit of its semaphore, the kill() it is about to make, or its signal
\* pending until the worker's handler sem_posts.  So no kill() ever meets
\* its own signal still pending, where a standard signal would be merged
\* and the sender, waiting for a second sem_post, would never get it.
OneSignalInFlight ==
  build = "synchro" =>
    \A s \in Senders :
      sem[s] + (IF pc[s] = "kill" THEN 1 ELSE 0) + (IF pend[s] THEN 1 ELSE 0) = 1
====
