----------------------------- MODULE FifoEqual -----------------------------
(***************************************************************************)
(* functional/threads/schedule/1-4.c: two SCHED_FIFO threads of the same  *)
(* priority on one CPU.  Main creates A, then B; each pins itself to CPU 1 *)
(* (unless the machine has one CPU), runs a long counting loop, and checks *)
(* the other's task status: under FIFO, A must run done before B begins.  *)
(*                                                                         *)
(* CPU 1 is a FIFO run queue `queue`: its head runs, a thread that becomes *)
(* ready there joins the tail, and the head keeps the CPU until it exits.  *)
(* `slicing` is a platform that, against SCHED_FIFO, rotates the head to   *)
(* the tail between two loop steps.  The 2^32-iteration loop is Iterations *)
(* steps, enough for a rotation to fall inside it.                         *)
(***************************************************************************)
EXTENDS Naturals, Sequences

CONSTANTS
  Iterations,   \* loop steps standing for for (i=0; i<4294967295; i++)
  CpuCases,     \* subset of {"multi", "single"}
  Throttles,    \* subset of BOOLEAN: RT throttling lets main run
  SliceCases,   \* subset of BOOLEAN: the platform time-slices FIFO threads
  PrivCases     \* subset of BOOLEAN: may the process create SCHED_FIFO threads?

ASSUME Iterations \in Nat \ {0}
ASSUME CpuCases \subseteq {"multi", "single"} /\ CpuCases # {}
ASSUME Throttles \subseteq BOOLEAN /\ Throttles # {}
ASSUME SliceCases \subseteq BOOLEAN /\ SliceCases # {}
ASSUME PrivCases \subseteq BOOLEAN /\ PrivCases # {}

Tasks   == {"A", "B"}
Threads == Tasks \cup {"main"}

VARIABLES
  pc,       \* program counters of main, fn_a, fn_b
  status,   \* task_a_status, task_b_status
  iter,     \* loop counter i of each task, in loop steps
  queue,    \* run queue of CPU 1, head running
  verdict,  \* "none" while the process runs, else its exit code
  cpus, throttle, slicing, privileged,
  arrival,  \* history: the order in which the tasks joined CPU 1's queue
  rotated   \* history: a task lost CPU 1 to the other in mid-loop

env  == <<cpus, throttle, slicing, privileged>>
hist == <<arrival, rotated>>
vars == <<pc, status, iter, queue, verdict, env, hist>>

Running == verdict = "none"

Goto(t, label) == pc' = [pc EXCEPT ![t] = label]

\* exit(code) from any thread ends the process.
Exit(code) ==
  /\ verdict' = code
  /\ UNCHANGED <<pc, status, iter, queue, env, hist>>

\* A task runs only at the head of CPU 1's queue once it is there; before
\* set_cpu_affinity takes effect it runs on another processor.
OnCpu(t) == \E i \in 1..Len(queue) : queue[i] = t

MayRun(t) == OnCpu(t) => Head(queue) = t

\* main is SCHED_OTHER: with a single CPU it waits for the FIFO tasks to
\* leave the processor, unless RT throttling makes room for it.
MainMayRun == cpus = "multi" \/ throttle \/ queue = <<>>

\* A task joins CPU 1's run queue at its tail.
Enqueue(t) ==
  /\ queue' = Append(queue, t)
  /\ arrival' = Append(arrival, t)

(***************************************************************************)
(* main                                                                    *)
(***************************************************************************)
\* create_thread(&task_t, 1, fn_t).  With one CPU the new FIFO task is
\* ready on main's own processor at once.  Without the privilege to use
\* SCHED_FIFO, pthread_create returns EPERM and the test exit(PTS_FAIL)s.
MainCreate(t, next) ==
  /\ Running
  /\ MainMayRun
  /\ pc["main"] = "create_" \o t
  /\ \/ /\ privileged
        /\ pc' = [pc EXCEPT !["main"] = next, ![t] = "affinity"]
        /\ IF cpus = "single" THEN Enqueue(t) ELSE UNCHANGED <<queue, arrival>>
        /\ UNCHANGED <<status, iter, verdict, env, rotated>>
     \/ /\ ~privileged
        /\ Exit("FAIL")

\* pthread_join(task_t, NULL); "Test PASSED" after the second one.
MainJoin(t, next) ==
  /\ Running
  /\ MainMayRun
  /\ pc["main"] = "join_" \o t
  /\ pc[t] = "done"
  /\ Goto("main", next)
  /\ verdict' = IF next = "exited" THEN "PASS" ELSE verdict
  /\ UNCHANGED <<status, iter, queue, env, hist>>

(***************************************************************************)
(* fn_a, fn_b                                                              *)
(***************************************************************************)
\* if (single_cpu == FALSE) set_cpu_affinity(1); then
\* pthread_getschedparam, which only prints what it returns.
SetCpuAffinity(t) ==
  /\ Running
  /\ MayRun(t)
  /\ pc[t] = "affinity"
  /\ IF cpus = "multi" THEN Enqueue(t) ELSE UNCHANGED <<queue, arrival>>
  /\ Goto(t, "loop")
  /\ UNCHANGED <<status, iter, verdict, env, rotated>>

\* Mutant: the loop bound is off by one (i <= the limit).
LoopStepOffByOne(t) ==
  /\ Running
  /\ MayRun(t)
  /\ pc[t] = "loop"
  /\ iter[t] <= Iterations
  /\ iter' = [iter EXCEPT ![t] = @ + 1]
  /\ UNCHANGED <<pc, status, queue, verdict, env, hist>>

\* One stretch of the counting loop.
LoopStep(t) ==
  /\ Running
  /\ MayRun(t)
  /\ pc[t] = "loop"
  /\ iter[t] < Iterations
  /\ iter' = [iter EXCEPT ![t] = @ + 1]
  /\ UNCHANGED <<pc, status, queue, verdict, env, hist>>

\* Mutant: A's check compares B's status with RUNNING.
OtherDoneWrong(t) ==
  IF t = "A" THEN status["B"] = "RUNNING" ELSE status["A"] # "RUN_DONE"

\* fn_a: if (task_b_status == RUN_DONE) FAIL;
\* fn_b: if (task_a_status != RUN_DONE) FAIL.
CheckFails(t) ==
  IF t = "A" THEN status["B"] = "RUN_DONE" ELSE status["A"] # "RUN_DONE"

\* The loop ends; the SCHED_FIFO check.
Check(t) ==
  /\ Running
  /\ MayRun(t)
  /\ pc[t] = "loop"
  /\ iter[t] = Iterations
  /\ \/ /\ CheckFails(t)
        /\ Exit("FAIL")
     \/ /\ ~CheckFails(t)
        /\ Goto(t, "finish")
        /\ UNCHANGED <<status, iter, queue, verdict, env, hist>>

\* Mutant: the exiting task stays at the head of CPU 1's queue.
FinishKeepsCpu(t) ==
  /\ Running
  /\ MayRun(t)
  /\ pc[t] = "finish"
  /\ status' = [status EXCEPT ![t] = "RUN_DONE"]
  /\ Goto(t, "done")
  /\ UNCHANGED <<iter, queue, verdict, env, hist>>

\* task_t_status = RUN_DONE; the thread returns and leaves the CPU.
Finish(t) ==
  /\ Running
  /\ MayRun(t)
  /\ pc[t] = "finish"
  /\ status' = [status EXCEPT ![t] = "RUN_DONE"]
  /\ Goto(t, "done")
  /\ queue' = SelectSeq(queue, LAMBDA u : u # t)
  /\ UNCHANGED <<iter, verdict, env, hist>>

(***************************************************************************)
(* Platform: a time slice that SCHED_FIFO does not allow, taken from the   *)
(* running task in mid-loop when another task is ready on CPU 1.          *)
(***************************************************************************)
Slice ==
  /\ Running
  /\ slicing
  /\ Len(queue) >= 2
  /\ pc[Head(queue)] = "loop"
  /\ iter[Head(queue)] \in 1..(Iterations - 1)
  /\ queue' = Append(Tail(queue), Head(queue))
  /\ rotated' = TRUE
  /\ UNCHANGED <<pc, status, iter, verdict, env, arrival>>

\* After exit() nothing changes any more.
Exited ==
  /\ ~Running
  /\ UNCHANGED vars

\* TEST_COUNT is 1: main sets both statuses to RUNNING once, before the
\* threads exist.
Init ==
  /\ pc = [t \in Threads |-> IF t = "main" THEN "create_A" ELSE "unborn"]
  /\ status = [t \in Tasks |-> "RUNNING"]
  /\ iter = [t \in Tasks |-> 0]
  /\ queue = <<>>
  /\ verdict = "none"
  /\ cpus \in CpuCases
  /\ throttle \in Throttles
  /\ slicing \in SliceCases
  /\ privileged \in PrivCases
  /\ arrival = <<>>
  /\ rotated = FALSE

MainStep ==
  \/ MainCreate("A", "create_B") \/ MainCreate("B", "join_A")
  \/ MainJoin("A", "join_B") \/ MainJoin("B", "exited")

TaskStep(t) == SetCpuAffinity(t) \/ LoopStep(t) \/ Check(t) \/ Finish(t)

Next == MainStep \/ (\E t \in Tasks : TaskStep(t)) \/ Slice \/ Exited

\* Every thread the scheduler lets run eventually does.  A task that keeps
\* coming back to the head of the queue between slices gets to run (strong
\* fairness): a time-slicing scheduler shares the CPU, it does not take
\* every slice back before the task executes.  A slice is never forced.
Fairness == WF_vars(MainStep) /\ \A t \in Tasks : SF_vars(TaskStep(t))

Spec == Init /\ [][Next]_vars /\ Fairness

-----------------------------------------------------------------------------
TypeOK ==
  /\ pc \in [Threads -> {"create_A", "create_B", "join_A", "join_B", "exited",
                         "unborn", "affinity", "loop", "finish", "done"}]
  /\ status \in [Tasks -> {"RUNNING", "RUN_DONE"}]
  /\ iter \in [Tasks -> 0..Iterations]
  /\ queue \in Seq(Tasks) /\ Len(queue) <= 2
  /\ verdict \in {"none", "PASS", "FAIL"}
  /\ arrival \in Seq(Tasks) /\ rotated \in BOOLEAN

\* The test always ends: both loops are bounded, FIFO hands CPU 1 to the
\* next task when the running one returns, and main's joins follow.
Termination == <>(verdict # "none")

\* A FAIL of a privileged run, which can only come from the two status
\* checks, is explained by the scheduling: either a task lost CPU 1 in
\* mid-loop, or B reached CPU 1 before A although main created A first.
FailExplained ==
  verdict = "FAIL" /\ privileged =>
    rotated \/ (arrival # <<>> /\ Head(arrival) = "B")
====
