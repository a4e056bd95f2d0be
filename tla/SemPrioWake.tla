---------------------------- MODULE SemPrioWake ----------------------------
(***************************************************************************)
(* functional/semaphores/1-1.c: "Semaphore schedule policy based on       *)
(* priority".  Main creates SCHED_RR threads A (low), B (middle) and C     *)
(* (high) that all block in sem_wait on a semaphore of value 0, then posts *)
(* once.  C must come back first and post, then B, which posts, then A.   *)
(* Each thread checks the THREAD_ENTER/THREAD_EXIT status words of the    *)
(* others when it returns from sem_wait and exit(PTS_FAIL)s on a wrong    *)
(* order.                                                                  *)
(*                                                                         *)
(* The semaphore is the platform under test, not code of the test: which  *)
(* waiter a sem_post releases is the variable `policy`, chosen once per    *)
(* behaviour from WakePolicies ("priority": the highest-priority waiter,   *)
(* as POSIX requires under SCHED_RR; "any": an arbitrary waiter).  Whether *)
(* pthread_create may use SCHED_RR at all (EPERM otherwise) is the         *)
(* variable `privileged`, and whether main's sleep(1) is long enough for  *)
(* every child to block first is `sleptEnough`.                           *)
(***************************************************************************)
EXTENDS Naturals, Sequences, TLC

CONSTANTS
  WakePolicies,   \* wake-up rules of sem_post the platform may follow
  Privileges,     \* may the process create SCHED_RR threads? (subset of BOOLEAN)
  SleepCases      \* TRUE: main's sleep(1) lets every child block in sem_wait first

ASSUME WakePolicies \subseteq {"priority", "any"} /\ WakePolicies # {}
ASSUME Privileges \subseteq BOOLEAN /\ Privileges # {}
ASSUME SleepCases \subseteq BOOLEAN /\ SleepCases # {}

Children == {"A", "B", "C"}
Threads  == Children \cup {"main"}

VARIABLES
  pc,          \* program counter of main and of fn_a, fn_b, fn_c
  status,      \* thread_a_status, thread_b_status, thread_c_status
  sem,         \* value of the semaphore `sem`
  waiters,     \* threads blocked in sem_wait(&sem)
  verdict,     \* "none" while the process runs, else its exit code
  policy,      \* platform: which waiter sem_post releases
  privileged,  \* platform: does pthread_create grant SCHED_RR?
  sleptEnough, \* timing: did sleep(1) outlast the children reaching sem_wait?
  inverted     \* history: some sem_post released a waiter while a
               \* higher-priority one was waiting

\* The platform and timing of one run: fixed in Init.
env  == <<policy, privileged, sleptEnough>>
vars == <<pc, status, sem, waiters, verdict, env, inverted>>

(***************************************************************************)
(* main(): priority = sched_get_priority_min(SCHED_RR) for A, then         *)
(* priority += 2 before B and again before C.  Kept relative to the        *)
(* minimum.                                                                *)
(***************************************************************************)
\* Mutant: the priorities handed out in the opposite order (priority -= 2).
ThreadPriorityReversed == ("A" :> 4) @@ ("B" :> 2) @@ ("C" :> 0)

ThreadPriority == ("A" :> 0) @@ ("B" :> 2) @@ ("C" :> 4)

Running == verdict = "none"

\* exit(code) from any thread ends the whole process.
Exit(code) ==
  /\ verdict' = code
  /\ UNCHANGED <<pc, status, sem, waiters, env, inverted>>

Goto(t, label) == pc' = [pc EXCEPT ![t] = label]

(***************************************************************************)
(* Platform: the waiters sem_post may release.                             *)
(***************************************************************************)
Releasable ==
  IF policy = "priority"
    THEN {w \in waiters : \A v \in waiters : ThreadPriority[v] <= ThreadPriority[w]}
    ELSE waiters

\* sem_post(&sem) by thread t, which then continues at label `next`.
\* With no waiter the value goes up; otherwise one waiter returns from
\* sem_wait and the value stays 0.
SemPost(t, next) ==
  \/ /\ waiters = {}
     /\ sem' = sem + 1
     /\ Goto(t, next)
     /\ UNCHANGED <<waiters, inverted>>
  \/ \E w \in Releasable :
       /\ waiters' = waiters \ {w}
       /\ pc' = [pc EXCEPT ![t] = next, ![w] = "check"]
       /\ inverted' = (inverted \/ \E v \in waiters : ThreadPriority[v] > ThreadPriority[w])
       /\ UNCHANGED sem

(***************************************************************************)
(* The order checks each thread makes after sem_wait returns.             *)
(***************************************************************************)
\* fn_a: B and C must both have exited.
ACheckFails == status["B"] # "EXIT" \/ status["C"] # "EXIT"

\* Mutant: fn_b compares A's status with the wrong constant.
BCheckFailsWrongConst == status["C"] # "EXIT" \/ status["A"] # "EXIT"

\* fn_b: C must have exited and A must not have.
BCheckFails == status["C"] # "EXIT" \/ status["A"] # "ENTER"

\* fn_c: neither A nor B may have exited.
CCheckFails == status["B"] = "EXIT" \/ status["A"] = "EXIT"

CheckFails(t) ==
  CASE t = "A" -> ACheckFails
    [] t = "B" -> BCheckFails
    [] t = "C" -> CCheckFails

(***************************************************************************)
(* main                                                                    *)
(***************************************************************************)
\* create_thread(&thread_t, priority, fn_t): pthread_create with SCHED_RR
\* and PTHREAD_EXPLICIT_SCHED; EPERM (or any error) is exit(PTS_FAIL).
MainCreate(t, next) ==
  /\ Running
  /\ pc["main"] = "create_" \o t
  /\ \/ /\ privileged
        /\ pc' = [pc EXCEPT !["main"] = next, ![t] = "wait"]
        /\ UNCHANGED <<status, sem, waiters, verdict, env, inverted>>
     \/ /\ ~privileged
        /\ Exit("FAIL")

\* Mutant: main posts without moving on, so it may post again.
MainPostRepeated ==
  /\ Running
  /\ pc["main"] = "post"
  /\ sleptEnough => waiters = Children
  /\ SemPost("main", "post")
  /\ UNCHANGED <<status, verdict, env>>

\* sleep(1); sem_post(&sem).  When the sleep is long enough all three
\* children are blocked in sem_wait by then.
MainPost ==
  /\ Running
  /\ pc["main"] = "post"
  /\ sleptEnough => waiters = Children
  /\ SemPost("main", "join_A")
  /\ UNCHANGED <<status, verdict, env>>

\* pthread_join(thread_t, NULL)
MainJoin(t, next) ==
  /\ Running
  /\ pc["main"] = "join_" \o t
  /\ pc[t] = "done"
  /\ Goto("main", next)
  /\ UNCHANGED <<status, sem, waiters, verdict, env, inverted>>

\* sem_destroy(&sem); printf("Test PASSED"); return PTS_PASS
MainDestroy ==
  /\ Running
  /\ pc["main"] = "destroy"
  /\ Goto("main", "exited")
  /\ verdict' = "PASS"
  /\ UNCHANGED <<status, sem, waiters, env, inverted>>

(***************************************************************************)
(* fn_a, fn_b, fn_c                                                        *)
(***************************************************************************)
\* thread_t_status = THREAD_ENTER; sem_wait(&sem): take a unit if there is
\* one, else block.
SemWait(t) ==
  /\ Running
  /\ pc[t] = "wait"
  /\ status' = [status EXCEPT ![t] = "ENTER"]
  /\ \/ /\ sem > 0
        /\ sem' = sem - 1
        /\ Goto(t, "check")
        /\ UNCHANGED waiters
     \/ /\ sem = 0
        /\ waiters' = waiters \cup {t}
        /\ Goto(t, "blocked")
        /\ UNCHANGED sem
  /\ UNCHANGED <<verdict, env, inverted>>

\* The order check right after sem_wait returns.
Check(t) ==
  /\ Running
  /\ pc[t] = "check"
  /\ \/ /\ CheckFails(t)
        /\ Exit("FAIL")
     \/ /\ ~CheckFails(t)
        /\ Goto(t, "exit")
        /\ UNCHANGED <<status, sem, waiters, verdict, env, inverted>>

\* thread_t_status = THREAD_EXIT; A returns, B and C go on to sem_post.
MarkExit(t) ==
  /\ Running
  /\ pc[t] = "exit"
  /\ status' = [status EXCEPT ![t] = "EXIT"]
  /\ Goto(t, IF t = "A" THEN "done" ELSE "post")
  /\ UNCHANGED <<sem, waiters, verdict, env, inverted>>

\* fn_b / fn_c: sem_post(&sem) and return.
Post(t) ==
  /\ Running
  /\ pc[t] = "post"
  /\ SemPost(t, "done")
  /\ UNCHANGED <<status, verdict, env>>

\* After exit() the process is gone: nothing changes any more.
Exited ==
  /\ ~Running
  /\ UNCHANGED vars

Init ==
  /\ pc = [t \in Threads |-> IF t = "main" THEN "create_A" ELSE "unborn"]
  /\ status = [t \in Children |-> "ENTER"]   \* static ints start at 0 = THREAD_ENTER
  /\ sem = 0
  /\ waiters = {}
  /\ verdict = "none"
  /\ policy \in WakePolicies
  /\ privileged \in Privileges
  /\ sleptEnough \in SleepCases
  /\ inverted = FALSE

MainStep ==
  \/ MainCreate("A", "create_B")
  \/ MainCreate("B", "create_C")
  \/ MainCreate("C", "post")
  \/ MainPost
  \/ MainJoin("A", "join_B")
  \/ MainJoin("B", "join_C")
  \/ MainJoin("C", "destroy")
  \/ MainDestroy

ChildStep(t) == SemWait(t) \/ Check(t) \/ MarkExit(t) \/ Post(t)

Next ==
  \/ MainStep
  \/ \E t \in Children : ChildStep(t)
  \/ Exited

\* Every thread that can run eventually runs: the children are SCHED_RR
\* and not pinned, and main only runs while they are blocked or on
\* another CPU.
Fairness == WF_vars(MainStep) /\ \A t \in Children : WF_vars(ChildStep(t))

Spec == Init /\ [][Next]_vars /\ Fairness

-----------------------------------------------------------------------------
TypeOK ==
  /\ pc \in [Threads -> {"create_A", "create_B", "create_C", "post", "join_A",
                         "join_B", "join_C", "destroy", "exited", "unborn",
                         "wait", "blocked", "check", "exit", "done"}]
  /\ status \in [Children -> {"ENTER", "EXIT"}]
  /\ sem \in 0..1
  /\ waiters \subseteq Children
  /\ verdict \in {"none", "PASS", "FAIL"}
  /\ policy \in WakePolicies
  /\ privileged \in BOOLEAN
  /\ sleptEnough \in BOOLEAN
  /\ inverted \in BOOLEAN

\* The test is sound (checks in fn_a, fn_b, fn_c): it reports PASS only if
\* every sem_post released the highest-priority waiter, whatever order the
\* platform wakes threads in.
VerdictSound == verdict = "PASS" => ~inverted

\* The test does not fail a conforming platform: if sem_post always
\* releases the highest-priority waiter, SCHED_RR is granted and main's
\* sleep(1) lets the children block before it posts, no thread's order
\* check fires and main never exit(PTS_FAIL)s.
NoFalseFailure ==
  policy = "priority" /\ privileged /\ sleptEnough => verdict # "FAIL"
=============================================================================
