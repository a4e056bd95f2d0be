---------------------------- MODULE PrioInherit ----------------------------
(***************************************************************************)
(* pthread_mutexattr_setprotocol/4-1.c and functional/threads/schedule/   *)
(* 1-3.c: avoidance of priority inversion with a PTHREAD_PRIO_INHERIT      *)
(* mutex.  Main sets is_thread_c_pause and creates SCHED_FIFO threads B   *)
(* (low), A (high) and C (middle).  Each pins itself to CPU 1.  B takes   *)
(* the mutex and spins on is_thread_c_pause; A blocks on the mutex, which *)
(* must raise B above C, so C cannot run until B unlocks.  After sleep(1) *)
(* main clears the flag; B fails the test if C has already run done.      *)
(*                                                                         *)
(* The two files differ in one place: 1-3 skips set_cpu_affinity when     *)
(* sysconf(_SC_NPROCESSORS_CONF) is 1, 4-1 always calls it (and exits     *)
(* PTS_UNRESOLVED when CPU 1 does not exist).  `variant` selects the file. *)
(*                                                                         *)
(* Platform: `protocol` says whether the mutex really boosts its owner     *)
(* ("inherit") or ignores the attribute ("ignored"); `cpus` is the number  *)
(* of processors ("multi" or "single"); `throttle` says whether real-time  *)
(* throttling lets the SCHED_OTHER main thread run on a CPU that FIFO     *)
(* threads keep busy.  CPU 1 is a strict fixed-priority FIFO processor.   *)
(***************************************************************************)
EXTENDS Naturals, Sequences, FiniteSetsExt

CONSTANTS
  Variants,     \* subset of {"4-1", "1-3"}
  Protocols,    \* subset of {"inherit", "ignored"}
  CpuCases,     \* subset of {"multi", "single"}
  Throttles,    \* subset of BOOLEAN
  SleepCases,   \* TRUE: sleep(1) outlasts every step the children can take
  PrivCases     \* subset of BOOLEAN: may the process create SCHED_FIFO threads?

ASSUME Variants \subseteq {"4-1", "1-3"} /\ Variants # {}
ASSUME Protocols \subseteq {"inherit", "ignored"} /\ Protocols # {}
ASSUME CpuCases \subseteq {"multi", "single"} /\ CpuCases # {}
ASSUME Throttles \subseteq BOOLEAN /\ Throttles # {}
ASSUME SleepCases \subseteq BOOLEAN /\ SleepCases # {}
ASSUME PrivCases \subseteq BOOLEAN /\ PrivCases # {}

Children == {"A", "B", "C"}
Threads  == Children \cup {"main"}
NoOwner  == "none"

VARIABLES
  pc,          \* program counters of main, fn_a, fn_b, fn_c
  cStatus,     \* c_thread_status (RUNNING = 0 = its static initial value)
  cPause,      \* is_thread_c_pause
  pinned,      \* children whose set_cpu_affinity(1) has taken effect
  owner,       \* owner of mtx, or NoOwner
  mtxWaiters,  \* children blocked in pthread_mutex_lock(&mtx)
  verdict,     \* "none" while the process runs, else its exit code
  variant, protocol, cpus, throttle, sleptEnough, privileged,
  inverted     \* history: C ran on CPU 1 while A was blocked on mtx

env  == <<variant, protocol, cpus, throttle, sleptEnough, privileged>>
vars == <<pc, cStatus, cPause, pinned, owner, mtxWaiters, verdict, env, inverted>>

(***************************************************************************)
(* main(): B gets sched_get_priority_min(SCHED_FIFO), A min + 6, C min + 2. *)
(***************************************************************************)
\* Mutant: A and C swap priorities (min + 2 for A, min + 6 for C).
BasePrioSwapped == [A |-> 2, B |-> 0, C |-> 6]

BasePrio == [A |-> 6, B |-> 0, C |-> 2]

Running == verdict = "none"

Goto(t, label) == pc' = [pc EXCEPT ![t] = label]

\* exit(code) from any thread ends the process.
Exit(code) ==
  /\ verdict' = code
  /\ UNCHANGED <<pc, cStatus, cPause, pinned, owner, mtxWaiters, env, inverted>>

(***************************************************************************)
(* Platform: scheduling.  A child runs on CPU 1 once pinned, and with a   *)
(* single processor every thread shares it.  On CPU 1 only the ready       *)
(* thread of highest effective priority runs; an owner of a PI mutex runs *)
(* at the highest priority of itself and its waiters.                     *)
(***************************************************************************)
OnCpu1(t) == t \in pinned \/ (cpus = "single" /\ pc[t] # "unborn")

Ready(t) == pc[t] \notin {"unborn", "mtxblocked", "done"}

EffPrio(t) ==
  IF protocol = "inherit" /\ owner = t
    THEN Max({BasePrio[t]} \cup {BasePrio[w] : w \in mtxWaiters})
    ELSE BasePrio[t]

MayRun(t) ==
  \/ ~OnCpu1(t)
  \/ \A u \in Children \ {t} : Ready(u) /\ OnCpu1(u) => EffPrio(u) < EffPrio(t)

\* main is SCHED_OTHER: on the shared single CPU it only runs when no FIFO
\* thread is ready, unless real-time throttling makes room for it.
MainMayRun ==
  cpus = "multi" \/ throttle \/ ~\E u \in Children : Ready(u) /\ OnCpu1(u)

(***************************************************************************)
(* Platform: the mutex.  pthread_mutex_unlock hands it to the waiter of    *)
(* highest priority, which goes on where its pthread_mutex_lock returns.   *)
(***************************************************************************)
AfterLock == [A |-> "unlock", B |-> "spin"]

Lock(t) ==
  \/ /\ owner = NoOwner
     /\ owner' = t
     /\ Goto(t, AfterLock[t])
     /\ UNCHANGED mtxWaiters
  \/ /\ owner # NoOwner
     /\ mtxWaiters' = mtxWaiters \cup {t}
     /\ Goto(t, "mtxblocked")
     /\ UNCHANGED owner

\* Mutant: the unlock frees the mutex without waking the blocked waiter.
UnlockLostWakeup(t) ==
  /\ owner' = NoOwner
  /\ Goto(t, "done")
  /\ UNCHANGED mtxWaiters

Unlock(t) ==
  \/ /\ mtxWaiters = {}
     /\ owner' = NoOwner
     /\ Goto(t, "done")
     /\ UNCHANGED mtxWaiters
  \/ \E w \in mtxWaiters :
       /\ \A v \in mtxWaiters : BasePrio[v] <= BasePrio[w]
       /\ owner' = w
       /\ mtxWaiters' = mtxWaiters \ {w}
       /\ pc' = [pc EXCEPT ![t] = "done", ![w] = AfterLock[w]]

(***************************************************************************)
(* main                                                                    *)
(***************************************************************************)
\* create_thread(): pthread_create with SCHED_FIFO and PTHREAD_EXPLICIT_SCHED.
\* Before B: is_thread_c_pause = 1.  Without the privilege to use
\* SCHED_FIFO, pthread_create returns EPERM and the test exit(PTS_FAIL)s.
MainCreate(t, next) ==
  /\ Running
  /\ MainMayRun
  /\ pc["main"] = "create_" \o t
  /\ cPause' = IF t = "B" THEN TRUE ELSE cPause
  /\ \/ /\ privileged
        /\ pc' = [pc EXCEPT !["main"] = next, ![t] = "affinity"]
        /\ UNCHANGED verdict
     \/ /\ ~privileged
        /\ verdict' = "FAIL"
        /\ UNCHANGED pc
  /\ UNCHANGED <<cStatus, pinned, owner, mtxWaiters, env, inverted>>

\* pthread_join(t_thread, NULL); "Test PASS." after the last one.
MainJoin(t, next) ==
  /\ Running
  /\ MainMayRun
  /\ pc["main"] = "join_" \o t
  /\ pc[t] = "done"
  /\ Goto("main", next)
  /\ verdict' = IF next = "exited" THEN "PASS" ELSE verdict
  /\ UNCHANGED <<cStatus, cPause, pinned, owner, mtxWaiters, env, inverted>>

(***************************************************************************)
(* fn_a, fn_b, fn_c                                                        *)
(***************************************************************************)
\* set_cpu_affinity(1), after a_thread_status = RUNNING in fn_a and
\* c_thread_status = RUNNING in 4-1's fn_c (both already 0 = RUNNING).
\* 1-3 skips the call on a single CPU; 4-1 asks for CPU 1, which does not
\* exist there, and sched_setaffinity's error is exit(PTS_UNRESOLVED).
\* Mutant: sched_setaffinity(0, ...) pins the whole process, main included.
SetCpuAffinityProcess(t, next) ==
  /\ Running
  /\ MayRun(t)
  /\ pc[t] = "affinity"
  /\ cpus = "multi"
  /\ pinned' = pinned \cup {t, "main"}
  /\ Goto(t, next)
  /\ UNCHANGED <<cStatus, cPause, owner, mtxWaiters, verdict, env, inverted>>

SetCpuAffinity(t, next) ==
  /\ Running
  /\ MayRun(t)
  /\ pc[t] = "affinity"
  /\ \/ /\ cpus = "multi"
        /\ pinned' = pinned \cup {t}
        /\ Goto(t, next)
        /\ UNCHANGED verdict
     \/ /\ cpus = "single" /\ variant = "1-3"
        /\ Goto(t, next)
        /\ UNCHANGED <<pinned, verdict>>
     \/ /\ cpus = "single" /\ variant = "4-1"
        /\ verdict' = "UNRESOLVED"
        /\ UNCHANGED <<pc, pinned>>
  /\ UNCHANGED <<cStatus, cPause, owner, mtxWaiters, env, inverted>>

\* s = pthread_mutex_lock(&mtx) in fn_a and fn_b.
MutexLock(t) ==
  /\ Running
  /\ MayRun(t)
  /\ pc[t] = "lock"
  /\ Lock(t)
  /\ UNCHANGED <<cStatus, cPause, pinned, verdict, env, inverted>>

\* fn_a: pthread_mutex_unlock(&mtx); a_thread_status = RUN_DONE (a status
\* nobody reads).
AUnlock ==
  /\ Running
  /\ MayRun("A")
  /\ pc["A"] = "unlock"
  /\ Unlock("A")
  /\ UNCHANGED <<cStatus, cPause, pinned, verdict, env, inverted>>

\* fn_b: while (is_thread_c_pause);  one turn of the busy loop.
BSpin ==
  /\ Running
  /\ MayRun("B")
  /\ pc["B"] = "spin"
  /\ cPause
  /\ UNCHANGED vars

\* Mutant: B compares c_thread_status with RUNNING instead of RUN_DONE.
CRunDoneSeenWrong == cStatus = "RUNNING"

\* if (c_thread_status == RUN_DONE) exit(PTS_FAIL)
CRunDoneSeen == cStatus = "RUN_DONE"

\* fn_b leaves the loop and checks C.
BCheck ==
  /\ Running
  /\ MayRun("B")
  /\ pc["B"] = "spin"
  /\ ~cPause
  /\ \/ /\ CRunDoneSeen
        /\ Exit("FAIL")
     \/ /\ ~CRunDoneSeen
        /\ Goto("B", "unlock")
        /\ UNCHANGED <<cStatus, cPause, pinned, owner, mtxWaiters, verdict, env, inverted>>

\* fn_b: pthread_mutex_unlock(&mtx).
BUnlock ==
  /\ Running
  /\ MayRun("B")
  /\ pc["B"] = "unlock"
  /\ Unlock("B")
  /\ UNCHANGED <<cStatus, cPause, pinned, verdict, env, inverted>>

\* fn_c: c_thread_status = RUN_DONE (1-3 first writes RUNNING, the value it
\* already has).
CRunDone ==
  /\ Running
  /\ MayRun("C")
  /\ pc["C"] = "run"
  /\ cStatus' = "RUN_DONE"
  /\ Goto("C", "done")
  /\ inverted' = (inverted \/ ("A" \in mtxWaiters /\ OnCpu1("C")))
  /\ UNCHANGED <<cPause, pinned, owner, mtxWaiters, verdict, env>>

AStep == SetCpuAffinity("A", "lock") \/ MutexLock("A") \/ AUnlock
BProgress == SetCpuAffinity("B", "lock") \/ MutexLock("B") \/ BCheck \/ BUnlock
CStep == SetCpuAffinity("C", "run") \/ CRunDone

\* The children have done all they can until is_thread_c_pause changes.
Settled == ~ENABLED (AStep \/ BProgress \/ CStep)

\* sleep(1) "Make sure all thread are running"; is_thread_c_pause = 0.
MainRelease ==
  /\ Running
  /\ MainMayRun
  /\ pc["main"] = "release"
  /\ sleptEnough => Settled
  /\ cPause' = FALSE
  /\ Goto("main", "join_B")
  /\ UNCHANGED <<cStatus, pinned, owner, mtxWaiters, verdict, env, inverted>>

\* After exit() nothing changes any more.
Exited ==
  /\ ~Running
  /\ UNCHANGED vars

Init ==
  /\ pc = [t \in Threads |-> IF t = "main" THEN "create_B" ELSE "unborn"]
  /\ cStatus = "RUNNING"
  /\ cPause = FALSE
  /\ pinned = {}
  /\ owner = NoOwner
  /\ mtxWaiters = {}
  /\ verdict = "none"
  /\ variant \in Variants
  /\ protocol \in Protocols
  /\ cpus \in CpuCases
  /\ throttle \in Throttles
  /\ sleptEnough \in SleepCases
  /\ privileged \in PrivCases
  /\ inverted = FALSE

MainStep ==
  \/ MainCreate("B", "create_A") \/ MainCreate("A", "create_C")
  \/ MainCreate("C", "release") \/ MainRelease
  \/ MainJoin("B", "join_A") \/ MainJoin("A", "join_C") \/ MainJoin("C", "exited")

BStep == BProgress \/ BSpin

Next == MainStep \/ AStep \/ BStep \/ CStep \/ Exited

\* The scheduler runs every thread MayRun/MainMayRun allows; weak fairness
\* of each thread is all the model assumes of it.
Fairness ==
  WF_vars(MainStep) /\ WF_vars(AStep) /\ WF_vars(BStep) /\ WF_vars(CStep)

Spec == Init /\ [][Next]_vars /\ Fairness

-----------------------------------------------------------------------------
TypeOK ==
  /\ pc \in [Threads -> {"create_B", "create_A", "create_C", "release",
                         "join_B", "join_A", "join_C", "exited", "unborn",
                         "affinity", "lock", "mtxblocked", "unlock", "spin",
                         "run", "done"}]
  /\ cStatus \in {"RUNNING", "RUN_DONE"}
  /\ cPause \in BOOLEAN
  /\ pinned \subseteq Children
  /\ owner \in Children \cup {NoOwner}
  /\ mtxWaiters \subseteq Children
  /\ verdict \in {"none", "PASS", "FAIL", "UNRESOLVED"}
  /\ inverted \in BOOLEAN

\* The test is sound: when main's sleep(1) lets the children settle, a
\* PASS means C never ran on CPU 1 while the high-priority A was blocked
\* on the mutex B holds, i.e. no priority inversion happened.
VerdictSound == sleptEnough /\ verdict = "PASS" => ~inverted

\* The test does not fail a platform whose mutex inherits priority: with
\* the sleep honoured, B's check of c_thread_status never fires.
NoFalseFailure ==
  protocol = "inherit" /\ sleptEnough /\ privileged => verdict # "FAIL"

\* The test ends whenever main can run beside the spinning FIFO threads:
\* on several CPUs, or on one with real-time throttling.
Termination == (cpus = "multi" \/ throttle) => <>(verdict # "none")
====
