------------------------- MODULE RWLockPreferWriter -------------------------
(***************************************************************************)
(* conformance/interfaces/pthread_rwlock_rdlock/2-4.c: a read-write lock   *)
(* initialised with PTHREAD_RWLOCK_PREFER_WRITER_NONRECURSIVE_NP must let  *)
(* a waiting writer in before a reader that arrives later.                 *)
(*                                                                         *)
(* Reader 1 takes the read lock and spins on rd_1_pause; the writer then   *)
(* blocks in wrlock; reader 2 expects tryrdlock to fail with EBUSY,        *)
(* releases reader 1 (rd_1_pause = FALSE) and blocks in rdlock.  Reader 1  *)
(* unlocks, the writer must get the lock before reader 2.  The writer and  *)
(* reader 2 check each other's thread_state words when they get the lock.  *)
(*                                                                         *)
(* The lock is the platform: `kind` says whether the implementation honours *)
(* writer preference ("prefer_writer") or lets readers in while a writer   *)
(* waits ("prefer_reader", what PTHREAD_RWLOCK_PREFER_WRITER_NP does on    *)
(* glibc, as the comment in main notes).  `sleptEnough` says whether the   *)
(* three sleep() calls last long enough for what their comments expect.    *)
(***************************************************************************)
EXTENDS Naturals, Sequences

CONSTANTS
  LockKinds,   \* behaviours of the rwlock the platform may have
  SleepCases   \* TRUE: every sleep() outlasts what its comment waits for

ASSUME LockKinds \subseteq {"prefer_writer", "prefer_reader"} /\ LockKinds # {}
ASSUME SleepCases \subseteq BOOLEAN /\ SleepCases # {}

Workers == {"rd1", "wr", "rd2"}
Threads == Workers \cup {"main"}
NoWriter == "none"

VARIABLES
  pc,          \* program counters of main, fn_rd_1, fn_wr, fn_rd_2
  state,       \* rd_1_thread_state, wr_thread_state, rd_2_thread_state
  rdPause,     \* rd_1_pause
  readers,     \* threads holding the read lock
  writer,      \* thread holding the write lock, or NoWriter
  wrWaiting,   \* threads blocked in pthread_rwlock_wrlock
  rdWaiting,   \* threads blocked in pthread_rwlock_rdlock
  verdict,     \* "none" while the process runs, else its exit code
  kind,        \* platform: preference the lock really implements
  sleptEnough  \* timing: do the sleeps last long enough?

env  == <<kind, sleptEnough>>
lock == <<readers, writer, wrWaiting, rdWaiting>>
vars == <<pc, state, rdPause, lock, verdict, env>>

Running == verdict = "none"

Goto(t, label) == pc' = [pc EXCEPT ![t] = label]

\* exit(code) from any thread ends the process.
Exit(code) ==
  /\ verdict' = code
  /\ UNCHANGED <<pc, state, rdPause, lock, env>>

(***************************************************************************)
(* Platform: the read-write lock.                                          *)
(***************************************************************************)
\* A read lock is granted when no writer holds the lock and, if the lock
\* prefers writers, none is waiting.
CanRead  == writer = NoWriter /\ (kind = "prefer_writer" => wrWaiting = {})
CanWrite == writer = NoWriter /\ readers = {}

\* pthread_rwlock_rdlock(&rwlock) by t, then on to `next` once it holds it.
RdLock(t, next) ==
  \/ /\ CanRead
     /\ readers' = readers \cup {t}
     /\ Goto(t, next)
     /\ UNCHANGED <<writer, wrWaiting, rdWaiting>>
  \/ /\ ~CanRead
     /\ rdWaiting' = rdWaiting \cup {t}
     /\ Goto(t, "rdblocked")
     /\ UNCHANGED <<readers, writer, wrWaiting>>

\* pthread_rwlock_unlock(&rwlock) by t.
Unlock(t) ==
  /\ readers' = readers \ {t}
  /\ writer' = IF writer = t THEN NoWriter ELSE writer
  /\ UNCHANGED <<wrWaiting, rdWaiting>>

(***************************************************************************)
(* main                                                                    *)
(***************************************************************************)
\* pthread_create(&rd_1_thread, NULL, fn_rd_1, NULL); sleep(1)
MainCreateRd1 ==
  /\ Running
  /\ pc["main"] = "create_rd1"
  /\ pc' = [pc EXCEPT !["main"] = "create_wr", !["rd1"] = "rdlock"]
  /\ UNCHANGED <<state, rdPause, lock, verdict, env>>

\* "sleep(1); // Make sure reader thread 1 got rwlock", then create the
\* writer.
MainCreateWr ==
  /\ Running
  /\ pc["main"] = "create_wr"
  /\ sleptEnough => pc["rd1"] = "spin"
  /\ pc' = [pc EXCEPT !["main"] = "create_rd2", !["wr"] = "wrlock"]
  /\ UNCHANGED <<state, rdPause, lock, verdict, env>>

\* "sleep(1); // Make sure writer thread is waitting for rwlock", then
\* create reader 2.
MainCreateRd2 ==
  /\ Running
  /\ pc["main"] = "create_rd2"
  /\ sleptEnough => "wr" \in wrWaiting
  /\ pc' = [pc EXCEPT !["main"] = "join_rd1", !["rd2"] = "trylock"]
  /\ UNCHANGED <<state, rdPause, lock, verdict, env>>

\* Mutant: pthread_join returns without waiting for the thread.
MainJoinNoWait(t, next) ==
  /\ Running
  /\ pc["main"] = "join_" \o t
  /\ Goto("main", next)
  /\ verdict' = IF next = "exited" THEN "PASS" ELSE verdict
  /\ UNCHANGED <<state, rdPause, lock, env>>

\* pthread_join_fn(rd_1_thread); (wr_thread); (rd_2_thread); PASS
MainJoin(t, next) ==
  /\ Running
  /\ pc["main"] = "join_" \o t
  /\ pc[t] = "done"
  /\ Goto("main", next)
  /\ verdict' = IF next = "exited" THEN "PASS" ELSE verdict
  /\ UNCHANGED <<state, rdPause, lock, env>>

(***************************************************************************)
(* fn_rd_1                                                                 *)
(***************************************************************************)
\* rd_1_thread_state = ENTERED_THREAD; pthread_rwlock_rdlock(&rwlock)
Rd1Lock ==
  /\ Running
  /\ pc["rd1"] = "rdlock"
  /\ state' = [state EXCEPT !["rd1"] = "ENTERED"]
  /\ RdLock("rd1", "pause")
  /\ UNCHANGED <<rdPause, verdict, env>>

\* rd_1_pause = TRUE
Rd1Pause ==
  /\ Running
  /\ pc["rd1"] = "pause"
  /\ rdPause' = TRUE
  /\ Goto("rd1", "spin")
  /\ UNCHANGED <<state, lock, verdict, env>>

\* while (rd_1_pause == TRUE);  one turn of the busy loop
Rd1Spin ==
  /\ Running
  /\ pc["rd1"] = "spin"
  /\ rdPause = TRUE
  /\ UNCHANGED vars

\* The loop sees rd_1_pause == FALSE; "sleep(2); // To make sure reader
\* thread 2 and writer thread are waiting for rwlock"; then unlock.
Rd1Unlock ==
  /\ Running
  /\ pc["rd1"] = "spin"
  /\ rdPause = FALSE
  /\ sleptEnough => "wr" \in wrWaiting /\ "rd2" \in rdWaiting
  /\ Unlock("rd1")
  /\ Goto("rd1", "exiting")
  /\ UNCHANGED <<state, rdPause, verdict, env>>

\* Mutant: reader 1 records the unused NOT_CREATED_THREAD state.
Rd1ExitingWrongState ==
  /\ Running
  /\ pc["rd1"] = "exiting"
  /\ state' = [state EXCEPT !["rd1"] = "NOT_CREATED"]
  /\ Goto("rd1", "done")
  /\ UNCHANGED <<rdPause, lock, verdict, env>>

\* rd_1_thread_state = EXITING_THREAD
Rd1Exiting ==
  /\ Running
  /\ pc["rd1"] = "exiting"
  /\ state' = [state EXCEPT !["rd1"] = "EXITING"]
  /\ Goto("rd1", "done")
  /\ UNCHANGED <<rdPause, lock, verdict, env>>

(***************************************************************************)
(* fn_wr                                                                   *)
(***************************************************************************)
\* wr_thread_state = ENTERED_THREAD; pthread_rwlock_wrlock(&rwlock)
WrLock ==
  /\ Running
  /\ pc["wr"] = "wrlock"
  /\ state' = [state EXCEPT !["wr"] = "ENTERED"]
  /\ \/ /\ CanWrite
        /\ writer' = "wr"
        /\ Goto("wr", "check")
        /\ UNCHANGED <<readers, wrWaiting, rdWaiting>>
     \/ /\ ~CanWrite
        /\ wrWaiting' = wrWaiting \cup {"wr"}
        /\ Goto("wr", "wrblocked")
        /\ UNCHANGED <<readers, writer, rdWaiting>>
  /\ UNCHANGED <<rdPause, verdict, env>>

\* "if (rd_2_thread_state == EXITING_THREAD)" once the writer holds the lock.
WrCheckFails == state["rd2"] = "EXITING"

\* The writer's check, then pthread_rwlock_unlock.
WrCheckUnlock ==
  /\ Running
  /\ pc["wr"] = "check"
  /\ \/ /\ WrCheckFails
        /\ Exit("FAIL")
     \/ /\ ~WrCheckFails
        /\ Unlock("wr")
        /\ Goto("wr", "exiting")
        /\ UNCHANGED <<state, rdPause, verdict, env>>

\* wr_thread_state = EXITING_THREAD, after the unlock.
WrExiting ==
  /\ Running
  /\ pc["wr"] = "exiting"
  /\ state' = [state EXCEPT !["wr"] = "EXITING"]
  /\ Goto("wr", "done")
  /\ UNCHANGED <<rdPause, lock, verdict, env>>

(***************************************************************************)
(* fn_rd_2                                                                 *)
(***************************************************************************)
\* rd_2_thread_state = ENTERED_THREAD
Rd2Enter ==
  /\ Running
  /\ pc["rd2"] = "trylock"
  /\ state' = [state EXCEPT !["rd2"] = "ENTERED"]
  /\ Goto("rd2", "try")
  /\ UNCHANGED <<rdPause, lock, verdict, env>>

\* ret = pthread_rwlock_tryrdlock(&rwlock): 0 is a failure of the test
\* (the writer is still waiting), EBUSY is what it expects.
Rd2TryLock ==
  /\ Running
  /\ pc["rd2"] = "try"
  /\ \/ /\ CanRead
        /\ readers' = readers \cup {"rd2"}
        /\ verdict' = "FAIL"
        /\ UNCHANGED <<pc, state, rdPause, writer, wrWaiting, rdWaiting, env>>
     \/ /\ ~CanRead
        /\ Goto("rd2", "release")
        /\ UNCHANGED <<state, rdPause, lock, verdict, env>>

\* Mutant: reader 2 never lets reader 1 go.
Rd2ReleaseForgotten ==
  /\ Running
  /\ pc["rd2"] = "release"
  /\ Goto("rd2", "rdlock")
  /\ UNCHANGED <<state, rdPause, lock, verdict, env>>

\* rd_1_pause = FALSE
Rd2Release ==
  /\ Running
  /\ pc["rd2"] = "release"
  /\ rdPause' = FALSE
  /\ Goto("rd2", "rdlock")
  /\ UNCHANGED <<state, lock, verdict, env>>

\* pthread_rwlock_rdlock(&rwlock)
Rd2Lock ==
  /\ Running
  /\ pc["rd2"] = "rdlock"
  /\ RdLock("rd2", "check")
  /\ UNCHANGED <<state, rdPause, verdict, env>>

\* "if (wr_thread_state != EXITING_THREAD)" once reader 2 holds the lock.
Rd2CheckFails == state["wr"] # "EXITING"

\* Reader 2's check, then pthread_rwlock_unlock.
Rd2CheckUnlock ==
  /\ Running
  /\ pc["rd2"] = "check"
  /\ \/ /\ Rd2CheckFails
        /\ Exit("FAIL")
     \/ /\ ~Rd2CheckFails
        /\ Unlock("rd2")
        /\ Goto("rd2", "exiting")
        /\ UNCHANGED <<state, rdPause, verdict, env>>

\* rd_2_thread_state = EXITING_THREAD
Rd2Exiting ==
  /\ Running
  /\ pc["rd2"] = "exiting"
  /\ state' = [state EXCEPT !["rd2"] = "EXITING"]
  /\ Goto("rd2", "done")
  /\ UNCHANGED <<rdPause, lock, verdict, env>>

(***************************************************************************)
(* Platform: a blocked thread gets the lock once it is grantable.          *)
(***************************************************************************)
RdWakeup(t, next) ==
  /\ Running
  /\ t \in rdWaiting
  /\ CanRead
  /\ readers' = readers \cup {t}
  /\ rdWaiting' = rdWaiting \ {t}
  /\ Goto(t, next)
  /\ UNCHANGED <<state, rdPause, writer, wrWaiting, verdict, env>>

WrWakeup ==
  /\ Running
  /\ "wr" \in wrWaiting
  /\ CanWrite
  /\ writer' = "wr"
  /\ wrWaiting' = wrWaiting \ {"wr"}
  /\ Goto("wr", "check")
  /\ UNCHANGED <<state, rdPause, readers, rdWaiting, verdict, env>>

\* After exit() nothing changes any more.
Exited ==
  /\ ~Running
  /\ UNCHANGED vars

Init ==
  /\ pc = [t \in Threads |-> IF t = "main" THEN "create_rd1" ELSE "unborn"]
  /\ state = [t \in Workers |-> "ZERO"]   \* static ints, never set to NOT_CREATED_THREAD
  /\ rdPause = FALSE
  /\ readers = {}
  /\ writer = NoWriter
  /\ wrWaiting = {}
  /\ rdWaiting = {}
  /\ verdict = "none"
  /\ kind \in LockKinds
  /\ sleptEnough \in SleepCases

MainStep ==
  \/ MainCreateRd1 \/ MainCreateWr \/ MainCreateRd2
  \/ MainJoin("rd1", "join_wr") \/ MainJoin("wr", "join_rd2") \/ MainJoin("rd2", "exited")

Rd1Step == Rd1Lock \/ RdWakeup("rd1", "pause") \/ Rd1Pause \/ Rd1Spin \/ Rd1Unlock \/ Rd1Exiting
WrStep  == WrLock \/ WrWakeup \/ WrCheckUnlock \/ WrExiting
Rd2Step == Rd2Enter \/ Rd2TryLock \/ Rd2Release \/ Rd2Lock \/ RdWakeup("rd2", "check")
           \/ Rd2CheckUnlock \/ Rd2Exiting

Next == MainStep \/ Rd1Step \/ WrStep \/ Rd2Step \/ Exited

\* Default-scheduled threads on an SMP machine: a thread that can run
\* eventually does.
Fairness ==
  /\ WF_vars(MainStep) /\ WF_vars(Rd1Step) /\ WF_vars(WrStep) /\ WF_vars(Rd2Step)

Spec == Init /\ [][Next]_vars /\ Fairness

-----------------------------------------------------------------------------
TypeOK ==
  /\ pc \in [Threads -> {"create_rd1", "create_wr", "create_rd2", "join_rd1",
                         "join_wr", "join_rd2", "exited", "unborn", "rdlock",
                         "rdblocked", "pause", "spin", "exiting", "done",
                         "wrlock", "wrblocked", "check", "trylock", "try",
                         "release"}]
  /\ state \in [Workers -> {"ZERO", "ENTERED", "EXITING"}]
  /\ rdPause \in BOOLEAN
  /\ readers \subseteq Workers
  /\ writer \in Workers \cup {NoWriter}
  /\ wrWaiting \subseteq Workers /\ rdWaiting \subseteq Workers
  /\ verdict \in {"none", "PASS", "FAIL"}
  /\ kind \in LockKinds /\ sleptEnough \in BOOLEAN

\* When the sleeps last as long as their comments assume, the test only
\* passes a lock that prefers writers: with a lock that lets readers in
\* while a writer waits, reader 2's tryrdlock or its check of
\* wr_thread_state catches it.  (Without that timing the writer may take
\* the lock before reader 1 does, and then any lock passes.)
PassImpliesWriterPreferred ==
  sleptEnough /\ verdict = "PASS" => kind = "prefer_writer"

\* When the sleeps last as long as their comments assume, the test always
\* ends: the rd_1_pause handshake between reader 2 and the spinning reader 1
\* cannot be lost, and no thread stays blocked on the lock.
Termination == sleptEnough => <>(verdict # "none")

\* A writer-preferring lock and long enough sleeps never make the test
\* report FAIL: the steps in the header comment are the only order.
NoFalseFailure == kind = "prefer_writer" /\ sleptEnough => verdict # "FAIL"
=============================================================================
