---------------------------- MODULE MqOpenExcl ----------------------------
(***************************************************************************)
(* conformance/interfaces/mq_open/16-1.c: mq_open(O_CREAT|O_EXCL) must be *)
(* atomic.  The parent forks; the child blocks SIGUSR1 and sigwaits for   *)
(* it; the parent sleeps, sends SIGUSR1 and both call mq_open on the same  *)
(* name.  Each counts its own success in `succeeded`, a local of main      *)
(* that fork copied, so the parent only ever sees its own count.           *)
(*                                                                         *)
(* Platform: `atomic` says whether mq_open's existence check and creation  *)
(* are one step; when they are not, both processes may pass the check      *)
(* before either creates the queue.  `sleptEnough` says whether sleep(1)   *)
(* lets the child block SIGUSR1 before the parent's kill.                  *)
(***************************************************************************)
EXTENDS Naturals, FiniteSets

CONSTANTS
  AtomicCases,  \* subset of BOOLEAN: is O_CREAT|O_EXCL atomic?
  SleepCases    \* subset of BOOLEAN: does sleep(1) outlast the child's setup?

ASSUME AtomicCases \subseteq BOOLEAN /\ AtomicCases # {}
ASSUME SleepCases \subseteq BOOLEAN /\ SleepCases # {}

Procs == {"parent", "child"}

VARIABLES
  pc,         \* program counters of the parent and the child
  succeeded,  \* each process's own copy of `succeeded`
  blocked,    \* SIGUSR1 is in the child's blocked mask
  pending,    \* SIGUSR1 is pending for the child
  exists,     \* the queue qname exists
  verdict,    \* the parent's return code, "none" before it returns
  atomic, sleptEnough,
  creators    \* history: processes whose mq_open created the queue

env  == <<atomic, sleptEnough>>
vars == <<pc, succeeded, blocked, pending, exists, verdict, env, creators>>

Goto(p, label) == pc' = [pc EXCEPT ![p] = label]

(***************************************************************************)
(* mq_open(qname, O_CREAT|O_EXCL|O_RDWR, ...) by p, then `next`.  Atomic:  *)
(* one step that fails with EEXIST or creates.  Not atomic: an existence   *)
(* check ("open") and a later creation ("create") that trusts it.          *)
(***************************************************************************)
OpenFails(p, next) ==
  /\ exists
  /\ Goto(p, next)
  /\ UNCHANGED <<succeeded, exists, creators>>

\* mq_open returned a descriptor: succeeded++ in p's own address space.
Created(p, next) ==
  /\ exists' = TRUE
  /\ succeeded' = [succeeded EXCEPT ![p] = @ + 1]
  /\ creators' = creators \cup {p}
  /\ Goto(p, next)

MqOpen(p, next) ==
  /\ pc[p] = "open"
  /\ \/ OpenFails(p, next)
     \/ /\ ~exists
        /\ \/ /\ atomic
              /\ Created(p, next)
           \/ /\ ~atomic
              /\ Goto(p, "create")
              /\ UNCHANGED <<succeeded, exists, creators>>
  /\ UNCHANGED <<blocked, pending, verdict, env>>

MqCreate(p, next) ==
  /\ pc[p] = "create"
  /\ Created(p, next)
  /\ UNCHANGED <<blocked, pending, verdict, env>>

(***************************************************************************)
(* child                                                                   *)
(***************************************************************************)
\* sigemptyset; sigaddset(SIGUSR1); sigprocmask(SIG_BLOCK, ...)
ChildBlock ==
  /\ pc["child"] = "block"
  /\ blocked' = TRUE
  /\ Goto("child", "sigwait")
  /\ UNCHANGED <<succeeded, pending, exists, verdict, env, creators>>

\* sigwait(&mask, &sig) returns once SIGUSR1 is pending, consuming it.
ChildSigwait ==
  /\ pc["child"] = "sigwait"
  /\ pending
  /\ pending' = FALSE
  /\ Goto("child", "open")
  /\ UNCHANGED <<succeeded, blocked, exists, verdict, env, creators>>

(***************************************************************************)
(* parent                                                                  *)
(***************************************************************************)
\* sleep(1); kill(pid, SIGUSR1).  A SIGUSR1 the child has not blocked yet
\* takes its default action and terminates the child.
ParentKill ==
  /\ pc["parent"] = "kill"
  /\ sleptEnough => blocked
  /\ IF blocked
       THEN /\ pending' = TRUE
            /\ Goto("parent", "open")
       ELSE /\ pc' = [pc EXCEPT !["parent"] = "open", !["child"] = "exited"]
            /\ UNCHANGED pending
  /\ UNCHANGED <<succeeded, blocked, exists, verdict, env, creators>>

\* if (succeeded==0) FAIL; if (succeeded>1) FAIL; else PASS
ParentVerdict ==
  CASE succeeded["parent"] = 0 -> "FAIL"
    [] succeeded["parent"] > 1 -> "FAIL"
    [] OTHER                   -> "PASS"

\* wait(&i) for the child; mq_close both descriptors, mq_unlink(qname);
\* then the verdict on the parent's own `succeeded`.
ParentWait ==
  /\ pc["parent"] = "wait"
  /\ pc["child"] = "exited"
  /\ exists' = FALSE
  /\ verdict' = ParentVerdict
  /\ Goto("parent", "exited")
  /\ UNCHANGED <<succeeded, blocked, pending, env, creators>>

\* After both processes are gone nothing changes.
Exited ==
  /\ pc = [p \in Procs |-> "exited"]
  /\ UNCHANGED vars

Init ==
  /\ pc = [parent |-> "kill", child |-> "block"]
  /\ succeeded = [p \in Procs |-> 0]
  /\ blocked = FALSE
  /\ pending = FALSE
  /\ exists = FALSE
  /\ verdict = "none"
  /\ atomic \in AtomicCases
  /\ sleptEnough \in SleepCases
  /\ creators = {}

ChildStep ==
  ChildBlock \/ ChildSigwait \/ MqOpen("child", "exited") \/ MqCreate("child", "exited")

ParentStep ==
  ParentKill \/ MqOpen("parent", "wait") \/ MqCreate("parent", "wait") \/ ParentWait

Next == ChildStep \/ ParentStep \/ Exited

\* Two processes, each runs when it can.
Fairness == WF_vars(ChildStep) /\ WF_vars(ParentStep)

Spec == Init /\ [][Next]_vars /\ Fairness

-----------------------------------------------------------------------------
TypeOK ==
  /\ pc \in [Procs -> {"block", "sigwait", "kill", "open", "create", "wait",
                       "exited"}]
  /\ succeeded \in [Procs -> 0..1]
  /\ blocked \in BOOLEAN /\ pending \in BOOLEAN /\ exists \in BOOLEAN
  /\ verdict \in {"none", "PASS", "FAIL"}
  /\ creators \subseteq Procs

\* What the checks at lines 102-110 are for, "mq_open() never succeeded"
\* and "mq_open() succeeded twice": the test fails exactly when the queue
\* was not created by exactly one of the two processes.  On an atomic
\* mq_open this is also the header's promise of no false negatives.
VerdictMatchesCreations ==
  verdict # "none" => (verdict = "FAIL" <=> Cardinality(creators) # 1)
====
