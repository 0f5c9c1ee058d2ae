---------------------------- MODULE QueuedExecutor ----------------------------
(* QueuedExecutor of include/ptl/execution/basic_executor.hpp: a queue of    *)
(* functions under a mutex, a condition variable and a stop flag. The body   *)
(* of every critical section is one action; the notify_one that add and stop *)
(* make after unlocking is a second one, so that anything may come between.  *)
(* A job may itself call add or stop.                                        *)
EXTENDS Naturals, Sequences, FiniteSets

CONSTANTS Runners,  \* threads that call run()
          Clients,  \* threads that only call add() and stop()
          Jobs,     \* each function is added at most once; bounds add() calls
          NoJob     \* the function object of a runner outside a job

ASSUME NoJobAssumption == NoJob \notin Jobs
ASSUME ThreadsAssumption == Runners \cap Clients = {}

VARIABLES
    work,       \* work_
    finished,   \* finished_
    pc,         \* where a runner is: outside, wait, asleep, job, returned
    alive,      \* the executor has not been destroyed
    job,        \* fn of each runner, or NoJob
    notifying,  \* threads inside add or stop, between the unlock and notify_one
    added,      \* history: the jobs in the order in which they entered work_
    started,    \* history: the jobs in the order in which run() took them
    ended,      \* history: the jobs whose call has returned
    before      \* history: the jobs added before stop() was first called

vars == <<work, finished, alive, pc, job, notifying, added, started, ended, before>>

Threads == Runners \cup Clients
Elements(s) == {s[i] : i \in 1 .. Len(s)}

TypeOK ==
    /\ work \in Seq(Jobs)
    /\ finished \in BOOLEAN
    /\ alive \in BOOLEAN
    /\ pc \in [Runners -> {"outside", "wait", "asleep", "job", "returned"}]
    /\ job \in [Runners -> Jobs \cup {NoJob}]
    /\ \A r \in Runners : job[r] \in Jobs <=> pc[r] = "job"
    /\ notifying \subseteq Threads
    /\ added \in Seq(Jobs) /\ started \in Seq(Jobs)
    /\ ended \subseteq Jobs /\ before \subseteq Jobs

Init ==
    /\ work = <<>>
    /\ finished = FALSE
    /\ alive = TRUE
    /\ pc = [r \in Runners |-> "outside"]
    /\ job = [r \in Runners |-> NoJob]
    /\ notifying = {}
    /\ added = <<>> /\ started = <<>>
    /\ ended = {} /\ before = {}

\* A client calls at any time, a runner from inside a job.
MayCall(t) ==
    /\ alive
    /\ t \notin notifying
    /\ t \in Clients \/ (t \in Runners /\ pc[t] = "job")

-----------------------------------------------------------------------------
(* add and stop *)

\* synchronize(lock_, work_.push(fn))
Add(t, j) ==
    /\ MayCall(t)
    /\ j \notin Elements(added)
    /\ work' = Append(work, j)
    /\ added' = Append(added, j)
    /\ notifying' = notifying \cup {t}
    /\ UNCHANGED <<alive, finished, pc, job, started, ended, before>>

\* Mutant. stop() without its notify_one.
Stop_mut(t) ==
    /\ MayCall(t)
    /\ finished' = TRUE
    /\ before' = IF finished THEN before ELSE Elements(added)
    /\ UNCHANGED <<alive, work, pc, job, notifying, added, started, ended>>

\* synchronize(lock_, finished_ = true), at the first call and at any later one
Stop(t) ==
    /\ MayCall(t)
    /\ finished' = TRUE
    /\ before' = IF finished THEN before ELSE Elements(added)
    /\ notifying' = notifying \cup {t}
    /\ UNCHANGED <<alive, work, pc, job, added, started, ended>>

\* Mutant. The notification is skipped while other work is queued.
NotifyOne_mut(t) ==
    /\ t \in notifying
    /\ notifying' = notifying \ {t}
    /\ \/ \E r \in Runners :
             /\ pc[r] = "asleep" /\ Len(work) <= 1
             /\ pc' = [pc EXCEPT ![r] = "wait"]
       \/ /\ Len(work) > 1 \/ \A r \in Runners : pc[r] # "asleep"
          /\ UNCHANGED pc
    /\ UNCHANGED <<alive, work, finished, job, added, started, ended, before>>

\* cv_.notify_one() wakes one sleeper, if there is one, and the call returns.
NotifyOne(t) ==
    /\ t \in notifying
    /\ notifying' = notifying \ {t}
    /\ \/ \E r \in Runners :
             /\ pc[r] = "asleep"
             /\ pc' = [pc EXCEPT ![r] = "wait"]
       \/ /\ \A r \in Runners : pc[r] # "asleep"
          /\ UNCHANGED pc
    /\ UNCHANGED <<alive, work, finished, job, added, started, ended, before>>

-----------------------------------------------------------------------------
(* run *)

Run(r) ==
    /\ alive /\ pc[r] = "outside"
    /\ pc' = [pc EXCEPT ![r] = "wait"]
    /\ UNCHANGED <<alive, work, finished, job, notifying, added, started, ended, before>>

\* cv_.wait finds its predicate false: it unlocks and sleeps in one step.
Sleep(r) ==
    /\ pc[r] = "wait"
    /\ ~finished /\ work = <<>>
    /\ pc' = [pc EXCEPT ![r] = "asleep"]
    /\ UNCHANGED <<alive, work, finished, job, notifying, added, started, ended, before>>

\* The condition variable wakes without a notification.
SpuriousWakeup(r) ==
    /\ pc[r] = "asleep"
    /\ pc' = [pc EXCEPT ![r] = "wait"]
    /\ UNCHANGED <<alive, work, finished, job, notifying, added, started, ended, before>>

\* fn = work_.front(); work_.pop(); and the call of fn begins.
Take(r) ==
    /\ pc[r] = "wait"
    /\ work # <<>>
    /\ job' = [job EXCEPT ![r] = Head(work)]
    /\ work' = Tail(work)
    /\ started' = Append(started, Head(work))
    /\ pc' = [pc EXCEPT ![r] = "job"]
    /\ UNCHANGED <<alive, finished, notifying, added, ended, before>>

\* fn() returns, and the loop goes round.
JobEnds(r) ==
    /\ pc[r] = "job" /\ r \notin notifying
    /\ ended' = ended \cup {job[r]}
    /\ job' = [job EXCEPT ![r] = NoJob]
    /\ pc' = [pc EXCEPT ![r] = "wait"]
    /\ UNCHANGED <<alive, work, finished, notifying, added, started, before>>

\* Mutant. run() returns as soon as it sees the flag.
Return_mut(r) ==
    /\ pc[r] = "wait"
    /\ finished
    /\ pc' = [pc EXCEPT ![r] = "returned"]
    /\ UNCHANGED <<alive, work, finished, job, notifying, added, started, ended, before>>

\* if (work_.empty() && finished_) return;
Return(r) ==
    /\ pc[r] = "wait"
    /\ finished /\ work = <<>>
    /\ pc' = [pc EXCEPT ![r] = "returned"]
    /\ UNCHANGED <<alive, work, finished, job, notifying, added, started, ended, before>>

\* The owner destroys the executor once run() has returned: the tests keep it
\* on the stack of the thread that runs it (task_ut.cpp:13-19).
Destroy ==
    /\ alive
    /\ \A r \in Runners : pc[r] = "returned"
    /\ alive' = FALSE
    /\ UNCHANGED <<work, finished, pc, job, notifying, added, started, ended, before>>

RunnerStep(r) == Run(r) \/ Sleep(r) \/ Take(r) \/ JobEnds(r) \/ Return(r)

Next ==
    \/ Destroy
    \/ \E t \in Threads :
          \/ \E j \in Jobs : Add(t, j)
          \/ Stop(t)
          \/ NotifyOne(t)
    \/ \E r \in Runners : RunnerStep(r) \/ SpuriousWakeup(r)

Spec == Init /\ [][Next]_vars

\* The threads that called run, add and stop are scheduled, and a job returns,
\* however often it calls stop.
FairSpec ==
    /\ Spec
    /\ \A r \in Runners : WF_vars(RunnerStep(r)) /\ SF_vars(JobEnds(r))
    /\ \A t \in Threads : WF_vars(NotifyOne(t))

-----------------------------------------------------------------------------
\* Each function that was added is taken once and in the order of the adds,
\* however many threads add and run (basic_executor.hpp:46-47, 55-57).
OnceAndInOrder == started \o work = added

\* When there is something to do, not every thread in run() sleeps, unless a
\* notify_one is still to come (basic_executor.hpp:58, 65 notify after the
\* unlock).
NoLostWakeup ==
    /\ finished \/ work # <<>>
    /\ \E r \in Runners : pc[r] = "asleep"
    /\ \A r \in Runners : pc[r] \in {"outside", "asleep"}
    => notifying # {}

\* A thread returns from run() only when every function that was added before
\* stop() has been taken, and, when it is the only runner, has returned.
DrainedAtReturn ==
    \A r \in Runners :
        pc[r] = "returned" =>
            /\ before \subseteq Elements(started)
            /\ Runners = {r} => before \subseteq ended

\* What is added is taken in order, and all of it that was added before stop()
\* is, by threads that add, run and stop at once (basic_executor.hpp:40-66).
RunsAllInOrder == OnceAndInOrder /\ DrainedAtReturn

-----------------------------------------------------------------------------
\* What was added before stop() is eventually run, however many threads run and
\* sleep (basic_executor.hpp:40, 58).
AddedIsRun ==
    \A j \in Jobs : j \in Elements(added) /\ ~finished ~> j \in ended

\* stop() makes run() return in one thread; in all of them where there is one, the
\* way the tests use the executor (task_ut.cpp:13-19, basic_executor.hpp:65).
StopEndsRun ==
    finished ~> \E r \in Runners : pc[r] = "returned"
=============================================================================
