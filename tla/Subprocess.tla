------------------------------ MODULE Subprocess ------------------------------
(* subprocess of process/process.hpp and the process notifications of         *)
(* src/io_service.cpp: coroutines on one thread that each launch a child,     *)
(* read its output and wait for its end, before and while the thread runs     *)
(* the loop.                                                                  *)
(*                                                                            *)
(* The kernel and libev are external: children write and exit at any time;    *)
(* the loop reaps one child at a time and calls ev_process_change for each.   *)
(* Process ids are not used again, so an owner names its child's, too. An     *)
(* owner whose launch failed does not wait: its ps_data_.pid is not set.      *)
EXTENDS Naturals, Sequences, FiniteSets, FiniteSetsExt

CONSTANTS Owners,     \* each owns one subprocess object
          Space,      \* of a pipe, in writes
          MaxWrites,  \* bounds what a child writes
          None

ASSUME PipeAssumption == Space \in Nat \ {0} /\ MaxWrites \in Nat
ASSUME NoneAssumption == None \notin Owners

VARIABLES
    body,       \* unstarted, running, reading, waiting, elsewhere, done
    launched,   \* what launch() came to: no, ok, failed
    fds,        \* descriptors of the pipes that the parent has open
    members,    \* those that read_pipe_ and write_pipe_ hold
    pid, rc,    \* ps_data_
    watchers,   \* process_watchers_, as the owners of the data
    eof,        \* a read returned 0
    child, status, unread, written, \* kernel: the child and its output pipe
    running, loop                   \* running_; start, run, ended

objectVars == <<launched, fds, members, pid>>
kernelVars == <<child, status, unread, written>>
loopVars == <<running, loop>>
vars == <<body, objectVars, rc, watchers, eof, kernelVars, loopVars>>

Stdin == {"stdin0", "stdin1"}
Stdout == {"stdout0", "stdout1"}
Outcomes == {"pipe1", "pipe2", "fork", "ok"}  \* where launch() fails, or not

TypeOK ==
    /\ body \in [Owners -> {"unstarted", "running", "reading", "waiting", "elsewhere", "done"}]
    /\ launched \in [Owners -> {"no", "ok", "failed"}]
    /\ fds \in [Owners -> SUBSET (Stdin \cup Stdout)]
    /\ members \in [Owners -> SUBSET (Stdin \cup Stdout)]
    /\ pid \in [Owners -> Owners \cup {None}]
    /\ rc \in [Owners -> {0, 1, None}]
    /\ watchers \in Seq(Owners)
    /\ eof \in [Owners -> BOOLEAN]
    /\ child \in [Owners -> {"none", "running", "exited", "reaped"}]
    /\ status \in [Owners -> {0, 1}]
    /\ unread \in [Owners -> 0 .. Space]
    /\ written \in [Owners -> 0 .. MaxWrites]
    /\ running \in BOOLEAN
    /\ loop \in {"start", "run", "ended"}

Init ==
    /\ body = [o \in Owners |-> "unstarted"]
    /\ launched = [o \in Owners |-> "no"]
    /\ fds = [o \in Owners |-> {}]
    /\ members = [o \in Owners |-> {}]
    /\ pid = [o \in Owners |-> None]
    /\ rc = [o \in Owners |-> None]
    /\ watchers = <<>>
    /\ eof = [o \in Owners |-> FALSE]
    /\ child = [o \in Owners |-> "none"]
    /\ status = [o \in Owners |-> 0]
    /\ unread = [o \in Owners |-> 0]
    /\ written = [o \in Owners |-> 0]
    /\ running = TRUE
    /\ loop = "start"

\* No coroutine has the thread. A read blocks it.
Idle == \A o \in Owners : body[o] \notin {"running", "reading"}

-----------------------------------------------------------------------------
(* Children *)

Write(o) ==
    /\ child[o] = "running" /\ unread[o] < Space /\ written[o] < MaxWrites
    /\ unread' = [unread EXCEPT ![o] = @ + 1]
    /\ written' = [written EXCEPT ![o] = @ + 1]
    /\ UNCHANGED <<body, objectVars, rc, watchers, eof, child, status, loopVars>>

Exit(o) ==
    /\ child[o] = "running"
    /\ child' = [child EXCEPT ![o] = "exited"]
    /\ \E s \in {0, 1} : status' = [status EXCEPT ![o] = s]
    /\ UNCHANGED <<body, objectVars, rc, watchers, eof, unread, written, loopVars>>

-----------------------------------------------------------------------------
(* Owners *)

Opened(outcome) ==
    CASE outcome = "pipe1" -> {}
      [] outcome = "pipe2" -> Stdin
      [] OTHER -> Stdin \cup Stdout

\* Mutant. A failed fork closes the first pipe only.
Closed_leak(outcome) ==
    CASE outcome = "pipe1" -> {}
      [] outcome \in {"pipe2", "fork"} -> Stdin
      [] OTHER -> {"stdin1", "stdout1"}

\* Mutant. The parent keeps the end of the pipe that the child writes to.
Closed_open(outcome) ==
    CASE outcome = "pipe1" -> {}
      [] outcome = "pipe2" -> Stdin
      [] outcome = "fork" -> Stdin \cup Stdout
      [] OTHER -> {"stdin1"}

\* What the parent closes before launch() returns
Closed(outcome) ==
    CASE outcome = "pipe1" -> {}
      [] outcome = "pipe2" -> Stdin
      [] outcome = "fork" -> Stdin \cup Stdout
      [] OTHER -> {"stdin1", "stdout1"}

\* launch(): the pipes, fork, and register_process_notification
Launch(o) ==
    /\ body[o] = "running" /\ launched[o] = "no"
    /\ \E outcome \in Outcomes :
          LET ok == outcome = "ok"
          IN  /\ launched' = [launched EXCEPT ![o] = IF ok THEN "ok" ELSE "failed"]
              /\ fds' = [fds EXCEPT ![o] = Opened(outcome) \ Closed(outcome)]
              /\ members' = [members EXCEPT ![o] = IF ok THEN {"stdout0", "stdin0"} ELSE {}]
              /\ pid' = [pid EXCEPT ![o] = IF ok THEN o ELSE None]
              /\ child' = [child EXCEPT ![o] = IF ok THEN "running" ELSE "none"]
    /\ UNCHANGED <<body, rc, watchers, eof, status, unread, written, loopVars>>

\* read(): begin() calls ::read on a pipe that is not non-blocking, so there is
\* no EAGAIN, no start_io and no work().
Read(o) ==
    /\ body[o] = "running" /\ launched[o] = "ok" /\ ~eof[o]
    /\ body' = [body EXCEPT ![o] = "reading"]
    /\ UNCHANGED <<objectVars, rc, watchers, eof, kernelVars, loopVars>>

\* End of file when the child is gone and the parent has closed its copy.
WritersGone(o) == child[o] \in {"exited", "reaped"} /\ "stdout1" \notin fds[o]

ReadReturns(o) ==
    /\ body[o] = "reading"
    /\ \/ unread[o] > 0 /\ UNCHANGED eof
       \/ unread[o] = 0 /\ WritersGone(o) /\ eof' = [eof EXCEPT ![o] = TRUE]
    /\ unread' = [unread EXCEPT ![o] = IF @ > 0 THEN @ - 1 ELSE 0]
    /\ body' = [body EXCEPT ![o] = "running"]
    /\ UNCHANGED <<objectVars, rc, watchers, child, status, written, loopVars>>

\* wait(): terminated_ is never set, so begin() always calls start_notification.
Wait(o) ==
    /\ body[o] = "running" /\ launched[o] = "ok"
    /\ body' = [body EXCEPT ![o] = "waiting"]
    /\ watchers' = Append(watchers, o)
    /\ UNCHANGED <<objectVars, rc, eof, kernelVars, loopVars>>

\* The owner suspends in an awaitable of another kind, which the loop resumes.
AwaitElsewhere(o) ==
    /\ body[o] = "running"
    /\ body' = [body EXCEPT ![o] = "elsewhere"]
    /\ UNCHANGED <<objectVars, rc, watchers, eof, kernelVars, loopVars>>

\* Mutant. The destructor leaves its notification registered.
Destroy_mut(o) ==
    /\ body[o] = "running"
    /\ body' = [body EXCEPT ![o] = "done"]
    /\ fds' = [fds EXCEPT ![o] = @ \ members[o]]
    /\ UNCHANGED <<launched, members, pid, rc, watchers, eof, kernelVars, loopVars>>

\* stop_notification removes what there is of the data of one subprocess.
Without(list, o) ==
    LET kept[i \in 0 .. Len(list)] ==
            IF i = 0 THEN <<>>
            ELSE IF list[i] = o THEN kept[i - 1] ELSE Append(kept[i - 1], list[i])
    IN  kept[Len(list)]

\* ~subprocess: deregister_process_notification, and the pipes
Destroy(o) ==
    /\ body[o] = "running"
    /\ body' = [body EXCEPT ![o] = "done"]
    /\ watchers' = Without(watchers, o)
    /\ fds' = [fds EXCEPT ![o] = @ \ members[o]]
    /\ UNCHANGED <<launched, members, pid, rc, eof, kernelVars, loopVars>>

\* io_service_impl::stop, by a coroutine; it stops process_monitor_, too.
stop(o) ==
    /\ body[o] = "running" /\ running
    /\ running' = FALSE
    /\ UNCHANGED <<body, objectVars, rc, watchers, eof, kernelVars, loop>>

-----------------------------------------------------------------------------
(* The loop *)

\* The constructor of wait_all's awaitables starts the coroutines in turn.
Start(o) ==
    /\ loop = "start" /\ Idle /\ body[o] = "unstarted"
    /\ body' = [body EXCEPT ![o] = "running"]
    /\ UNCHANGED <<objectVars, rc, watchers, eof, kernelVars, loopVars>>

\* run(): ev_child_start, and while (running_)
Run ==
    /\ loop = "start" /\ \A o \in Owners : body[o] # "unstarted"
    /\ Idle
    /\ loop' = IF running THEN "run" ELSE "ended"
    /\ UNCHANGED <<body, objectVars, rc, watchers, eof, kernelVars, running>>

RunReturns ==
    /\ loop = "run" /\ Idle /\ ~running
    /\ loop' = "ended"
    /\ UNCHANGED <<body, objectVars, rc, watchers, eof, kernelVars, running>>

ResumeElsewhere(o) ==
    /\ loop = "run" /\ Idle /\ body[o] = "elsewhere"
    /\ body' = [body EXCEPT ![o] = "running"]
    /\ UNCHANGED <<objectVars, rc, watchers, eof, kernelVars, loopVars>>

Matches(o) == {i \in DOMAIN watchers : pid[watchers[i]] = o}

\* The owner of the data that ev_process_change finds for o's child
Found(o) == watchers[Min(Matches(o))]

\* ev_process_change: the first data with this process id, or nobody. work() on
\* an operation that is gone has no defined outcome, and no step.
ev_process_change(o) ==
    \/ /\ Matches(o) # {} /\ body[Found(o)] = "waiting"
       /\ rc' = [rc EXCEPT ![Found(o)] = status[o]]
       /\ body' = [body EXCEPT ![Found(o)] = "running"]
    \/ Matches(o) = {} /\ UNCHANGED <<rc, body>>

\* libev reaps a child and calls process_monitor_, which waits for any.
Reap(o) ==
    /\ loop = "run" /\ Idle /\ running /\ child[o] = "exited"
    /\ child' = [child EXCEPT ![o] = "reaped"]
    /\ ev_process_change(o)
    /\ UNCHANGED <<objectVars, watchers, eof, status, unread, written, loopVars>>

OwnerStep(o) ==
    \/ Launch(o) \/ Read(o) \/ Wait(o) \/ AwaitElsewhere(o) \/ Destroy(o) \/ stop(o)

Loop == Run \/ RunReturns \/ \E o \in Owners : Start(o)

Next ==
    \/ Loop
    \/ \E o \in Owners :
          \/ Write(o) \/ Exit(o)
          \/ OwnerStep(o) \/ ReadReturns(o) \/ ResumeElsewhere(o) \/ Reap(o)

Spec == Init /\ [][Next]_vars

\* The thread runs, owners do not block it but in read(), and each turn of the
\* loop reaps the children that have exited. Nothing is assumed of children, nor
\* of what owners await elsewhere.
FairSpec ==
    /\ Spec
    /\ WF_vars(Loop)
    /\ \A o \in Owners :
          WF_vars(OwnerStep(o)) /\ WF_vars(ReadReturns(o)) /\ SF_vars(Reap(o))

-----------------------------------------------------------------------------
\* ev_process_change reads only data of subprocesses that exist, and what it
\* finds for a child has a live operation: its owner waits in it, and the wait
\* has not returned before. wait() returns what its own child exited with, and
\* only after that (io_service.cpp:114-124, process.hpp:256-264).
NotifiesWaiter ==
    /\ \A i \in DOMAIN watchers : body[watchers[i]] # "done"
    /\ \A o \in Owners :
          child[o] \in {"running", "exited"} /\ Matches(o) # {} =>
              body[Found(o)] = "waiting"
    /\ \A o \in Owners : rc[o] # None => child[o] = "reaped" /\ rc[o] = status[o]

\* The parent has those descriptors open that a live subprocess holds, also when
\* launch() fails on the way (process.hpp:52-58, 67-71, 90-94).
DescriptorsClosed ==
    \A o \in Owners : fds[o] = IF body[o] = "done" THEN {} ELSE members[o]

\* An owner that waits for its child, or reads from it, goes on once the child
\* has exited, unless the service is stopped or another owner's read keeps the
\* thread: the notification comes, and the pipe ends.
ExitReleasesOwner ==
    \A o \in Owners :
        []<>(\A p \in Owners \ {o} : body[p] # "reading") =>
            ((child[o] = "exited" /\ body[o] \in {"waiting", "reading"})
                ~> (body[o] \notin {"waiting", "reading"} \/ ~running))
=============================================================================
