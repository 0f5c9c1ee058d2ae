------------------------------ MODULE AsyncScope ------------------------------
(* async_scope of include/ptl/experimental/coroutine/async_scope.hpp: works   *)
(* are spawned into a scope by its owner and by other works, and the owner    *)
(* joins them before it destroys the scope. A work runs from spawn() on until *)
(* it first suspends and then wherever it is resumed; the model lets it run   *)
(* freely from the start, which includes both.                                *)
EXTENDS Naturals, FiniteSets

CONSTANTS Works,    \* every spawn() ever made; bounds them
          NoWork    \* the one who spawns is the owner

ASSUME NoWorkAssumption == NoWork \notin Works

VARIABLES
    scopeCount,         \* count_
    scopeContinuation,  \* continuation_ has been set
    owner,              \* open, stored, suspended, joined, gone
    work,               \* where each work is
    spawner,            \* the work whose body made the spawn, or NoWork
    joins               \* join()s completed by the owner, at most 2

scopeVars == <<scopeCount, scopeContinuation, owner, work, spawner, joins>>

\* starting: on_work_started has not been called; adding: its assert passed
\* finishing: SCOPE_EXIT; last: fetch_sub saw 1; ended: nothing more to do
\* with the scope
WorkStates == {"none", "starting", "adding", "running", "suspended",
               "finishing", "last", "ended"}

ScopeTypeOK ==
    /\ scopeCount \in Nat
    /\ scopeContinuation \in BOOLEAN
    /\ owner \in {"open", "stored", "suspended", "joined", "gone"}
    /\ work \in [Works -> WorkStates]
    /\ spawner \in [Works -> Works \cup {NoWork}]
    /\ joins \in 0 .. 2

ScopeInit ==
    /\ scopeCount = 1
    /\ scopeContinuation = FALSE
    /\ owner = "open"
    /\ work = [w \in Works |-> "none"]
    /\ spawner = [w \in Works |-> NoWork]
    /\ joins = 0

-----------------------------------------------------------------------------
(* spawn *)

\* The spawner is inside spawn() at least until the work has counted itself:
\* the work runs on its thread so far.
Spawning(s) == \E w \in Works : spawner[w] = s /\ work[w] \in {"starting", "adding"}

\* spawn(): the oneway_task does not suspend at its start.
Spawn(w, s) ==
    /\ work[w] = "none" /\ ~Spawning(s)
    /\ IF s = NoWork THEN owner = "open" ELSE work[s] = "running"
    /\ work' = [work EXCEPT ![w] = "starting"]
    /\ spawner' = [spawner EXCEPT ![w] = s]
    /\ UNCHANGED <<scopeCount, scopeContinuation, owner, joins>>

\* on_work_started(): assert(count_.load() != 0)
AssertCount(w) ==
    /\ work[w] = "starting"
    /\ work' = [work EXCEPT ![w] = "adding"]
    /\ UNCHANGED <<scopeCount, scopeContinuation, owner, spawner, joins>>

\* Mutant. The work is not counted.
AddCount_mut(w) ==
    /\ work[w] = "adding"
    /\ work' = [work EXCEPT ![w] = "running"]
    /\ spawner' = [spawner EXCEPT ![w] = NoWork]
    /\ UNCHANGED <<scopeCount, scopeContinuation, owner, joins>>

\* on_work_started(): count_.fetch_add(1)
AddCount(w) ==
    /\ work[w] = "adding"
    /\ scopeCount' = scopeCount + 1
    /\ work' = [work EXCEPT ![w] = "running"]
    /\ spawner' = [spawner EXCEPT ![w] = NoWork]
    /\ UNCHANGED <<scopeContinuation, owner, joins>>

-----------------------------------------------------------------------------
(* A work *)

\* co_await std::move(awaitable)
SuspendWork(w) ==
    /\ work[w] = "running" /\ ~Spawning(w)
    /\ work' = [work EXCEPT ![w] = "suspended"]
    /\ UNCHANGED <<scopeCount, scopeContinuation, owner, spawner, joins>>

ResumeWork(w) ==
    /\ work[w] = "suspended"
    /\ work' = [work EXCEPT ![w] = "running"]
    /\ UNCHANGED <<scopeCount, scopeContinuation, owner, spawner, joins>>

\* The body leaves its scope, and SCOPE_EXIT calls on_work_finished.
FinishWork(w) ==
    /\ work[w] = "running" /\ ~Spawning(w)
    /\ work' = [work EXCEPT ![w] = "finishing"]
    /\ UNCHANGED <<scopeCount, scopeContinuation, owner, spawner, joins>>

\* Mutant. The value after the subtraction is compared, not the one before.
WorkFinished_mut(w) ==
    /\ work[w] = "finishing"
    /\ scopeCount' = scopeCount - 1
    /\ work' = [work EXCEPT ![w] = IF scopeCount' = 1 THEN "last" ELSE "ended"]
    /\ UNCHANGED <<scopeContinuation, owner, spawner, joins>>

\* on_work_finished(): if (count_.fetch_sub(1) == 1)
WorkFinished(w) ==
    /\ work[w] = "finishing"
    /\ scopeCount' = scopeCount - 1
    /\ work' = [work EXCEPT ![w] = IF scopeCount = 1 THEN "last" ELSE "ended"]
    /\ UNCHANGED <<scopeContinuation, owner, spawner, joins>>

\* on_work_finished(): continuation_.resume()
ResumeOwner(w) ==
    /\ work[w] = "last"
    /\ work' = [work EXCEPT ![w] = "ended"]
    /\ owner' = "joined"
    /\ joins' = joins + 1
    /\ UNCHANGED <<scopeCount, scopeContinuation, spawner>>

-----------------------------------------------------------------------------
(* join, and the destructor *)

\* await_ready() is false; await_suspend: continuation_ = continuation
JoinStore ==
    /\ owner = "open" /\ scopeCount # 0 /\ ~Spawning(NoWork)
    /\ scopeContinuation' = TRUE
    /\ owner' = "stored"
    /\ UNCHANGED <<scopeCount, work, spawner, joins>>

\* await_suspend: return count_.fetch_sub(1) > 1
JoinSub ==
    /\ owner = "stored"
    /\ scopeCount' = scopeCount - 1
    /\ owner' = IF scopeCount > 1 THEN "suspended" ELSE "joined"
    /\ joins' = IF scopeCount > 1 THEN joins ELSE joins + 1
    /\ UNCHANGED <<scopeContinuation, work, spawner>>

\* A second join() on a scope that was joined: await_ready() sees 0.
JoinAgain ==
    /\ owner = "joined" /\ joins = 1 /\ scopeCount = 0
    /\ joins' = joins + 1
    /\ UNCHANGED <<scopeCount, scopeContinuation, owner, work, spawner>>

\* ~async_scope() of an owner that joined.
Destroy ==
    /\ owner = "joined"
    /\ owner' = "gone"
    /\ UNCHANGED <<scopeCount, scopeContinuation, work, spawner, joins>>

WorkStep(w) ==
    \/ AssertCount(w) \/ AddCount(w)
    \/ SuspendWork(w) \/ ResumeWork(w) \/ FinishWork(w)
    \/ WorkFinished(w) \/ ResumeOwner(w)

OwnerStep == JoinStore \/ JoinSub \/ JoinAgain \/ Destroy

ScopeNext ==
    \/ \E w \in Works, s \in Works \cup {NoWork} : Spawn(w, s)
    \/ \E w \in Works : WorkStep(w)
    \/ OwnerStep

ScopeSpec == ScopeInit /\ [][ScopeNext]_scopeVars

-----------------------------------------------------------------------------
\* The assert of on_work_started holds, also while the owner is waiting: who
\* spawns still has a share in the count. Once the owner goes on no work touches
\* the scope any more, and the assert of the destructor holds
\* (async_scope.hpp:20, 101).
ScopeQuietAfterJoin ==
    /\ \A w \in Works : work[w] \in {"starting", "adding"} => scopeCount # 0
    /\ owner \in {"joined", "gone"} =>
           /\ scopeContinuation /\ scopeCount = 0
           /\ \A w \in Works : work[w] \in {"none", "ended"}

pendingWorks == {w \in Works : work[w] \in {"running", "suspended", "finishing"}}

joiningOwner ==
    CASE owner = "open" -> "open"
      [] owner \in {"stored", "suspended"} -> "waiting"
      [] owner \in {"joined", "gone"} -> "continued"

ScopeJoin == INSTANCE Join WITH Work <- Works, pending <- pendingWorks, joiner <- joiningOwner

\* The scope is a join of everything spawned into it, and the owner does
\* continue when all of it has ended.
ScopeImplementsJoin == ScopeJoin!JoinSpec
=============================================================================
