------------------------------ MODULE ScopedChild ------------------------------
(* The coroutines of test/async_io_ut.cpp:85-118 composed: a coroutine waits  *)
(* for N others by wait_all, and one of them, the server, owns an async_scope *)
(* into which it spawns, and which it joins before it ends. What WaitAll      *)
(* leaves to its children and AsyncScope to its owner meets here: the joining *)
(* owner is a suspended child, and the last work resumes that child.          *)
EXTENDS WaitAll, AsyncScope

Server == 1

ScopedInit == WaitInit /\ ScopeInit

-----------------------------------------------------------------------------
\* The server spawns.
ServerSpawns ==
    /\ child[Server] = "running"
    /\ \E w \in Works : Spawn(w, NoWork)
    /\ UNCHANGED waitVars

\* The server joins, joins again, or destroys its scope; a join that has to
\* wait suspends it.
ServerJoins ==
    /\ child[Server] = "running"
    /\ OwnerStep
    /\ IF owner' = "suspended" THEN Suspend(Server) ELSE UNCHANGED waitVars

\* It may await something else before and after, when it is not in spawn().
ServerAwaits ==
    /\ owner \in {"open", "joined"} /\ ~Spawning(NoWork)
    /\ Suspend(Server) \/ Resume(Server)
    /\ UNCHANGED scopeVars

\* The scope, a local variable, is destroyed before the coroutine ends.
ServerCompletes ==
    /\ owner = "gone"
    /\ Complete(Server)
    /\ UNCHANGED scopeVars

ServerNotifies ==
    /\ NotifyComplete(Server) \/ ResumeParent(Server)
    /\ UNCHANGED scopeVars

\* A work that resumes the owner of its scope resumes a child of wait_all.
ScopeWork(w) ==
    /\ WorkStep(w)
    /\ IF work[w] = "last" THEN Resume(Server) ELSE UNCHANGED waitVars

WorkSpawns == (\E w, s \in Works : Spawn(w, s)) /\ UNCHANGED waitVars

OtherChild(c) == c # Server /\ ChildStep(c) /\ UNCHANGED scopeVars

Parent == ParentStep /\ UNCHANGED scopeVars

ScopedNext ==
    \/ Parent
    \/ \E c \in Children : OtherChild(c)
    \/ ServerSpawns \/ ServerJoins \/ ServerAwaits \/ ServerCompletes \/ ServerNotifies
    \/ WorkSpawns
    \/ \E w \in Works : ScopeWork(w)

scopedVars == <<waitVars, scopeVars>>

ScopedSpec == ScopedInit /\ [][ScopedNext]_scopedVars

\* Threads are scheduled; what a child, the server or a work awaits comes, and
\* none of them suspends for ever without going on to its join or its end.
ScopedFairSpec ==
    /\ ScopedSpec
    /\ WF_scopedVars(Parent)
    /\ \A c \in Children \ {Server} :
           WF_scopedVars(OtherChild(c)) /\ SF_scopedVars(Complete(c) /\ OtherChild(c))
    /\ WF_scopedVars(ServerAwaits) /\ SF_scopedVars(ServerJoins)
    /\ SF_scopedVars(ServerCompletes) /\ WF_scopedVars(ServerNotifies)
    /\ \A w \in Works :
           WF_scopedVars(ScopeWork(w)) /\ SF_scopedVars(FinishWork(w) /\ ScopeWork(w))

-----------------------------------------------------------------------------
\* Both are joins, also when the owner of the scope is a child of the other: who
\* waits continues once, after all that it waits for, and does continue
\* (wait_all_counter.hpp:19-40, async_scope.hpp:85-120).
ImplementJoins == ImplementsJoin /\ ScopeImplementsJoin
=============================================================================
