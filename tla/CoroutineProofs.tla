--------------------------- MODULE CoroutineProofs ---------------------------
(* wait_all and async_scope are joins, for any number of children and works,  *)
(* and so they are when the owner of a scope is a child of a wait_all. In     *)
(* both the counter is the number of those who have not subtracted yet, the   *)
(* joiner included: whoever sees it at 1 is the last.                         *)
(*                                                                            *)
(* Coroutines go where they were asked to, are in one place at a time and     *)
(* find the result they waited for, for any clients, executors and tasks.     *)
(*                                                                            *)
(* The modules of both have no variable in common.                            *)
EXTENDS ScopedChild, TaskScheduling, FiniteSetTheorems, TLAPS

-----------------------------------------------------------------------------
(* wait_all                                                                   *)

\* Every variable of wait_all keeps its type, except that count_ might be
\* negative: CountInv says that it is not.
WaitTypes ==
    /\ count \in Int
    /\ coroutine \in BOOLEAN
    /\ parent \in {"starting", "subtracting", "suspended", "resumed", "gone"}
    /\ next \in 1 .. N + 1
    /\ inline \in 0 .. N
    /\ child \in [Children -> ChildStates]
    /\ outcome \in [Children -> {"none", "value", "error"}]

\* The children that have not subtracted yet
Unfinished == {c \in Children : child[c] \in {"created", "running", "suspended", "final"}}

\* Where the parent is, by the count and by the children
CountInv ==
    /\ count = Cardinality(Unfinished) + (IF parent \in {"starting", "subtracting"} THEN 1 ELSE 0)
    /\ coroutine <=> parent # "starting"
    /\ parent # "starting" => next = N + 1
    /\ \A c \in Children : child[c] = "created" <=> c >= next
    /\ \A c \in Children : outcome[c] # "none" <=> child[c] \in {"final", "last", "notified"}
    /\ parent \in {"resumed", "gone"} => count = 0
    /\ \A c \in Children :
           child[c] = "last" => /\ parent = "suspended" /\ count = 0
                                /\ \A d \in Children : child[d] = "last" => d = c

WaitInv == WaitTypes /\ CountInv

\* The count, when one child more has subtracted
LEMMA UnfinishedCounts ==
    /\ IsFiniteSet(Unfinished) /\ Cardinality(Unfinished) \in Nat
    /\ Cardinality(Unfinished) = 0 <=> Unfinished = {}
    /\ \A c \in Unfinished : Cardinality(Unfinished \ {c}) = Cardinality(Unfinished) - 1
  <1>1. IsFiniteSet(Children)
    BY NAssumption, FS_Interval DEF Children
  <1>2. IsFiniteSet(Unfinished)
    BY <1>1, FS_Subset DEF Unfinished
  <1> QED
    BY <1>2, FS_CardinalityType, FS_EmptySet, FS_RemoveElement

\* The counter counts in every state of wait_all.
THEOREM WaitInvHolds == WaitSpec => []WaitInv
  <1> USE NAssumption
  <1>1. WaitInit => WaitInv
    <2> SUFFICES ASSUME WaitInit PROVE WaitInv
      OBVIOUS
    <2>1. Unfinished = 1 .. N
      BY DEF WaitInit, Unfinished, Children
    <2>2. Cardinality(Unfinished) = N
      BY <2>1, FS_Interval
    <2>3. WaitTypes
      <3>1. coroutine \in BOOLEAN
        BY Zenon DEF WaitInit
      <3>2. /\ child \in [Children -> ChildStates]
            /\ outcome \in [Children -> {"none", "value", "error"}]
        BY DEF WaitInit, ChildStates
      <3>3. /\ count \in Int /\ next \in 1 .. N + 1 /\ inline \in 0 .. N
            /\ parent \in {"starting", "subtracting", "suspended", "resumed", "gone"}
        BY DEF WaitInit
      <3> QED
        BY <3>1, <3>2, <3>3, Zenon DEF WaitTypes
    <2>4. CountInv
      <3>1. coroutine <=> parent # "starting"
        BY Zenon DEF WaitInit
      <3>2. count = Cardinality(Unfinished) + (IF parent \in {"starting", "subtracting"} THEN 1 ELSE 0)
        BY <2>2 DEF WaitInit
      <3>3. /\ parent = "starting" /\ next = 1
            /\ \A c \in Children : child[c] = "created" /\ outcome[c] = "none" /\ c >= 1
        BY DEF WaitInit, Children
      <3>4. /\ parent # "starting" => next = N + 1
            /\ \A c \in Children : child[c] = "created" <=> c >= next
            /\ \A c \in Children : outcome[c] # "none" <=> child[c] \in {"final", "last", "notified"}
            /\ parent \in {"resumed", "gone"} => count = 0
            /\ \A c \in Children :
                   child[c] = "last" => /\ parent = "suspended" /\ count = 0
                                        /\ \A d \in Children : child[d] = "last" => d = c
        BY <3>3
      <3> QED
        BY <3>1, <3>2, <3>4, Zenon DEF CountInv
    <2> QED
      BY <2>3, <2>4 DEF WaitInv
  <1>2. WaitInv /\ [WaitNext]_waitVars => WaitInv'
    <2> SUFFICES ASSUME WaitInv, [WaitNext]_waitVars PROVE WaitInv'
      OBVIOUS
    <2> USE DEF WaitInv, WaitTypes, ChildStates
    <2>0. /\ Cardinality(Unfinished) \in Nat
          /\ Cardinality(Unfinished) = 0 <=> Unfinished = {}
          /\ \A c \in Unfinished : Cardinality(Unfinished \ {c}) = Cardinality(Unfinished) - 1
      BY UnfinishedCounts
    <2>1. CASE StartTask
      <3>1. next \in Children /\ child[next] = "created"
        BY <2>1 DEF StartTask, CountInv, Children
      <3>2. Unfinished' = Unfinished
        BY <2>1, <3>1 DEF StartTask, Unfinished
      <3>3. WaitTypes'
        BY <2>1, <3>1 DEF StartTask, Children
      <3>4. \A c \in Children : child'[c] = "created" <=> c >= next'
        BY <2>1, <3>1 DEF StartTask, CountInv, Children
      <3>5. \A c \in Children : /\ child'[c] = "last" <=> child[c] = "last"
                                /\ outcome'[c] # "none" <=> child'[c] \in {"final", "last", "notified"}
        BY <2>1, <3>1 DEF StartTask, CountInv
      <3> QED
        BY <2>1, <3>2, <3>3, <3>4, <3>5 DEF StartTask, CountInv
    <2>2. CASE SetCoroutine
      <3>1. Unfinished' = Unfinished
        BY <2>2 DEF SetCoroutine, Unfinished
      <3> QED
        BY <2>2, <3>1 DEF SetCoroutine, CountInv
    \* Who sees 1 is the last of all, the parent included.
    <2>3. CASE BeginAwait
      <3>1. Unfinished' = Unfinished
        BY <2>3 DEF BeginAwait, Unfinished
      <3> QED
        BY <2>0, <2>3, <3>1 DEF BeginAwait, CountInv
    <2>4. CASE Finish
      <3>1. Unfinished' = Unfinished
        BY <2>4 DEF Finish, Unfinished
      <3> QED
        BY <2>4, <3>1 DEF Finish, CountInv
    <2>5. ASSUME NEW c \in Children, Suspend(c) \/ Resume(c) \/ Complete(c) PROVE WaitInv'
      <3>1. /\ UNCHANGED <<count, coroutine, parent, next>> /\ inline' \in 0 .. N
            /\ child[c] \in {"running", "suspended"}
            /\ child' = [child EXCEPT ![c] = child'[c]]
            /\ \/ outcome' = outcome /\ child'[c] \in {"running", "suspended"}
               \/ /\ child'[c] = "final"
                  /\ \E o \in {"value", "error"} : outcome' = [outcome EXCEPT ![c] = o]
        <4>1. CASE Suspend(c)
          BY <4>1 DEF Suspend, LeaveThread
        <4>2. CASE Resume(c)
          BY <4>2 DEF Resume
        <4>3. CASE Complete(c)
          BY <4>3 DEF Complete
        <4> QED
          BY <2>5, <4>1, <4>2, <4>3
      <3>2. Unfinished' = Unfinished
        BY <3>1 DEF Unfinished
      <3>3. WaitTypes'
        <4>1. child' \in [Children -> ChildStates] /\ outcome' \in [Children -> {"none", "value", "error"}]
          BY <3>1
        <4> QED
          BY <3>1, <4>1
      <3>4. \A d \in Children : /\ child'[d] = "created" <=> child[d] = "created"
                                /\ child'[d] = "last" <=> child[d] = "last"
        BY <3>1
      <3>5. \A d \in Children : outcome'[d] # "none" <=> child'[d] \in {"final", "last", "notified"}
        BY <3>1 DEF CountInv
      <3> QED
        BY <3>1, <3>2, <3>3, <3>4, <3>5 DEF CountInv
    \* A child that sees 1 finds the parent suspended: before, the parent has a
    \* share in the count, and after, nobody has.
    <2>6. ASSUME NEW c \in Children, NotifyComplete(c) PROVE WaitInv'
      <3>1. c \in Unfinished /\ Unfinished' = Unfinished \ {c}
        BY <2>6 DEF NotifyComplete, Unfinished
      <3>2. Cardinality(Unfinished') = Cardinality(Unfinished) - 1 /\ Cardinality(Unfinished) > 0
        BY <2>0, <3>1
      <3>3. WaitTypes'
        BY <2>6 DEF NotifyComplete, LeaveThread
      <3>4. count = 1 => parent = "suspended"
        BY <2>0, <3>2 DEF CountInv
      <3>5. \A d \in Children : child[d] # "last"
        BY <2>0, <3>2 DEF CountInv
      <3>6. /\ UNCHANGED <<coroutine, parent, next, outcome>> /\ count' = count - 1
            /\ child[c] = "final"
            /\ child'[c] = IF count = 1 THEN "last" ELSE "notified"
            /\ \A d \in Children \ {c} : child'[d] = child[d]
        BY <2>6 DEF NotifyComplete
      <3>7. Cardinality(Unfinished) = count - (IF parent \in {"starting", "subtracting"} THEN 1 ELSE 0)
        BY <2>0 DEF CountInv
      <3>8. \A d \in Children : /\ child'[d] = "created" <=> d >= next'
                                /\ outcome'[d] # "none" <=> child'[d] \in {"final", "last", "notified"}
        BY <3>6 DEF CountInv
      <3>9. \A d \in Children : child'[d] = "last" => d = c /\ count = 1
        BY <3>5, <3>6
      <3>10. count' = Cardinality(Unfinished') + (IF parent' \in {"starting", "subtracting"} THEN 1 ELSE 0)
        BY <2>0, <3>2, <3>6, <3>7
      <3>11. parent' \notin {"resumed", "gone"}
        BY <2>0, <3>2, <3>6 DEF CountInv
      <3> QED
        BY <3>3, <3>4, <3>6, <3>8, <3>9, <3>10, <3>11 DEF CountInv
    <2>7. ASSUME NEW c \in Children, ResumeParent(c) PROVE WaitInv'
      <3>1. Unfinished' = Unfinished
        BY <2>7 DEF ResumeParent, Unfinished
      <3>2. WaitTypes'
        BY <2>7 DEF ResumeParent
      <3>3. /\ UNCHANGED <<count, coroutine, next, outcome>> /\ parent' = "resumed"
            /\ child[c] = "last" /\ child'[c] = "notified"
            /\ \A d \in Children \ {c} : child'[d] = child[d]
        BY <2>7 DEF ResumeParent
      <3> QED
        BY <3>1, <3>2, <3>3 DEF CountInv
    <2>8. CASE UNCHANGED waitVars
      BY <2>8 DEF waitVars, CountInv, Unfinished
    <2> QED
      BY <2>1, <2>2, <2>3, <2>4, <2>5, <2>6, <2>7, <2>8 DEF WaitNext, ParentStep, ChildStep
  <1> QED
    BY <1>1, <1>2, PTL DEF WaitSpec

\* The parent of a wait_all goes on only when every child has left its result and
\* the counter (wait_all_task.hpp:24-54).
THEOREM NothingPendingHolds == WaitSpec => []NothingPendingAfterResume
  <1>1. WaitInv => NothingPendingAfterResume
    <2> SUFFICES ASSUME WaitInv, parent \in {"resumed", "gone"}, NEW c \in Children
                 PROVE  child[c] = "notified" /\ outcome[c] # "none"
      BY DEF NothingPendingAfterResume
    <2>1. Cardinality(Unfinished) = 0
      BY UnfinishedCounts DEF WaitInv, CountInv
    <2>2. Unfinished = {}
      BY <2>1, UnfinishedCounts
    <2> QED
      BY <2>2 DEF Unfinished, WaitInv, CountInv, WaitTypes, ChildStates
  <1> QED
    BY <1>1, WaitInvHolds, PTL

\* wait_all is a join of its children: the parent continues once, when it waits
\* and nothing is pending (wait_all_counter.hpp:19-40).
THEOREM WaitAllIsJoin == WaitSpec => J!JoinSafety
  <1> USE NAssumption
  <1>1. WaitInit => J!JoinInit
    BY DEF WaitInit, J!JoinInit, pendingBar, joinerBar
  <1>2. WaitInv /\ [WaitNext]_waitVars => [J!JoinNext]_(J!joinVars)
    <2> SUFFICES ASSUME WaitInv, [WaitNext]_waitVars PROVE J!JoinNext \/ UNCHANGED J!joinVars
      OBVIOUS
    <2> USE DEF WaitInv, WaitTypes, ChildStates
    <2>1. CASE StartTask
      <3>1. next \in Children /\ next \notin pendingBar /\ joinerBar = "open"
        BY <2>1 DEF StartTask, CountInv, Children, pendingBar, joinerBar
      <3>2. pendingBar' = pendingBar \cup {next} /\ joinerBar' = joinerBar
        BY <2>1, <3>1 DEF StartTask, pendingBar, joinerBar
      <3> QED
        BY <3>1, <3>2 DEF J!JoinNext, J!Begin
    <2>2. CASE SetCoroutine
      <3>1. joinerBar = "open" /\ joinerBar' = "waiting" /\ pendingBar' = pendingBar
        BY <2>2 DEF SetCoroutine, CountInv, pendingBar, joinerBar
      <3> QED
        BY <3>1 DEF J!JoinNext, J!Wait
    <2>3. CASE BeginAwait
      <3>1. joinerBar = "waiting" /\ pendingBar' = pendingBar
        BY <2>3 DEF BeginAwait, CountInv, pendingBar, joinerBar
      <3>2. CASE count > 1
        BY <2>3, <3>1, <3>2 DEF BeginAwait, joinerBar, J!joinVars, CountInv
      <3>3. CASE ~(count > 1)
        <4>1. Unfinished = {}
          BY <2>3, <3>3, UnfinishedCounts DEF BeginAwait, CountInv
        <4>2. pendingBar = {}
          BY <4>1 DEF Unfinished, pendingBar
        <4>3. joinerBar' = "continued"
          BY <2>3, <3>3 DEF BeginAwait, joinerBar
        <4> QED
          BY <3>1, <4>2, <4>3 DEF J!JoinNext, J!Continue
      <3> QED
        BY <3>2, <3>3
    <2>4. CASE Finish
      BY <2>4 DEF Finish, pendingBar, joinerBar, J!joinVars
    <2>5. ASSUME NEW c \in Children, Suspend(c) \/ Resume(c) \/ Complete(c)
          PROVE  UNCHANGED J!joinVars
      <3>1. pendingBar' = pendingBar
        BY <2>5 DEF Suspend, Resume, Complete, pendingBar
      <3>2. joinerBar' = joinerBar
        BY <2>5 DEF Suspend, Resume, Complete, joinerBar
      <3> QED
        BY <3>1, <3>2 DEF J!joinVars
    <2>6. ASSUME NEW c \in Children, NotifyComplete(c) PROVE J!JoinNext
      <3>1. c \in pendingBar /\ pendingBar' = pendingBar \ {c} /\ joinerBar' = joinerBar
        BY <2>6 DEF NotifyComplete, pendingBar, joinerBar
      <3> QED
        BY <3>1 DEF J!JoinNext, J!End
    <2>7. ASSUME NEW c \in Children, ResumeParent(c) PROVE J!JoinNext
      <3>1. parent = "suspended" /\ coroutine /\ Cardinality(Unfinished) = 0
        BY <2>7, UnfinishedCounts DEF ResumeParent, CountInv
      <3>2. pendingBar = {}
        BY <3>1, UnfinishedCounts DEF Unfinished, pendingBar
      <3>3. pendingBar' = pendingBar
        BY <2>7 DEF ResumeParent, pendingBar
      <3>4. joinerBar = "waiting" /\ joinerBar' = "continued"
        BY <2>7, <3>1 DEF ResumeParent, joinerBar
      <3> QED
        BY <3>2, <3>3, <3>4 DEF J!JoinNext, J!Continue
    <2>8. CASE UNCHANGED waitVars
      BY <2>8 DEF waitVars, pendingBar, joinerBar, J!joinVars
    <2> QED
      BY <2>1, <2>2, <2>3, <2>4, <2>5, <2>6, <2>7, <2>8 DEF WaitNext, ParentStep, ChildStep
  <1> QED
    BY <1>1, <1>2, WaitInvHolds, PTL DEF WaitSpec, J!JoinSafety

-----------------------------------------------------------------------------
(* async_scope                                                                *)

\* The variables of a scope, where count_ might be negative: ScopeCountInv says
\* that it is not.
ScopeTypes ==
    /\ scopeCount \in Int
    /\ scopeContinuation \in BOOLEAN
    /\ owner \in {"open", "stored", "suspended", "joined", "gone"}
    /\ work \in [Works -> WorkStates]
    /\ spawner \in [Works -> Works \cup {NoWork}]

\* The owner has a share in the count until it has subtracted in its join.
OwnerShare == IF owner \in {"open", "stored"} THEN 1 ELSE 0

\* count_ counts the works that have added and not subtracted, and the owner
ScopeCountInv ==
    /\ IsFiniteSet(pendingWorks)
    /\ scopeCount = Cardinality(pendingWorks) + OwnerShare
    /\ scopeContinuation <=> owner # "open"
    /\ owner \in {"joined", "gone"} => scopeCount = 0

\* Who is inside spawn() stays there, with a share of its own in the count,
\* until the work has added itself.
SpawnerInv ==
    \A w \in Works :
        work[w] \in {"starting", "adding"} =>
            \/ spawner[w] = NoWork /\ owner = "open"
            \/ spawner[w] \in Works /\ work[spawner[w]] = "running"

\* A work that saw 1 is the only one that did, and the owner waits for it.
LastInv ==
    \A w \in Works :
        work[w] = "last" => /\ owner = "suspended" /\ scopeCount = 0
                            /\ \A v \in Works : work[v] = "last" => v = w

ScopeInv == ScopeTypes /\ ScopeCountInv /\ SpawnerInv /\ LastInv

\* The count is that of a finite set, and 0 only without a pending work.
LEMMA PendingCounts ==
    ASSUME ScopeInv
    PROVE  /\ Cardinality(pendingWorks) \in Nat
           /\ Cardinality(pendingWorks) = 0 <=> pendingWorks = {}
           /\ OwnerShare \in {0, 1}
           /\ \A w \in Works : work[w] \in {"starting", "adding"} => scopeCount > 0
  <1>1. /\ Cardinality(pendingWorks) \in Nat
        /\ Cardinality(pendingWorks) = 0 <=> pendingWorks = {}
        /\ OwnerShare \in {0, 1}
    BY FS_CardinalityType, FS_EmptySet DEF ScopeInv, ScopeCountInv, OwnerShare
  <1>2. ASSUME NEW w \in Works, work[w] \in {"starting", "adding"} PROVE scopeCount > 0
    <2>1. CASE owner = "open"
      BY <2>1, <1>1 DEF ScopeInv, ScopeCountInv, OwnerShare
    <2>2. CASE spawner[w] \in Works /\ work[spawner[w]] = "running"
      <3>1. pendingWorks # {}
        BY <2>2 DEF pendingWorks
      <3> QED
        BY <3>1, <1>1 DEF ScopeInv, ScopeCountInv
    <2> QED
      BY <1>2, <2>1, <2>2 DEF ScopeInv, SpawnerInv
  <1> QED
    BY <1>1, <1>2

\* A step that changes no share in the count leaves it right.
LEMMA SameShares ==
    ASSUME ScopeCountInv, pendingWorks' = pendingWorks,
           UNCHANGED <<scopeCount, scopeContinuation, owner>>
    PROVE  ScopeCountInv'
  BY DEF ScopeCountInv, OwnerShare

\* The counter counts in every state of an async_scope.
THEOREM ScopeInvHolds == ScopeSpec => []ScopeInv
  <1> USE NoWorkAssumption
  <1>1. ScopeInit => ScopeInv
    <2> SUFFICES ASSUME ScopeInit PROVE ScopeInv
      OBVIOUS
    <2>1. scopeContinuation \in BOOLEAN /\ (scopeContinuation <=> owner # "open")
      BY Zenon DEF ScopeInit
    <2>2. ScopeTypes
      <3>1. /\ scopeCount \in Int /\ owner = "open"
            /\ work \in [Works -> WorkStates] /\ spawner \in [Works -> Works \cup {NoWork}]
        BY DEF ScopeInit, WorkStates
      <3> QED
        BY <2>1, <3>1 DEF ScopeTypes
    <2>3. pendingWorks = {}
      BY DEF ScopeInit, pendingWorks
    <2>4. IsFiniteSet(pendingWorks) /\ Cardinality(pendingWorks) = 0
      BY <2>3, FS_EmptySet
    <2>5. owner = "open" /\ scopeCount = 1 /\ OwnerShare = 1
      BY DEF ScopeInit, OwnerShare
    <2>6. ScopeCountInv
      BY <2>1, <2>4, <2>5 DEF ScopeCountInv
    <2>7. SpawnerInv /\ LastInv
      BY DEF ScopeInit, SpawnerInv, LastInv
    <2> QED
      BY <2>2, <2>6, <2>7 DEF ScopeInv
  <1>2. ScopeInv /\ [ScopeNext]_scopeVars => ScopeInv'
    <2> SUFFICES ASSUME ScopeInv, [ScopeNext]_scopeVars PROVE ScopeInv'
      OBVIOUS
    <2> USE DEF ScopeInv, ScopeTypes, WorkStates
    <2>0. /\ Cardinality(pendingWorks) \in Nat
          /\ Cardinality(pendingWorks) = 0 <=> pendingWorks = {}
          /\ OwnerShare \in {0, 1}
          /\ \A w \in Works : work[w] \in {"starting", "adding"} => scopeCount > 0
      BY PendingCounts
    <2>1. ASSUME NEW w \in Works, NEW s \in Works \cup {NoWork}, Spawn(w, s) PROVE ScopeInv'
      <3>1. ScopeTypes'
        BY <2>1 DEF Spawn
      <3>2. pendingWorks' = pendingWorks
        BY <2>1 DEF Spawn, pendingWorks
      <3>3. ScopeCountInv'
        BY <2>1, <3>2, SameShares DEF Spawn
      <3>4. SpawnerInv'
        BY <2>1 DEF Spawn, SpawnerInv
      <3>5. LastInv'
        BY <2>1 DEF Spawn, LastInv
      <3> QED
        BY <3>1, <3>3, <3>4, <3>5
    <2>2. ASSUME NEW w \in Works, AssertCount(w) PROVE ScopeInv'
      <3>1. ScopeTypes'
        BY <2>2 DEF AssertCount
      <3>2. pendingWorks' = pendingWorks
        BY <2>2 DEF AssertCount, pendingWorks
      <3>3. ScopeCountInv'
        BY <2>2, <3>2, SameShares DEF AssertCount
      <3>4. SpawnerInv'
        BY <2>2 DEF AssertCount, SpawnerInv
      <3>5. LastInv'
        BY <2>2 DEF AssertCount, LastInv
      <3> QED
        BY <3>1, <3>3, <3>4, <3>5
    \* The spawner's share kept the count off 0, so no work has seen 1 yet.
    <2>3. ASSUME NEW w \in Works, AddCount(w) PROVE ScopeInv'
      <3>1. ScopeTypes'
        BY <2>3 DEF AddCount
      <3>2. w \notin pendingWorks /\ pendingWorks' = pendingWorks \cup {w}
        BY <2>3 DEF AddCount, pendingWorks
      <3>3. IsFiniteSet(pendingWorks') /\ Cardinality(pendingWorks') = Cardinality(pendingWorks) + 1
        BY <3>2, FS_AddElement DEF ScopeCountInv
      <3>4. scopeCount > 0
        BY <2>0, <2>3 DEF AddCount
      <3>5. scopeCount' = scopeCount + 1 /\ UNCHANGED <<scopeContinuation, owner, OwnerShare>>
        BY <2>3 DEF AddCount, OwnerShare
      <3>6. ScopeCountInv'
        BY <2>0, <3>3, <3>4, <3>5 DEF ScopeCountInv
      <3>7. SpawnerInv'
        BY <2>3 DEF AddCount, SpawnerInv
      <3>8. LastInv'
        BY <2>3, <3>4 DEF AddCount, LastInv
      <3> QED
        BY <3>1, <3>6, <3>7, <3>8
    <2>4. ASSUME NEW w \in Works, SuspendWork(w) \/ ResumeWork(w) \/ FinishWork(w) PROVE ScopeInv'
      <3>1. /\ UNCHANGED <<scopeCount, scopeContinuation, owner, spawner>>
            /\ work[w] \in {"running", "suspended"}
            /\ \E p \in {"running", "suspended", "finishing"} : work' = [work EXCEPT ![w] = p]
            /\ ~Spawning(w) \/ work[w] = "suspended"
        <4>1. CASE SuspendWork(w)
          BY <4>1 DEF SuspendWork
        <4>2. CASE ResumeWork(w)
          BY <4>2 DEF ResumeWork
        <4>3. CASE FinishWork(w)
          BY <4>3 DEF FinishWork
        <4> QED
          BY <2>4, <4>1, <4>2, <4>3
      <3>2. ScopeTypes'
        BY <3>1
      <3>3. pendingWorks' = pendingWorks
        BY <3>1 DEF pendingWorks
      <3>4. ScopeCountInv'
        BY <3>1, <3>3, SameShares
      <3>5. \A v \in Works : work'[v] \in {"starting", "adding"} => spawner[v] # w
        BY <3>1 DEF Spawning, SpawnerInv
      <3>6. SpawnerInv'
        BY <3>1, <3>5 DEF SpawnerInv
      <3>7. LastInv'
        BY <3>1 DEF LastInv
      <3> QED
        BY <3>2, <3>4, <3>6, <3>7
    \* A work that sees 1 was alone, and the owner is past its own subtraction.
    <2>5. ASSUME NEW w \in Works, WorkFinished(w) PROVE ScopeInv'
      <3>1. ScopeTypes'
        BY <2>5 DEF WorkFinished
      <3>2. w \in pendingWorks /\ pendingWorks' = pendingWorks \ {w}
        BY <2>5 DEF WorkFinished, pendingWorks
      <3>3. /\ IsFiniteSet(pendingWorks') /\ Cardinality(pendingWorks') = Cardinality(pendingWorks) - 1
            /\ Cardinality(pendingWorks) > 0
        BY <2>0, <3>2, FS_RemoveElement DEF ScopeCountInv
      <3>4. scopeCount' = scopeCount - 1 /\ UNCHANGED <<scopeContinuation, owner, spawner, OwnerShare>>
        BY <2>5 DEF WorkFinished, OwnerShare
      <3>5. scopeCount > 0 /\ owner \notin {"joined", "gone"}
        BY <2>0, <3>3 DEF ScopeCountInv
      <3>6. ScopeCountInv'
        BY <2>0, <3>3, <3>4, <3>5 DEF ScopeCountInv
      <3>7. scopeCount = 1 => owner = "suspended"
        BY <2>0, <3>3, <3>5 DEF ScopeCountInv, OwnerShare
      <3>8. SpawnerInv'
        BY <2>5 DEF WorkFinished, SpawnerInv
      <3>9. \A v \in Works : work[v] # "last"
        BY <3>5 DEF LastInv
      <3>10. LastInv'
        BY <2>5, <3>4, <3>7, <3>9 DEF WorkFinished, LastInv
      <3> QED
        BY <3>1, <3>6, <3>8, <3>10
    <2>6. ASSUME NEW w \in Works, ResumeOwner(w) PROVE ScopeInv'
      <3>1. owner = "suspended" /\ scopeCount = 0 /\ \A v \in Works : work[v] = "last" => v = w
        BY <2>6 DEF ResumeOwner, LastInv
      <3>2. ScopeTypes'
        BY <2>6 DEF ResumeOwner
      <3>3. pendingWorks' = pendingWorks
        BY <2>6 DEF ResumeOwner, pendingWorks
      <3>4. ScopeCountInv'
        BY <2>6, <3>1, <3>3 DEF ResumeOwner, ScopeCountInv, OwnerShare
      <3>5. SpawnerInv'
        BY <2>6, <3>1 DEF ResumeOwner, SpawnerInv
      <3>6. LastInv'
        BY <2>6, <3>1 DEF ResumeOwner, LastInv
      <3> QED
        BY <3>2, <3>4, <3>5, <3>6
    <2>7. CASE JoinStore
      <3>1. scopeContinuation' = TRUE
        BY <2>7 DEF JoinStore
      <3>2. /\ owner = "open" /\ owner' = "stored" /\ UNCHANGED <<scopeCount, work, spawner>>
            /\ \A w \in Works : ~(spawner[w] = NoWork /\ work[w] \in {"starting", "adding"})
        BY <2>7 DEF JoinStore, Spawning
      <3>3. ScopeTypes'
        BY <3>1, <3>2
      <3>4. UNCHANGED <<pendingWorks, OwnerShare>>
        BY <3>2 DEF pendingWorks, OwnerShare
      <3>5. ScopeCountInv'
        BY <3>1, <3>2, <3>4 DEF ScopeCountInv
      <3>6. SpawnerInv' /\ LastInv'
        BY <3>2 DEF SpawnerInv, LastInv
      <3> QED
        BY <3>3, <3>5, <3>6
    <2>8. CASE JoinSub
      <3>1. /\ owner = "stored" /\ UNCHANGED <<scopeContinuation, work, spawner>>
            /\ scopeCount' = scopeCount - 1
            /\ owner' = IF scopeCount > 1 THEN "suspended" ELSE "joined"
        BY <2>8 DEF JoinSub
      <3>2. ScopeTypes'
        BY <3>1
      <3>3. pendingWorks' = pendingWorks /\ OwnerShare = 1 /\ OwnerShare' = 0
        BY <3>1 DEF pendingWorks, OwnerShare
      <3>4. ScopeCountInv'
        BY <2>0, <3>1, <3>3 DEF ScopeCountInv
      <3>5. SpawnerInv' /\ LastInv'
        BY <3>1 DEF SpawnerInv, LastInv
      <3> QED
        BY <3>2, <3>4, <3>5
    <2>9. CASE JoinAgain
      <3>1. UNCHANGED <<scopeCount, scopeContinuation, owner, work, spawner>>
        BY <2>9 DEF JoinAgain
      <3> QED
        BY <3>1 DEF ScopeCountInv, OwnerShare, pendingWorks, SpawnerInv, LastInv
    <2>10. CASE Destroy
      <3>1. owner = "joined" /\ owner' = "gone" /\ UNCHANGED <<scopeCount, scopeContinuation, work, spawner>>
        BY <2>10 DEF Destroy
      <3> QED
        BY <3>1 DEF ScopeCountInv, OwnerShare, pendingWorks, SpawnerInv, LastInv
    <2>11. CASE UNCHANGED scopeVars
      <3>1. UNCHANGED <<scopeCount, scopeContinuation, owner, work, spawner>>
        BY <2>11 DEF scopeVars
      <3> QED
        BY <3>1 DEF ScopeCountInv, OwnerShare, pendingWorks, SpawnerInv, LastInv
    <2> QED
      BY <2>1, <2>2, <2>3, <2>4, <2>5, <2>6, <2>7, <2>8, <2>9, <2>10, <2>11
      DEF ScopeNext, WorkStep, OwnerStep
  <1> QED
    BY <1>1, <1>2, PTL DEF ScopeSpec

\* Whoever spawns has a share in the count, so the assert of on_work_started
\* holds; and no work touches the scope after its owner went on
\* (async_scope.hpp:20, 101).
THEOREM ScopeQuietHolds == ScopeSpec => []ScopeQuietAfterJoin
  <1>1. ScopeInv => ScopeQuietAfterJoin
    <2> SUFFICES ASSUME ScopeInv PROVE ScopeQuietAfterJoin
      OBVIOUS
    <2>1. \A w \in Works : work[w] \in {"starting", "adding"} => scopeCount # 0
      BY PendingCounts DEF ScopeInv, ScopeTypes
    <2>2. ASSUME owner \in {"joined", "gone"}
          PROVE  /\ scopeContinuation /\ scopeCount = 0
                 /\ \A w \in Works : work[w] \in {"none", "ended"}
      <3>1. scopeContinuation /\ scopeCount = 0
        BY <2>2 DEF ScopeInv, ScopeCountInv
      <3>2. Cardinality(pendingWorks) = 0
        BY <2>2, <3>1, PendingCounts DEF ScopeInv, ScopeCountInv, OwnerShare
      <3>3. pendingWorks = {}
        BY <3>2, PendingCounts
      <3>4. \A w \in Works : work[w] \notin {"starting", "adding", "last"}
        BY <2>1, <2>2, <3>1 DEF ScopeInv, LastInv
      <3> QED
        BY <3>1, <3>3, <3>4 DEF pendingWorks, ScopeInv, ScopeTypes, WorkStates
    <2> QED
      BY <2>1, <2>2 DEF ScopeQuietAfterJoin
  <1> QED
    BY <1>1, ScopeInvHolds, PTL

\* An async_scope is a join of what is spawned into it: the owner continues once,
\* when it waits and nothing is pending; what is spawned while it waits is
\* spawned by a pending work (async_scope.hpp:85-120).
THEOREM ScopeIsJoin == ScopeSpec => ScopeJoin!JoinSafety
  <1> USE NoWorkAssumption
  <1>1. ScopeInit => ScopeJoin!JoinInit
    BY DEF ScopeInit, ScopeJoin!JoinInit, pendingWorks, joiningOwner
  <1>2. ScopeInv /\ [ScopeNext]_scopeVars => [ScopeJoin!JoinNext]_(ScopeJoin!joinVars)
    <2> SUFFICES ASSUME ScopeInv, [ScopeNext]_scopeVars
                 PROVE  ScopeJoin!JoinNext \/ UNCHANGED ScopeJoin!joinVars
      OBVIOUS
    <2> USE DEF ScopeInv, ScopeTypes, WorkStates
    <2>0. /\ Cardinality(pendingWorks) \in Nat
          /\ Cardinality(pendingWorks) = 0 <=> pendingWorks = {}
          /\ OwnerShare \in {0, 1}
          /\ \A w \in Works : work[w] \in {"starting", "adding"} => scopeCount > 0
      BY PendingCounts
    <2>1. ASSUME NEW w \in Works, NEW s \in Works \cup {NoWork}, Spawn(w, s)
          PROVE  UNCHANGED ScopeJoin!joinVars
      BY <2>1 DEF Spawn, pendingWorks, joiningOwner, ScopeJoin!joinVars
    <2>2. ASSUME NEW w \in Works, AssertCount(w) PROVE UNCHANGED ScopeJoin!joinVars
      BY <2>2 DEF AssertCount, pendingWorks, joiningOwner, ScopeJoin!joinVars
    <2>3. ASSUME NEW w \in Works, AddCount(w) PROVE ScopeJoin!Begin(w)
      <3>1. w \notin pendingWorks /\ pendingWorks' = pendingWorks \cup {w}
        BY <2>3 DEF AddCount, pendingWorks
      <3>2. joiningOwner' = joiningOwner
        BY <2>3 DEF AddCount, joiningOwner
      <3>3. owner = "open" \/ pendingWorks # {}
        BY <2>3 DEF AddCount, SpawnerInv, pendingWorks
      <3>4. joiningOwner = "open" \/ pendingWorks # {}
        BY <3>3 DEF joiningOwner
      <3> QED
        BY <3>1, <3>2, <3>4 DEF ScopeJoin!Begin
    <2>4. ASSUME NEW w \in Works, SuspendWork(w) \/ ResumeWork(w) \/ FinishWork(w)
          PROVE  UNCHANGED ScopeJoin!joinVars
      <3>1. /\ owner' = owner
            /\ work[w] \in {"running", "suspended"}
            /\ \E p \in {"running", "suspended", "finishing"} : work' = [work EXCEPT ![w] = p]
        <4>1. CASE SuspendWork(w)
          BY <4>1 DEF SuspendWork
        <4>2. CASE ResumeWork(w)
          BY <4>2 DEF ResumeWork
        <4>3. CASE FinishWork(w)
          BY <4>3 DEF FinishWork
        <4> QED
          BY <2>4, <4>1, <4>2, <4>3
      <3>2. pendingWorks' = pendingWorks /\ joiningOwner' = joiningOwner
        BY <3>1 DEF pendingWorks, joiningOwner
      <3> QED
        BY <3>2 DEF ScopeJoin!joinVars
    <2>5. ASSUME NEW w \in Works, WorkFinished(w) PROVE ScopeJoin!End(w)
      <3>1. w \in pendingWorks /\ pendingWorks' = pendingWorks \ {w}
        BY <2>5 DEF WorkFinished, pendingWorks
      <3>2. joiningOwner' = joiningOwner
        BY <2>5 DEF WorkFinished, joiningOwner
      <3> QED
        BY <3>1, <3>2 DEF ScopeJoin!End
    <2>6. ASSUME NEW w \in Works, ResumeOwner(w) PROVE ScopeJoin!Continue
      <3>1. owner = "suspended" /\ scopeCount = 0
        BY <2>6 DEF ResumeOwner, LastInv
      <3>2. pendingWorks = {}
        BY <2>0, <3>1 DEF ScopeCountInv
      <3>3. pendingWorks' = pendingWorks
        BY <2>6 DEF ResumeOwner, pendingWorks
      <3>4. joiningOwner = "waiting" /\ joiningOwner' = "continued"
        BY <2>6, <3>1 DEF ResumeOwner, joiningOwner
      <3> QED
        BY <3>2, <3>3, <3>4 DEF ScopeJoin!Continue
    <2>7. CASE JoinStore
      <3>1. pendingWorks' = pendingWorks /\ joiningOwner = "open" /\ joiningOwner' = "waiting"
        BY <2>7 DEF JoinStore, pendingWorks, joiningOwner
      <3> QED
        BY <3>1 DEF ScopeJoin!JoinNext, ScopeJoin!Wait
    <2>8. CASE JoinSub
      <3>1. pendingWorks' = pendingWorks /\ joiningOwner = "waiting" /\ OwnerShare = 1
        BY <2>8 DEF JoinSub, pendingWorks, joiningOwner, OwnerShare
      <3>2. CASE scopeCount > 1
        BY <2>8, <3>1, <3>2 DEF JoinSub, joiningOwner, ScopeJoin!joinVars
      <3>3. CASE ~(scopeCount > 1)
        <4>1. pendingWorks = {}
          BY <2>0, <3>1, <3>3 DEF ScopeCountInv
        <4>2. joiningOwner' = "continued"
          BY <2>8, <3>3 DEF JoinSub, joiningOwner
        <4> QED
          BY <3>1, <4>1, <4>2 DEF ScopeJoin!JoinNext, ScopeJoin!Continue
      <3> QED
        BY <3>2, <3>3
    <2>9. ASSUME work' = work, \/ owner' = owner
                               \/ owner = "joined" /\ owner' = "gone"
          PROVE  UNCHANGED ScopeJoin!joinVars
      <3>1. pendingWorks' = pendingWorks /\ joiningOwner' = joiningOwner
        BY <2>9 DEF pendingWorks, joiningOwner
      <3> QED
        BY <3>1 DEF ScopeJoin!joinVars
    <2>11. CASE JoinAgain
      BY <2>9, <2>11 DEF JoinAgain
    <2>12. CASE Destroy
      BY <2>9, <2>12 DEF Destroy
    <2>13. CASE UNCHANGED scopeVars
      BY <2>9, <2>13 DEF scopeVars
    <2>10. ASSUME NEW w \in Works, WorkStep(w) PROVE ScopeJoin!JoinNext \/ UNCHANGED ScopeJoin!joinVars
      BY <2>2, <2>3, <2>4, <2>5, <2>6, <2>10 DEF WorkStep, ScopeJoin!JoinNext
    <2> QED
      BY <2>1, <2>7, <2>8, <2>10, <2>11, <2>12, <2>13 DEF ScopeNext, OwnerStep
  <1> QED
    BY <1>1, <1>2, ScopeInvHolds, PTL DEF ScopeSpec, ScopeJoin!JoinSafety

-----------------------------------------------------------------------------
(* The owner of a scope as a child of a wait_all                              *)

\* What the two do together is what each may do: the server joins as a child that
\* suspends, and the last work of its scope is what resumes this child.
THEOREM ScopedImplementsBoth == ScopedSpec => WaitSpec /\ ScopeSpec
  <1>1. Server \in Children
    BY NAssumption DEF Server, Children
  <1>2. ScopedInit => WaitInit /\ ScopeInit
    BY DEF ScopedInit
  <1>3. [ScopedNext]_scopedVars => [WaitNext]_waitVars /\ [ScopeNext]_scopeVars
    <2> SUFFICES ASSUME [ScopedNext]_scopedVars
                 PROVE  (WaitNext \/ UNCHANGED waitVars) /\ (ScopeNext \/ UNCHANGED scopeVars)
      OBVIOUS
    <2>1. ASSUME NEW c \in Children, ChildStep(c) PROVE WaitNext
      BY <2>1 DEF WaitNext
    <2>2. CASE Parent
      BY <2>2 DEF Parent, WaitNext
    <2>3. ASSUME NEW c \in Children, OtherChild(c) PROVE WaitNext /\ UNCHANGED scopeVars
      BY <2>1, <2>3 DEF OtherChild
    <2>4. CASE ServerSpawns
      BY <2>4 DEF ServerSpawns, ScopeNext
    <2>5. CASE ServerJoins
      <3>1. ScopeNext
        BY <2>5 DEF ServerJoins, ScopeNext
      <3>2. Suspend(Server) \/ UNCHANGED waitVars
        BY <2>5 DEF ServerJoins
      <3> QED
        BY <1>1, <2>1, <3>1, <3>2 DEF ChildStep
    <2>6. CASE ServerAwaits \/ ServerCompletes \/ ServerNotifies
      <3>1. ChildStep(Server) /\ UNCHANGED scopeVars
        BY <2>6 DEF ServerAwaits, ServerCompletes, ServerNotifies, ChildStep
      <3> QED
        BY <1>1, <2>1, <3>1
    <2>7. CASE WorkSpawns
      BY <2>7 DEF WorkSpawns, ScopeNext
    <2>8. ASSUME NEW w \in Works, ScopeWork(w)
          PROVE  (WaitNext \/ UNCHANGED waitVars) /\ ScopeNext
      <3>1. Resume(Server) \/ UNCHANGED waitVars
        BY <2>8 DEF ScopeWork
      <3>2. ScopeNext
        BY <2>8 DEF ScopeWork, ScopeNext
      <3> QED
        BY <1>1, <2>1, <3>1, <3>2 DEF ChildStep
    <2>9. CASE UNCHANGED scopedVars
      BY <2>9 DEF scopedVars
    <2> QED
      BY <2>2, <2>3, <2>4, <2>5, <2>6, <2>7, <2>8, <2>9 DEF ScopedNext
  <1> QED
    BY <1>2, <1>3, PTL DEF ScopedSpec, WaitSpec, ScopeSpec

\* So neither lets its waiter go on too early when the joining owner of a scope
\* is itself waited for (wait_all_task.hpp:24-54, async_scope.hpp:20, 101).
THEOREM ScopedSafety == ScopedSpec => [](NothingPendingAfterResume /\ ScopeQuietAfterJoin)
  BY ScopedImplementsBoth, NothingPendingHolds, ScopeQuietHolds, PTL

\* Both remain joins: the safety part of ImplementJoins, for any number of
\* children and of works (wait_all_counter.hpp:19-40, async_scope.hpp:85-120).
THEOREM ScopedJoins == ScopedSpec => J!JoinSafety /\ ScopeJoin!JoinSafety
  BY ScopedImplementsBoth, WaitAllIsJoin, ScopeIsJoin, PTL

-----------------------------------------------------------------------------
(* Tasks                                                                      *)

\* The task runs or has been started: its continuation waits for it.
Pending(k) == status[k] \notin {"created", "done"}

\* A coroutine on a thread runs, and is on no other.
OnThreads ==
    /\ \A t \in Threads : on[t] # None => status[on[t]] = "running"
    /\ \A t, u \in Threads : on[t] # None /\ on[t] = on[u] => t = u

\* A coroutine in a queue is queued, nowhere else, and on the executor on which
\* it has to go on, if on any.
InQueues ==
    /\ \A e \in Executors : \A i \in DOMAIN queue[e] :
           status[queue[e][i]] = "queued" /\ asked[queue[e][i]] \in {None, e}
    /\ \A e, f \in Executors : \A i \in DOMAIN queue[e], j \in DOMAIN queue[f] :
           queue[e][i] = queue[f][j] => e = f /\ i = j

\* The continuation of a pending task awaits it, no other, and has to go on on
\* the executor that the task keeps.
AsContinuations ==
    \A k \in Tasks : Pending(k) =>
        /\ continuation[k] \in Coroutines
        /\ status[continuation[k]] = "awaiting"
        /\ awaited[continuation[k]] = k
        /\ asked[continuation[k]] = executor[k]

\* What the status of a coroutine tells of it
CreatedIsNew ==
    \A c \in Coroutines :
        status[c] = "created" => asked[c] = None /\ awaited[c] = None /\ result[c] = "none"

RunningIsOnThread ==
    \A c \in Coroutines : status[c] = "running" => \E t \in Threads : on[t] = c

QueuedIsInQueue ==
    \A c \in Coroutines :
        status[c] = "queued" => \E e \in Executors : \E i \in DOMAIN queue[e] : queue[e][i] = c

AwaitingHasTask ==
    \A c \in Coroutines :
        status[c] = "awaiting" =>
            awaited[c] \in Tasks /\ Pending(awaited[c]) /\ continuation[awaited[c]] = c

DoneHasResult ==
    \A c \in Coroutines : status[c] = "done" => result[c] # "none"

StatusTells ==
    CreatedIsNew /\ RunningIsOnThread /\ QueuedIsInQueue /\ AwaitingHasTask /\ DoneHasResult

\* What a client has got to
ClientTells ==
    \A c \in Clients :
        /\ client[c] = "idle" => status[c] = "created" /\ on[c] = None
        /\ client[c] = "returned" => event[c]
        /\ event[c] => /\ status[c] = "done"
                       /\ awaited[c] \in Tasks /\ status[awaited[c]] = "done"
                       /\ result[c] = result[awaited[c]]

TaskInv ==
    /\ TypeOK /\ RunsWhereAsked /\ ResultBeforeResume
    /\ OnThreads /\ InQueues /\ AsContinuations /\ StatusTells /\ ClientTells

-----------------------------------------------------------------------------
(* Queues                                                                     *)

\* What is in the queues after a handle was added
LEMMA QueueGrows ==
    ASSUME TypeOK, NEW e \in Executors, NEW c \in Coroutines,
           queue' = [queue EXCEPT ![e] = Append(@, c)]
    PROVE  /\ queue' \in [Executors -> Seq(Coroutines)]
           /\ \A f \in Executors : \A i \in DOMAIN queue'[f] :
                  \/ i \in DOMAIN queue[f] /\ queue'[f][i] = queue[f][i]
                  \/ f = e /\ i = Len(queue[e]) + 1 /\ queue'[f][i] = c
           /\ \A f \in Executors : \A i \in DOMAIN queue[f] :
                  i \in DOMAIN queue'[f] /\ queue'[f][i] = queue[f][i]
           /\ Len(queue[e]) + 1 \in DOMAIN queue'[e] /\ queue'[e][Len(queue[e]) + 1] = c
  <1>1. queue \in [Executors -> Seq(Coroutines)] /\ queue[e] \in Seq(Coroutines)
    BY DEF TypeOK
  <1>2. /\ queue'[e] = Append(queue[e], c)
        /\ \A f \in Executors : f # e => queue'[f] = queue[f]
    BY <1>1
  <1> QED
    BY <1>1, <1>2

\* What is in the queues after the first handle of one was taken
LEMMA QueueShrinks ==
    ASSUME TypeOK, NEW e \in Executors, queue[e] # <<>>,
           queue' = [queue EXCEPT ![e] = Tail(queue[e])]
    PROVE  /\ queue' \in [Executors -> Seq(Coroutines)]
           /\ 1 \in DOMAIN queue[e] /\ Head(queue[e]) = queue[e][1] /\ Head(queue[e]) \in Coroutines
           /\ \A f \in Executors : \A i \in DOMAIN queue'[f] :
                  \/ f # e /\ i \in DOMAIN queue[f] /\ queue'[f][i] = queue[f][i]
                  \/ f = e /\ i + 1 \in DOMAIN queue[e] /\ queue'[f][i] = queue[e][i + 1] /\ i \in Nat \ {0}
           /\ \A f \in Executors : \A i \in DOMAIN queue[f] :
                  \/ f # e /\ i \in DOMAIN queue'[f] /\ queue'[f][i] = queue[f][i]
                  \/ f = e /\ i = 1
                  \/ f = e /\ i - 1 \in DOMAIN queue'[f] /\ queue'[f][i - 1] = queue[f][i]
  <1>1. queue \in [Executors -> Seq(Coroutines)] /\ queue[e] \in Seq(Coroutines)
    BY DEF TypeOK
  <1>2. /\ queue'[e] = Tail(queue[e])
        /\ \A f \in Executors : f # e => queue'[f] = queue[f]
    BY <1>1
  <1> QED
    BY <1>1, <1>2

LEMMA NoneIsNone == None \notin Coroutines /\ None \notin Threads
  BY NoneAssumption DEF Coroutines, Threads

-----------------------------------------------------------------------------
(* Parts of the invariant and parts of the steps                              *)

\* A thread that turns from what it runs to d, or to nothing, when no other
\* coroutine begins or ceases to run
LEMMA ThreadTurns ==
    ASSUME TaskInv, TypeOK', NEW t \in Threads, NEW d \in Coroutines \cup {None},
           on' = [on EXCEPT ![t] = d],
           d # None => status[d] # "running" /\ asked'[d] \in {None, current(t)},
           \A b \in Coroutines :
               /\ status'[b] = "running" <=> b = d \/ (status[b] = "running" /\ on[t] # b)
               /\ status[b] = "running" /\ on[t] # b => asked'[b] = asked[b]
    PROVE  OnThreads' /\ RunningIsOnThread' /\ RunsWhereAsked'
  <1>1. /\ on \in [Threads -> Coroutines \cup {None}] /\ OnThreads /\ RunsWhereAsked
        /\ \A u \in Threads : on'[u] = IF u = t THEN d ELSE on[u]
    BY DEF TaskInv, TypeOK
  <1>2. ASSUME NEW u \in Threads, on'[u] # None
        PROVE  /\ status'[on'[u]] = "running"
               /\ asked'[on'[u]] \in {None, current(u)}
               /\ \A v \in Threads : on'[u] = on'[v] => u = v
    <2>1. CASE u = t
      BY <1>1, <1>2, <2>1 DEF OnThreads
    <2>2. CASE u # t
      <3>1. on'[u] = on[u] /\ on[u] \in Coroutines /\ status[on[u]] = "running" /\ on[u] # on[t]
        BY <1>1, <1>2, <2>2 DEF OnThreads
      <3>2. asked'[on[u]] = asked[on[u]] /\ status'[on[u]] = "running"
        BY <3>1
      <3>3. asked[on[u]] \in {None, current(u)}
        BY <1>1, <3>1, NoneAssumption DEF RunsWhereAsked, Coroutines
      <3>4. \A v \in Threads : on'[u] = on'[v] => u = v
        <4>1. on'[t] # on'[u]
          BY <1>1, <1>2, <3>1
        <4>2. \A v \in Threads \ {t} : on[u] = on[v] => u = v
          BY <1>1, <1>2, <3>1 DEF OnThreads
        <4> QED
          BY <1>1, <3>1, <4>1, <4>2
      <3> QED
        BY <3>1, <3>2, <3>3, <3>4
    <2> QED
      BY <2>1, <2>2
  <1>3. ASSUME NEW b \in Coroutines, status'[b] = "running"
        PROVE  \E u \in Threads : on'[u] = b
    <2>1. CASE b = d
      BY <1>1, <2>1
    <2>2. CASE b # d
      <3>1. status[b] = "running" /\ on[t] # b
        BY <1>3, <2>2
      <3>2. PICK u \in Threads : on[u] = b
        BY <3>1 DEF TaskInv, StatusTells, RunningIsOnThread
      <3> QED
        BY <1>1, <3>1, <3>2
    <2> QED
      BY <2>1, <2>2
  <1> QED
    BY <1>2, <1>3 DEF OnThreads, RunningIsOnThread, RunsWhereAsked, current

\* The queues rest, and no coroutine begins or ceases to be queued.
LEMMA QueuesRest ==
    ASSUME TaskInv, UNCHANGED queue,
           \A b \in Coroutines : /\ status'[b] = "queued" <=> status[b] = "queued"
                                 /\ status[b] = "queued" => asked'[b] = asked[b]
    PROVE  InQueues' /\ QueuedIsInQueue'
  <1>1. \A e \in Executors : \A i \in DOMAIN queue[e] : queue[e][i] \in Coroutines
    BY DEF TaskInv, TypeOK
  <1> QED
    BY <1>1 DEF TaskInv, InQueues, StatusTells, QueuedIsInQueue

\* Coroutine c, and no other, becomes queued and is added to a queue.
LEMMA QueueTakes ==
    ASSUME TaskInv, NEW e \in Executors, NEW c \in Coroutines,
           queue' = [queue EXCEPT ![e] = Append(@, c)],
           status[c] # "queued", asked'[c] \in {None, e},
           \A b \in Coroutines : /\ status'[b] = "queued" <=> b = c \/ status[b] = "queued"
                                 /\ status[b] = "queued" => asked'[b] = asked[b]
    PROVE  InQueues' /\ QueuedIsInQueue'
  <1>1. /\ TypeOK /\ InQueues /\ QueuedIsInQueue
        /\ \A f \in Executors : \A i \in DOMAIN queue[f] : queue[f][i] \in Coroutines
    BY DEF TaskInv, TypeOK, StatusTells
  <1>2. ASSUME NEW f \in Executors, NEW i \in DOMAIN queue'[f]
        PROVE  /\ status'[queue'[f][i]] = "queued" /\ asked'[queue'[f][i]] \in {None, f}
               /\ \A g \in Executors : \A j \in DOMAIN queue'[g] :
                      queue'[f][i] = queue'[g][j] => f = g /\ i = j
    <2>1. CASE i \in DOMAIN queue[f] /\ queue'[f][i] = queue[f][i]
      <3>1. status[queue[f][i]] = "queued" /\ queue[f][i] \in Coroutines
        BY <1>1, <2>1 DEF InQueues
      <3>2. asked'[queue[f][i]] \in {None, f}
        BY <1>1, <2>1, <3>1 DEF InQueues
      <3>3. \A g \in Executors : \A j \in DOMAIN queue'[g] :
                queue'[f][i] = queue'[g][j] => f = g /\ i = j
        BY <1>1, <2>1, <3>1, QueueGrows DEF InQueues
      <3> QED
        BY <2>1, <3>1, <3>2, <3>3
    <2>2. CASE f = e /\ i = Len(queue[e]) + 1 /\ queue'[f][i] = c
      <3>1. \A g \in Executors : \A j \in DOMAIN queue'[g] : c = queue'[g][j] => e = g /\ i = j
        BY <1>1, <2>2, QueueGrows DEF InQueues
      <3> QED
        BY <2>2, <3>1
    <2> QED
      BY <1>1, <2>1, <2>2, QueueGrows
  <1>3. ASSUME NEW b \in Coroutines, status'[b] = "queued"
        PROVE  \E f \in Executors : \E i \in DOMAIN queue'[f] : queue'[f][i] = b
    <2>1. CASE b = c
      <3>1. Len(queue[e]) + 1 \in DOMAIN queue'[e] /\ queue'[e][Len(queue[e]) + 1] = c
        BY <1>1, QueueGrows
      <3> QED
        BY <2>1, <3>1
    <2>2. CASE b # c
      <3>1. PICK f \in Executors : \E i \in DOMAIN queue[f] : queue[f][i] = b
        BY <1>1, <1>3, <2>2 DEF QueuedIsInQueue
      <3> QED
        BY <1>1, <3>1, QueueGrows
    <2> QED
      BY <2>1, <2>2
  <1> QED
    BY <1>2, <1>3 DEF InQueues, QueuedIsInQueue

\* No task begins or ceases to be pending, and no coroutine to await.
LEMMA ContinuationsRest ==
    ASSUME TaskInv, UNCHANGED <<continuation, executor>>,
           \A b \in Coroutines : /\ Pending(b)' <=> Pending(b)
                                 /\ status'[b] = "awaiting" <=> status[b] = "awaiting"
                                 /\ status[b] = "awaiting" => asked'[b] = asked[b] /\ awaited'[b] = awaited[b]
    PROVE  AsContinuations' /\ AwaitingHasTask'
  <1> QED
    BY DEF TaskInv, AsContinuations, StatusTells, AwaitingHasTask, Coroutines

\* c awaits k, which was created and is started.
LEMMA TaskIsAwaited ==
    ASSUME TaskInv, TypeOK', NEW t \in Threads, NEW c \in Coroutines, NEW k \in Tasks,
           Runs(t, c), status[k] = "created", SetContinuation(t, c, k),
           status'[c] = "awaiting", status'[k] \in {"running", "queued"},
           \A b \in Coroutines \ {c, k} : status'[b] = status[b]
    PROVE  AsContinuations' /\ AwaitingHasTask'
  <1>1. /\ status[c] = "running" /\ c # k /\ TypeOK
        /\ continuation' = [continuation EXCEPT ![k] = c]
        /\ executor' = [executor EXCEPT ![k] = current(t)]
        /\ asked' = [asked EXCEPT ![c] = current(t)]
        /\ awaited' = [awaited EXCEPT ![c] = k]
    BY DEF TaskInv, OnThreads, Runs, SetContinuation
  <1>2. ASSUME NEW j \in Tasks, Pending(j)'
        PROVE  /\ continuation'[j] \in Coroutines
               /\ status'[continuation'[j]] = "awaiting"
               /\ awaited'[continuation'[j]] = j
               /\ asked'[continuation'[j]] = executor'[j]
    <2>1. CASE j = k
      BY <1>1, <2>1 DEF TypeOK
    <2>2. CASE j # k
      <3>1. Pending(j) /\ continuation'[j] = continuation[j] /\ executor'[j] = executor[j]
        BY <1>1, <1>2, <2>2 DEF TypeOK, Pending, Coroutines
      <3>2. /\ continuation[j] \in Coroutines \ {c, k} /\ status[continuation[j]] = "awaiting"
            /\ awaited[continuation[j]] = j /\ asked[continuation[j]] = executor[j]
        BY <1>1, <3>1 DEF TaskInv, AsContinuations
      <3> QED
        BY <1>1, <3>1, <3>2 DEF TypeOK
    <2> QED
      BY <2>1, <2>2
  <1>3. ASSUME NEW b \in Coroutines, status'[b] = "awaiting"
        PROVE  awaited'[b] \in Tasks /\ Pending(awaited[b])' /\ continuation'[awaited'[b]] = b
    <2>1. CASE b = c
      BY <1>1, <2>1 DEF TypeOK, Pending
    <2>2. CASE b # c
      <3>1. /\ b # k /\ awaited'[b] = awaited[b] /\ awaited[b] \in Tasks /\ awaited[b] # k
            /\ Pending(awaited[b]) /\ continuation[awaited[b]] = b
        BY <1>1, <1>3, <2>2 DEF TaskInv, TypeOK, StatusTells, AwaitingHasTask, Pending
      <3>2. Pending(awaited[b])'
        BY <1>1, <3>1 DEF Pending, Coroutines
      <3> QED
        BY <1>1, <3>1, <3>2 DEF TypeOK
    <2> QED
      BY <2>1, <2>2
  <1> QED
    BY <1>2, <1>3 DEF AsContinuations, AwaitingHasTask

-----------------------------------------------------------------------------
(* The steps                                                                  *)

LEMMA AsyncWaitKeepsInv ==
    ASSUME TaskInv, NEW c \in Clients, AsyncWait(c)
    PROVE  TaskInv'
  <1> USE DEF Threads, Coroutines
  <1>1. /\ TypeOK /\ status[c] = "created" /\ on[c] = None /\ c # None /\ c \notin Tasks
        /\ c \in Threads /\ c \in Coroutines
        /\ asked[c] = None /\ awaited[c] = None /\ result[c] = "none"
    BY NoneAssumption, DisjointAssumption DEF TaskInv, StatusTells, CreatedIsNew, ClientTells, AsyncWait
  <1>2. /\ on' = [on EXCEPT ![c] = c] /\ status' = [status EXCEPT ![c] = "running"]
        /\ client' = [client EXCEPT ![c] = "starting"]
        /\ UNCHANGED <<queue, continuation, executor, result, awaited, event, waking, hops, asked>>
    BY DEF AsyncWait
  <1>3. \A b \in Coroutines : status'[b] = IF b = c THEN "running" ELSE status[b]
    BY <1>1, <1>2 DEF TypeOK
  <1>4. TypeOK'
    BY <1>1, <1>2 DEF TypeOK
  <1> HIDE DEF Threads, Coroutines
  <1>5. OnThreads' /\ RunningIsOnThread' /\ RunsWhereAsked'
    <2>1. \A b \in Coroutines : /\ status'[b] = "running" <=> b = c \/ (status[b] = "running" /\ on[c] # b)
                                /\ status[b] = "running" /\ on[c] # b => asked'[b] = asked[b]
      BY <1>1, <1>2, <1>3, NoneIsNone
    <2>2. status[c] # "running" /\ asked'[c] \in {None, current(c)}
      BY <1>1, <1>2
    <2>3. c \in Threads /\ c \in Coroutines \cup {None} /\ on' = [on EXCEPT ![c] = c] /\ TypeOK'
      BY <1>1, <1>2, <1>4
    <2> QED
      BY <2>1, <2>2, <2>3, ThreadTurns
  <1>6. InQueues' /\ QueuedIsInQueue'
    BY <1>1, <1>2, <1>3, QueuesRest
  <1>7. AsContinuations' /\ AwaitingHasTask'
    <2>1. \A b \in Coroutines : status[b] = "awaiting" => asked'[b] = asked[b] /\ awaited'[b] = awaited[b]
      BY <1>2
    <2>2. \A k \in Tasks : status'[k] = status[k]
      BY <1>1, <1>3 DEF Coroutines
    <2> QED
      BY <1>1, <1>2, <1>3, <2>2
         DEF TaskInv, AsContinuations, StatusTells, AwaitingHasTask, Pending
  <1>8. CreatedIsNew' /\ DoneHasResult' /\ ResultBeforeResume'
    BY <1>1, <1>2, <1>3 DEF TaskInv, TypeOK, StatusTells, CreatedIsNew, DoneHasResult, ResultBeforeResume
  <1>9. ClientTells'
    BY <1>1, <1>2, <1>3 DEF TaskInv, TypeOK, ClientTells, Coroutines
  <1> QED
    BY <1>4, <1>5, <1>6, <1>7, <1>8, <1>9 DEF TaskInv, StatusTells

LEMMA ClientStepKeepsInv ==
    ASSUME TaskInv, NEW c \in Clients, ClientStep(c)
    PROVE  TaskInv'
  <1>1. /\ TypeOK /\ client[c] # "idle"
        /\ \E at \in {"waiting", "returned"} :
               client' = [client EXCEPT ![c] = at] /\ (at = "returned" => event[c])
        /\ UNCHANGED <<queue, on, status, continuation, executor, result, awaited, event, waking, hops, asked>>
    BY DEF TaskInv, ClientStep, StartReturns, WaitReturns
  <1>2. TypeOK' /\ ClientTells'
    BY <1>1 DEF TaskInv, TypeOK, ClientTells
  <1>3. OnThreads' /\ InQueues' /\ AsContinuations' /\ RunsWhereAsked' /\ ResultBeforeResume'
    BY <1>1 DEF TaskInv, OnThreads, InQueues, AsContinuations, RunsWhereAsked, ResultBeforeResume, Pending
  <1>4. StatusTells'
    BY <1>1 DEF TaskInv, StatusTells, CreatedIsNew, RunningIsOnThread, QueuedIsInQueue,
                AwaitingHasTask, DoneHasResult, Pending
  <1> QED
    BY <1>2, <1>3, <1>4 DEF TaskInv

\* The executor's thread takes what is first in its queue.
LEMMA DispatchKeepsInv ==
    ASSUME TaskInv, NEW e \in Executors, Dispatch(e)
    PROVE  TaskInv'
  <1> USE DEF Threads, Coroutines
  <1> DEFINE c == Head(queue[e])
  <1>1. /\ on[e] = None /\ on' = [on EXCEPT ![e] = c] /\ status' = [status EXCEPT ![c] = "running"]
        /\ queue[e] # <<>> /\ queue' = [queue EXCEPT ![e] = Tail(queue[e])]
        /\ UNCHANGED <<continuation, executor, result, awaited, client, event, waking, hops, asked>>
    BY DEF Dispatch
  <1>2. /\ TypeOK /\ 1 \in DOMAIN queue[e] /\ c = queue[e][1] /\ c \in Coroutines /\ c # None
        /\ status[c] = "queued" /\ asked[c] \in {None, e}
    <2>1. TypeOK /\ 1 \in DOMAIN queue[e] /\ c = queue[e][1] /\ c \in Coroutines
      BY <1>1, QueueShrinks DEF TaskInv
    <2> QED
      BY <2>1, NoneAssumption DEF TaskInv, InQueues
  <1>3. e \in Threads
    OBVIOUS
  <1> HIDE DEF c, Threads, Coroutines
  <1>4. \A b \in Coroutines : status'[b] = IF b = c THEN "running" ELSE status[b]
    BY <1>1, <1>2 DEF TypeOK
  <1>5. TypeOK'
    <2>1. queue' \in [Executors -> Seq(Coroutines)]
      BY <1>1, <1>2, QueueShrinks
    <2> QED
      BY <1>1, <1>2, <2>1 DEF TypeOK
  <1>6. OnThreads' /\ RunningIsOnThread' /\ RunsWhereAsked'
    <2>1. \A b \in Coroutines : /\ status'[b] = "running" <=> b = c \/ (status[b] = "running" /\ on[e] # b)
                                /\ status[b] = "running" /\ on[e] # b => asked'[b] = asked[b]
      BY <1>1, <1>2, <1>4, NoneIsNone
    <2>2. status[c] # "running" /\ asked'[c] \in {None, current(e)}
      BY <1>1, <1>2 DEF current
    <2>3. c \in Coroutines \cup {None} /\ on' = [on EXCEPT ![e] = c] /\ TypeOK'
      BY <1>1, <1>2, <1>5
    <2> QED
      BY <1>3, <2>1, <2>2, <2>3, ThreadTurns
  <1>7. InQueues' /\ QueuedIsInQueue'
    <2>1. /\ \A f \in Executors : \A i \in DOMAIN queue'[f] :
                 \/ f # e /\ i \in DOMAIN queue[f] /\ queue'[f][i] = queue[f][i]
                 \/ f = e /\ i + 1 \in DOMAIN queue[e] /\ queue'[f][i] = queue[e][i + 1] /\ i \in Nat \ {0}
          /\ \A f \in Executors : \A i \in DOMAIN queue[f] :
                 \/ f # e /\ i \in DOMAIN queue'[f] /\ queue'[f][i] = queue[f][i]
                 \/ f = e /\ i = 1
                 \/ f = e /\ i - 1 \in DOMAIN queue'[f] /\ queue'[f][i - 1] = queue[f][i]
      BY <1>1, <1>2, QueueShrinks
    <2>2. ASSUME NEW f \in Executors, NEW i \in DOMAIN queue'[f]
          PROVE  /\ queue'[f][i] \in Coroutines /\ queue'[f][i] # c
                 /\ status[queue'[f][i]] = "queued" /\ asked[queue'[f][i]] \in {None, f}
      <3>1. PICK g \in Executors : \E j \in DOMAIN queue[g] : queue'[f][i] = queue[g][j] /\ f = g /\ ~(g = e /\ j = 1)
        BY <2>1
      <3>2. \A j \in DOMAIN queue[g] : queue[g][j] = c => g = e /\ j = 1
        BY <1>2 DEF TaskInv, InQueues
      <3>3. \A j \in DOMAIN queue[g] : queue[g][j] \in Coroutines
        BY <1>2 DEF TypeOK
      <3> QED
        BY <3>1, <3>2, <3>3 DEF TaskInv, InQueues
    <2>3. ASSUME NEW f \in Executors, NEW i \in DOMAIN queue'[f],
                 NEW g \in Executors, NEW j \in DOMAIN queue'[g], queue'[f][i] = queue'[g][j]
          PROVE  f = g /\ i = j
      <3>1. InQueues
        BY DEF TaskInv
      <3> QED
        BY <2>1, <2>3, <3>1 DEF InQueues
    <2>4. ASSUME NEW d \in Coroutines, status'[d] = "queued"
          PROVE  \E f \in Executors : \E i \in DOMAIN queue'[f] : queue'[f][i] = d
      <3>1. d # c /\ status[d] = "queued"
        BY <1>4, <2>4
      <3>2. PICK f \in Executors : \E i \in DOMAIN queue[f] : queue[f][i] = d
        BY <3>1 DEF TaskInv, StatusTells, QueuedIsInQueue
      <3> QED
        BY <1>2, <2>1, <3>1, <3>2
    <2> QED
      BY <1>1, <1>4, <2>2, <2>3, <2>4 DEF InQueues, QueuedIsInQueue
  <1>8. AsContinuations' /\ AwaitingHasTask'
    BY <1>1, <1>2, <1>4, ContinuationsRest DEF Pending
  <1>9. CreatedIsNew' /\ DoneHasResult' /\ ResultBeforeResume'
    BY <1>1, <1>2, <1>4 DEF TaskInv, TypeOK, StatusTells, CreatedIsNew, DoneHasResult, ResultBeforeResume
  <1>10. ClientTells'
    BY <1>1, <1>2, <1>3, <1>4, DisjointAssumption DEF TaskInv, TypeOK, ClientTells, Coroutines, Threads
  <1> QED
    BY <1>5, <1>6, <1>7, <1>8, <1>9, <1>10 DEF TaskInv, StatusTells

\* A coroutine goes to an executor, or is there.
LEMMA HopKeepsInv ==
    ASSUME TaskInv, NEW t \in Threads, NEW e \in Executors, Hop(t, e)
    PROVE  TaskInv'
  <1>1. PICK c \in Tasks :
            /\ Runs(t, c) /\ hops < MaxHops /\ hops' = hops + 1
            /\ asked' = [asked EXCEPT ![c] = e]
            /\ \/ /\ current(t) = e
                  /\ UNCHANGED <<queue, on, status>>
               \/ /\ current(t) # e
                  /\ queue' = [queue EXCEPT ![e] = Append(@, c)]
                  /\ status' = [status EXCEPT ![c] = "queued"]
                  /\ on' = [on EXCEPT ![t] = None]
            /\ UNCHANGED <<continuation, executor, result, awaited, client, event, waking>>
    BY DEF Hop
  <1>2. /\ TypeOK /\ c \in Coroutines /\ c \notin Clients /\ on[t] = c /\ c # None
        /\ status[c] = "running" /\ asked[c] \in {None, current(t)}
    BY <1>1, DisjointAssumption DEF TaskInv, OnThreads, RunsWhereAsked, Runs, Coroutines
  <1>3. \A b \in Coroutines : asked'[b] = IF b = c THEN e ELSE asked[b]
    BY <1>1, <1>2 DEF TypeOK
  <1>4. CASE current(t) = e /\ UNCHANGED <<queue, on, status>>
    <2>1. TypeOK'
      BY <1>1, <1>2, <1>4, MaxHopsAssumption DEF TypeOK
    <2>2. OnThreads' /\ RunningIsOnThread' /\ RunsWhereAsked'
      <3>1. RunsWhereAsked'
        BY <1>2, <1>3, <1>4 DEF TaskInv, OnThreads, RunsWhereAsked, TypeOK, current
      <3> QED
        BY <1>4, <3>1 DEF TaskInv, StatusTells, OnThreads, RunningIsOnThread
    <2>3. InQueues' /\ QueuedIsInQueue'
      BY <1>2, <1>3, <1>4, QueuesRest
    <2>4. AsContinuations' /\ AwaitingHasTask'
      BY <1>1, <1>2, <1>3, <1>4, ContinuationsRest DEF Pending
    <2>5. CreatedIsNew' /\ DoneHasResult' /\ ResultBeforeResume'
      BY <1>1, <1>2, <1>3, <1>4
         DEF TaskInv, TypeOK, StatusTells, CreatedIsNew, DoneHasResult, ResultBeforeResume
    <2>6. ClientTells'
      BY <1>1, <1>4 DEF TaskInv, ClientTells
    <2> QED
      BY <2>1, <2>2, <2>3, <2>4, <2>5, <2>6 DEF TaskInv, StatusTells
  <1>5. CASE /\ queue' = [queue EXCEPT ![e] = Append(@, c)]
             /\ status' = [status EXCEPT ![c] = "queued"]
             /\ on' = [on EXCEPT ![t] = None]
    <2>1. \A b \in Coroutines : status'[b] = IF b = c THEN "queued" ELSE status[b]
      BY <1>2, <1>5 DEF TypeOK
    <2>2. TypeOK'
      <3>1. queue' \in [Executors -> Seq(Coroutines)]
        BY <1>2, <1>5, QueueGrows
      <3> QED
        BY <1>1, <1>2, <1>5, <3>1, MaxHopsAssumption DEF TypeOK
    <2>3. OnThreads' /\ RunningIsOnThread' /\ RunsWhereAsked'
      <3>1. \A b \in Coroutines : /\ status'[b] = "running" <=> b = None \/ (status[b] = "running" /\ on[t] # b)
                                  /\ status[b] = "running" /\ on[t] # b => asked'[b] = asked[b]
        BY <1>2, <1>3, <2>1, NoneIsNone
      <3>2. None \in Coroutines \cup {None} /\ on' = [on EXCEPT ![t] = None] /\ TypeOK'
        BY <1>5, <2>2
      <3> QED
        BY <3>1, <3>2, ThreadTurns
    <2>4. InQueues' /\ QueuedIsInQueue'
      <3>1. \A b \in Coroutines : /\ status'[b] = "queued" <=> b = c \/ status[b] = "queued"
                                  /\ status[b] = "queued" => asked'[b] = asked[b]
        BY <1>2, <1>3, <2>1
      <3>2. /\ queue' = [queue EXCEPT ![e] = Append(@, c)] /\ c \in Coroutines
            /\ status[c] # "queued" /\ asked'[c] \in {None, e}
        BY <1>2, <1>3, <1>5
      <3> QED
        BY <3>1, <3>2, QueueTakes
    <2>5. AsContinuations' /\ AwaitingHasTask'
      BY <1>1, <1>2, <1>3, <2>1, ContinuationsRest DEF Pending
    <2>6. CreatedIsNew' /\ DoneHasResult' /\ ResultBeforeResume'
      BY <1>1, <1>2, <1>3, <2>1
         DEF TaskInv, TypeOK, StatusTells, CreatedIsNew, DoneHasResult, ResultBeforeResume, Coroutines
    <2>7. ClientTells'
      BY <1>1, <1>2, <1>5, <2>1 DEF TaskInv, TypeOK, ClientTells, Coroutines, Threads
    <2> QED
      BY <2>2, <2>3, <2>4, <2>5, <2>6, <2>7 DEF TaskInv, StatusTells
  <1> QED
    BY <1>1, <1>4, <1>5

\* co_await of a task, in place of its awaiter or on an executor
LEMMA AwaitKeepsInv ==
    ASSUME TaskInv, NEW t \in Threads, NEW k \in Tasks,
           AwaitTask(t, k) \/ \E e \in Executors : AwaitScheduled(t, k, e)
    PROVE  TaskInv'
  <1>1. PICK c \in Coroutines :
            /\ Runs(t, c) /\ MayAwait(c) /\ status[k] = "created" /\ SetContinuation(t, c, k)
            /\ \/ /\ on' = [on EXCEPT ![t] = k]
                  /\ status' = [status EXCEPT ![c] = "awaiting", ![k] = "running"]
                  /\ UNCHANGED queue
               \/ /\ \E e \in Executors : queue' = [queue EXCEPT ![e] = Append(@, k)]
                  /\ status' = [status EXCEPT ![c] = "awaiting", ![k] = "queued"]
                  /\ on' = [on EXCEPT ![t] = None]
            /\ UNCHANGED <<result, client, event, waking, hops>>
    BY DEF AwaitTask, AwaitScheduled
  <1>2. /\ TypeOK /\ on[t] = c /\ c # None /\ status[c] = "running" /\ c # k
        /\ k \in Coroutines /\ k \notin Clients /\ asked[k] = None /\ awaited[k] = None
    BY <1>1, DisjointAssumption
       DEF TaskInv, OnThreads, StatusTells, CreatedIsNew, Runs, Coroutines
  <1>3. /\ continuation' = [continuation EXCEPT ![k] = c]
        /\ executor' = [executor EXCEPT ![k] = current(t)]
        /\ \A b \in Coroutines : /\ asked'[b] = IF b = c THEN current(t) ELSE asked[b]
                                 /\ awaited'[b] = IF b = c THEN k ELSE awaited[b]
    BY <1>1, <1>2 DEF SetContinuation, TypeOK
  <1>4. PICK s \in {"running", "queued"} :
            \A b \in Coroutines : status'[b] = IF b = k THEN s ELSE IF b = c THEN "awaiting" ELSE status[b]
    BY <1>1, <1>2 DEF TypeOK
  <1>5. TypeOK'
    <2>1. queue' \in [Executors -> Seq(Coroutines)]
      BY <1>1, <1>2, QueueGrows DEF TypeOK
    <2>2. current(t) \in Executors \cup {None}
      BY DEF current
    <2>3. asked' \in [Coroutines -> Executors \cup {None}] /\ awaited' \in [Coroutines -> Tasks \cup {None}]
      BY <1>1, <1>2, <2>2 DEF SetContinuation, TypeOK
    <2>4. on' \in [Threads -> Coroutines \cup {None}]
      BY <1>1, <1>2 DEF TypeOK
    <2>5. status' \in [Coroutines -> {"created", "running", "queued", "awaiting", "done"}]
      <3>1. status \in [Coroutines -> {"created", "running", "queued", "awaiting", "done"}]
        BY <1>2 DEF TypeOK
      <3>2. \E r \in {"running", "queued"} : status' = [status EXCEPT ![c] = "awaiting", ![k] = r]
        BY <1>1
      <3> QED
        BY <3>1, <3>2
    <2>6. continuation' \in [Tasks -> Coroutines \cup {None}] /\ executor' \in [Tasks -> Executors \cup {None}]
      BY <1>2, <1>3, <2>2 DEF TypeOK
    <2> QED
      BY <1>1, <1>2, <2>1, <2>3, <2>4, <2>5, <2>6 DEF TypeOK
  <1>6. AsContinuations' /\ AwaitingHasTask'
    BY <1>1, <1>2, <1>4, <1>5, TaskIsAwaited
  <1>7. OnThreads' /\ RunningIsOnThread' /\ RunsWhereAsked' /\ InQueues' /\ QueuedIsInQueue'
    <2>1. CASE /\ on' = [on EXCEPT ![t] = k] /\ UNCHANGED queue
               /\ status' = [status EXCEPT ![c] = "awaiting", ![k] = "running"]
      <3>1. status'[k] = "running"
        BY <1>2, <2>1 DEF TypeOK
      <3>2. \A b \in Coroutines : /\ status'[b] = "running" <=> b = k \/ (status[b] = "running" /\ on[t] # b)
                                  /\ status[b] = "running" /\ on[t] # b => asked'[b] = asked[b]
        BY <1>2, <1>3, <1>4, <3>1
      <3>3. /\ k \in Coroutines \cup {None} /\ on' = [on EXCEPT ![t] = k]
            /\ status[k] # "running" /\ asked'[k] \in {None, current(t)}
        BY <1>1, <1>2, <1>3, <2>1
      <3>4. OnThreads' /\ RunningIsOnThread' /\ RunsWhereAsked'
        BY <1>5, <3>2, <3>3, ThreadTurns
      <3>5. \A b \in Coroutines : /\ status'[b] = "queued" <=> status[b] = "queued"
                                  /\ status[b] = "queued" => asked'[b] = asked[b]
        BY <1>1, <1>2, <1>3, <1>4, <3>1
      <3>6. InQueues' /\ QueuedIsInQueue'
        BY <2>1, <3>5, QueuesRest
      <3> QED
        BY <3>4, <3>6
    <2>2. ASSUME NEW e \in Executors, queue' = [queue EXCEPT ![e] = Append(@, k)],
                 on' = [on EXCEPT ![t] = None],
                 status' = [status EXCEPT ![c] = "awaiting", ![k] = "queued"]
          PROVE  OnThreads' /\ RunningIsOnThread' /\ RunsWhereAsked' /\ InQueues' /\ QueuedIsInQueue'
      <3>1. status'[k] = "queued"
        BY <1>2, <2>2 DEF TypeOK
      <3>2. \A b \in Coroutines : /\ status'[b] = "running" <=> b = None \/ (status[b] = "running" /\ on[t] # b)
                                  /\ status[b] = "running" /\ on[t] # b => asked'[b] = asked[b]
        BY <1>1, <1>2, <1>3, <1>4, <3>1, NoneIsNone
      <3>3. None \in Coroutines \cup {None} /\ on' = [on EXCEPT ![t] = None]
        BY <2>2
      <3>4. OnThreads' /\ RunningIsOnThread' /\ RunsWhereAsked'
        BY <1>5, <3>2, <3>3, ThreadTurns
      <3>5. \A b \in Coroutines : /\ status'[b] = "queued" <=> b = k \/ status[b] = "queued"
                                  /\ status[b] = "queued" => asked'[b] = asked[b]
        BY <1>1, <1>2, <1>3, <1>4, <3>1
      <3>6. /\ queue' = [queue EXCEPT ![e] = Append(@, k)] /\ k \in Coroutines
            /\ status[k] # "queued" /\ asked'[k] \in {None, e}
        BY <1>1, <1>2, <1>3, <2>2
      <3>7. InQueues' /\ QueuedIsInQueue'
        BY <3>5, <3>6, QueueTakes
      <3> QED
        BY <3>4, <3>7
    <2> QED
      BY <1>1, <2>1, <2>2
  <1>8. CreatedIsNew' /\ DoneHasResult' /\ ResultBeforeResume'
    <2>1. CreatedIsNew' /\ DoneHasResult'
      BY <1>1, <1>2, <1>3, <1>4 DEF TaskInv, StatusTells, CreatedIsNew, DoneHasResult
    <2>2. ASSUME NEW b \in Coroutines, status'[b] \in {"queued", "running"}, awaited'[b] # None
          PROVE  status'[awaited'[b]] = "done" /\ result'[awaited'[b]] # "none"
      <3>1. b \notin {c, k} /\ status'[b] = status[b] /\ awaited'[b] = awaited[b] /\ awaited[b] \in Tasks
        BY <1>2, <1>3, <1>4, <2>2 DEF TypeOK
      <3>2. status[awaited[b]] = "done" /\ result[awaited[b]] # "none"
        BY <2>2, <3>1 DEF TaskInv, ResultBeforeResume
      <3> QED
        BY <1>1, <1>2, <1>4, <3>1, <3>2 DEF Coroutines
    <2> QED
      BY <2>1, <2>2 DEF ResultBeforeResume
  <1>9. ClientTells'
    <2> SUFFICES ASSUME NEW b \in Clients
                 PROVE  /\ client[b] = "idle" => status'[b] = "created" /\ on'[b] = None
                        /\ client[b] = "returned" => event[b]
                        /\ event[b] => /\ status'[b] = "done"
                                       /\ awaited'[b] \in Tasks /\ status'[awaited'[b]] = "done"
                                       /\ result[b] = result[awaited'[b]]
      BY <1>1 DEF ClientTells
    <2>1. b # k /\ b \in Coroutines /\ b \in Threads
      BY <1>2 DEF Coroutines, Threads
    <2>2. CASE client[b] = "idle"
      <3>1. status[b] = "created" /\ on[b] = None
        BY <2>2 DEF TaskInv, ClientTells
      <3> QED
        BY <1>1, <1>2, <1>4, <2>1, <2>2, <3>1 DEF TypeOK, TaskInv, ClientTells
    <2>3. CASE event[b]
      <3>1. /\ status[b] = "done" /\ awaited[b] \in Tasks /\ status[awaited[b]] = "done"
            /\ result[b] = result[awaited[b]]
        BY <2>3 DEF TaskInv, ClientTells
      <3>2. awaited'[b] = awaited[b] /\ status'[b] = "done" /\ status'[awaited[b]] = "done"
        <4>1. b \notin {c, k} /\ awaited[b] \notin {c, k} /\ awaited[b] \in Coroutines
          BY <1>1, <1>2, <2>1, <3>1 DEF Coroutines
        <4> QED
          BY <1>3, <1>4, <2>1, <3>1, <4>1
      <3> QED
        BY <2>3, <3>1, <3>2 DEF TaskInv, ClientTells
    <2> QED
      BY <2>2, <2>3 DEF TaskInv, ClientTells
  <1> QED
    BY <1>5, <1>6, <1>7, <1>8, <1>9 DEF TaskInv, StatusTells

\* A task is done, and its continuation goes on, here or where it awaited.
LEMMA ReturnKeepsInv ==
    ASSUME TaskInv, NEW t \in Threads, Return(t)
    PROVE  TaskInv'
  <1>1. PICK k \in Tasks, o \in {"value", "error"} :
            /\ Runs(t, k) /\ result' = [result EXCEPT ![k] = o]
            /\ \/ /\ executor[k] \in {None, current(t)}
                  /\ on' = [on EXCEPT ![t] = continuation[k]]
                  /\ status' = [status EXCEPT ![k] = "done", ![continuation[k]] = "running"]
                  /\ UNCHANGED queue
               \/ /\ executor[k] \notin {None, current(t)}
                  /\ queue' = [queue EXCEPT ![executor[k]] = Append(@, continuation[k])]
                  /\ status' = [status EXCEPT ![k] = "done", ![continuation[k]] = "queued"]
                  /\ on' = [on EXCEPT ![t] = None]
            /\ UNCHANGED <<continuation, executor, awaited, client, event, waking, hops, asked>>
    BY DEF Return
  <1> DEFINE c == continuation[k]
  <1>2. /\ TypeOK /\ on[t] = k /\ k # None /\ k \in Coroutines /\ k \notin Clients
        /\ status[k] = "running" /\ Pending(k)
    BY <1>1, DisjointAssumption DEF TaskInv, OnThreads, Runs, Coroutines, Pending
  <1>3. /\ c \in Coroutines /\ status[c] = "awaiting" /\ awaited[c] = k /\ asked[c] = executor[k]
        /\ c # None /\ c # k /\ executor[k] \in Executors \cup {None}
    BY <1>2, NoneIsNone DEF TaskInv, AsContinuations, TypeOK
  <1>4. PICK s \in {"running", "queued"} : status' = [status EXCEPT ![k] = "done", ![c] = s]
    BY <1>1
  <1>5. on' \in [Threads -> Coroutines \cup {None}]
    BY <1>1, <1>2, <1>3 DEF TypeOK
  <1>7. /\ UNCHANGED <<continuation, executor, awaited, client, event, waking, hops, asked>>
        /\ result' = [result EXCEPT ![k] = o]
        /\ \/ /\ executor[k] \in {None, current(t)}
              /\ on' = [on EXCEPT ![t] = c] /\ UNCHANGED queue /\ status'[c] = "running"
           \/ /\ executor[k] \in Executors /\ queue' = [queue EXCEPT ![executor[k]] = Append(@, c)]
              /\ on' = [on EXCEPT ![t] = None] /\ status'[c] = "queued"
    BY <1>1, <1>2, <1>3 DEF TypeOK
  <1> HIDE DEF c
  <1>6. queue' \in [Executors -> Seq(Coroutines)]
    <2>1. CASE UNCHANGED queue
      BY <1>2, <2>1 DEF TypeOK
    <2>2. CASE executor[k] \in Executors /\ queue' = [queue EXCEPT ![executor[k]] = Append(@, c)]
      BY <1>2, <1>3, <2>2, QueueGrows
    <2> QED
      BY <1>7, <2>1, <2>2
  <1>8. \A b \in Coroutines : /\ status'[b] = IF b = k THEN "done" ELSE IF b = c THEN s ELSE status[b]
                              /\ result'[b] = IF b = k THEN o ELSE result[b]
    BY <1>2, <1>3, <1>4, <1>7 DEF TypeOK
  <1>9. TypeOK'
    <2>1. status' \in [Coroutines -> {"created", "running", "queued", "awaiting", "done"}]
      BY <1>2, <1>4 DEF TypeOK
    <2> QED
      BY <1>2, <1>5, <1>6, <1>7, <2>1 DEF TypeOK
  <1>10. OnThreads' /\ RunningIsOnThread' /\ RunsWhereAsked' /\ InQueues' /\ QueuedIsInQueue'
    <2>1. CASE /\ executor[k] \in {None, current(t)}
               /\ on' = [on EXCEPT ![t] = c] /\ UNCHANGED queue /\ status'[c] = "running"
      <3>1. \A b \in Coroutines : /\ status'[b] = "running" <=> b = c \/ (status[b] = "running" /\ on[t] # b)
                                  /\ status[b] = "running" /\ on[t] # b => asked'[b] = asked[b]
        BY <1>2, <1>3, <1>7, <1>8, <2>1
      <3>2. /\ c \in Coroutines \cup {None} /\ on' = [on EXCEPT ![t] = c]
            /\ status[c] # "running" /\ asked'[c] \in {None, current(t)}
        BY <1>3, <1>7, <2>1
      <3>3. OnThreads' /\ RunningIsOnThread' /\ RunsWhereAsked'
        BY <1>9, <3>1, <3>2, ThreadTurns
      <3>4. \A b \in Coroutines : /\ status'[b] = "queued" <=> status[b] = "queued"
                                  /\ status[b] = "queued" => asked'[b] = asked[b]
        BY <1>2, <1>3, <1>7, <1>8, <2>1
      <3>5. InQueues' /\ QueuedIsInQueue'
        BY <2>1, <3>4, QueuesRest
      <3> QED
        BY <3>3, <3>5
    <2>2. CASE /\ executor[k] \in Executors /\ queue' = [queue EXCEPT ![executor[k]] = Append(@, c)]
               /\ on' = [on EXCEPT ![t] = None] /\ status'[c] = "queued"
      <3>1. \A b \in Coroutines : /\ status'[b] = "running" <=> b = None \/ (status[b] = "running" /\ on[t] # b)
                                  /\ status[b] = "running" /\ on[t] # b => asked'[b] = asked[b]
        BY <1>2, <1>3, <1>7, <1>8, <2>2, NoneIsNone
      <3>2. None \in Coroutines \cup {None} /\ on' = [on EXCEPT ![t] = None]
        BY <2>2
      <3>3. OnThreads' /\ RunningIsOnThread' /\ RunsWhereAsked'
        BY <1>9, <3>1, <3>2, ThreadTurns
      <3>4. \A b \in Coroutines : /\ status'[b] = "queued" <=> b = c \/ status[b] = "queued"
                                  /\ status[b] = "queued" => asked'[b] = asked[b]
        BY <1>2, <1>3, <1>7, <1>8, <2>2
      <3>5. /\ queue' = [queue EXCEPT ![executor[k]] = Append(@, c)] /\ c \in Coroutines
            /\ status[c] # "queued" /\ asked'[c] \in {None, executor[k]}
        BY <1>3, <1>7, <2>2
      <3>6. InQueues' /\ QueuedIsInQueue'
        BY <2>2, <3>4, <3>5, QueueTakes
      <3> QED
        BY <3>3, <3>6
    <2> QED
      BY <1>7, <2>1, <2>2
  <1>11. AsContinuations'
    <2> SUFFICES ASSUME NEW j \in Tasks, Pending(j)'
                 PROVE  /\ continuation[j] \in Coroutines /\ status'[continuation[j]] = "awaiting"
                        /\ awaited[continuation[j]] = j /\ asked[continuation[j]] = executor[j]
      BY <1>7 DEF AsContinuations
    <2>1. j # k /\ Pending(j)
      BY <1>3, <1>8 DEF Pending, Coroutines
    <2>2. /\ continuation[j] \in Coroutines /\ status[continuation[j]] = "awaiting"
          /\ awaited[continuation[j]] = j /\ asked[continuation[j]] = executor[j]
      BY <2>1 DEF TaskInv, AsContinuations
    <2> QED
      BY <1>2, <1>3, <1>8, <2>1, <2>2
  <1>12. AwaitingHasTask'
    <2> SUFFICES ASSUME NEW b \in Coroutines, status'[b] = "awaiting"
                 PROVE  awaited[b] \in Tasks /\ Pending(awaited[b])' /\ continuation[awaited[b]] = b
      BY <1>7 DEF AwaitingHasTask, Pending
    <2>1. b # c /\ status[b] = "awaiting"
      BY <1>3, <1>8
    <2>2. awaited[b] \in Tasks /\ Pending(awaited[b]) /\ continuation[awaited[b]] = b
      BY <2>1 DEF TaskInv, StatusTells, AwaitingHasTask
    <2>3. awaited[b] # k
      BY <2>1, <2>2 DEF c
    <2> QED
      BY <1>7, <1>8, <2>2, <2>3 DEF Pending, Coroutines
  <1>13. CreatedIsNew' /\ DoneHasResult' /\ ResultBeforeResume'
    <2>1. CreatedIsNew' /\ DoneHasResult'
      BY <1>2, <1>3, <1>7, <1>8 DEF TaskInv, StatusTells, CreatedIsNew, DoneHasResult
    <2>2. ASSUME NEW b \in Coroutines, status'[b] \in {"queued", "running"}, awaited[b] # None
          PROVE  status'[awaited[b]] = "done" /\ result'[awaited[b]] # "none"
      <3>1. b # k
        BY <1>8, <2>2
      <3>2. CASE b = c
        BY <1>2, <1>3, <1>8, <3>2
      <3>3. CASE b # c
        <4>1. status[b] = status'[b] /\ awaited[b] \in Coroutines
          BY <1>2, <1>8, <2>2, <3>1, <3>3 DEF TypeOK, Coroutines
        <4>2. status[awaited[b]] = "done" /\ result[awaited[b]] # "none"
          BY <2>2, <4>1 DEF TaskInv, ResultBeforeResume
        <4> QED
          BY <1>2, <1>3, <1>8, <4>1, <4>2
      <3> QED
        BY <3>2, <3>3
    <2> QED
      BY <1>7, <2>1, <2>2 DEF ResultBeforeResume
  <1>14. ClientTells'
    <2> SUFFICES ASSUME NEW b \in Clients
                 PROVE  /\ client[b] = "idle" => status'[b] = "created" /\ on'[b] = None
                        /\ client[b] = "returned" => event[b]
                        /\ event[b] => /\ status'[b] = "done"
                                       /\ awaited[b] \in Tasks /\ status'[awaited[b]] = "done"
                                       /\ result'[b] = result'[awaited[b]]
      BY <1>7 DEF ClientTells
    <2>1. b # k /\ b \in Coroutines /\ b \in Threads
      BY <1>2 DEF Coroutines, Threads
    <2>2. CASE client[b] = "idle"
      <3>1. status[b] = "created" /\ on[b] = None
        BY <2>2 DEF TaskInv, ClientTells
      <3>2. status'[b] = "created" /\ on'[b] = None
        BY <1>2, <1>3, <1>7, <1>8, <2>1, <3>1 DEF TypeOK
      <3> QED
        BY <2>2, <3>1, <3>2 DEF TaskInv, ClientTells
    <2>3. CASE event[b]
      <3>1. /\ status[b] = "done" /\ awaited[b] \in Tasks /\ status[awaited[b]] = "done"
            /\ result[b] = result[awaited[b]]
        BY <2>3 DEF TaskInv, ClientTells
      <3>2. b \notin {c, k} /\ awaited[b] \notin {c, k} /\ awaited[b] \in Coroutines
        BY <1>2, <1>3, <2>1, <3>1 DEF Coroutines
      <3> QED
        BY <1>8, <2>1, <2>3, <3>1, <3>2 DEF TaskInv, ClientTells
    <2> QED
      BY <2>2, <2>3 DEF TaskInv, ClientTells
  <1> QED
    BY <1>9, <1>10, <1>11, <1>12, <1>13, <1>14 DEF TaskInv, StatusTells

\* The wait task is done, and the event is set.
LEMMA WaitTaskEndsKeepsInv ==
    ASSUME TaskInv, NEW t \in Threads, WaitTaskEnds(t)
    PROVE  TaskInv'
  <1>1. PICK c \in Clients :
            /\ Runs(t, c) /\ awaited[c] # None
            /\ result' = [result EXCEPT ![c] = result[awaited[c]]]
            /\ event' = [event EXCEPT ![c] = TRUE]
            /\ waking' = [waking EXCEPT ![t] = c]
            /\ status' = [status EXCEPT ![c] = "done"]
            /\ on' = [on EXCEPT ![t] = None]
            /\ UNCHANGED <<queue, continuation, executor, awaited, client, hops, asked>>
    BY DEF WaitTaskEnds
  <1>2. /\ TypeOK /\ on[t] = c /\ c # None /\ c \in Coroutines /\ c \notin Tasks /\ c \in Threads
        /\ status[c] = "running" /\ awaited[c] \in Tasks /\ awaited[c] \in Coroutines
    BY <1>1, DisjointAssumption DEF TaskInv, OnThreads, Runs, Coroutines, Threads, TypeOK
  <1>3. status[awaited[c]] = "done" /\ result[awaited[c]] # "none" /\ awaited[c] # c
    BY <1>1, <1>2 DEF TaskInv, ResultBeforeResume
  <1>4. \A b \in Coroutines : /\ status'[b] = IF b = c THEN "done" ELSE status[b]
                              /\ result'[b] = IF b = c THEN result[awaited[c]] ELSE result[b]
    BY <1>1, <1>2 DEF TypeOK
  <1>5. TypeOK'
    BY <1>1, <1>2 DEF TypeOK
  <1>6. OnThreads' /\ RunningIsOnThread' /\ RunsWhereAsked'
    <2>1. \A b \in Coroutines : /\ status'[b] = "running" <=> b = None \/ (status[b] = "running" /\ on[t] # b)
                                /\ status[b] = "running" /\ on[t] # b => asked'[b] = asked[b]
      BY <1>1, <1>2, <1>4, NoneIsNone
    <2>2. None \in Coroutines \cup {None} /\ on' = [on EXCEPT ![t] = None]
      BY <1>1
    <2> QED
      BY <1>5, <2>1, <2>2, ThreadTurns
  <1>7. InQueues' /\ QueuedIsInQueue'
    BY <1>1, <1>2, <1>4, QueuesRest
  <1>8. AsContinuations' /\ AwaitingHasTask'
    <2>1. ASSUME NEW j \in Tasks, Pending(j)'
          PROVE  /\ continuation[j] \in Coroutines /\ status'[continuation[j]] = "awaiting"
                 /\ awaited[continuation[j]] = j /\ asked[continuation[j]] = executor[j]
      <3>1. Pending(j)
        BY <1>2, <1>4, <2>1 DEF Pending, Coroutines
      <3> QED
        BY <1>2, <1>4, <3>1 DEF TaskInv, AsContinuations
    <2>2. ASSUME NEW b \in Coroutines, status'[b] = "awaiting"
          PROVE  awaited[b] \in Tasks /\ Pending(awaited[b])' /\ continuation[awaited[b]] = b
      <3>1. awaited[b] \in Tasks /\ Pending(awaited[b]) /\ continuation[awaited[b]] = b
        BY <1>4, <2>2 DEF TaskInv, StatusTells, AwaitingHasTask
      <3> QED
        BY <1>1, <1>2, <1>4, <3>1 DEF Pending, Coroutines
    <2> QED
      BY <1>1, <2>1, <2>2 DEF AsContinuations, AwaitingHasTask, Pending
  <1>9. CreatedIsNew' /\ DoneHasResult'
    BY <1>1, <1>2, <1>3, <1>4 DEF TaskInv, StatusTells, CreatedIsNew, DoneHasResult
  <1>10. ResultBeforeResume'
    <2> SUFFICES ASSUME NEW b \in Coroutines, status'[b] \in {"queued", "running"}, awaited[b] # None
                 PROVE  status'[awaited[b]] = "done" /\ result'[awaited[b]] # "none"
      BY <1>1 DEF ResultBeforeResume
    <2>1. b # c /\ status[b] = status'[b] /\ awaited[b] \in Coroutines
      BY <1>2, <1>4 DEF TypeOK, Coroutines
    <2>2. status[awaited[b]] = "done" /\ result[awaited[b]] # "none"
      BY <2>1 DEF TaskInv, ResultBeforeResume
    <2> QED
      BY <1>2, <1>4, <2>1, <2>2
  <1>11. ClientTells'
    <2> SUFFICES ASSUME NEW b \in Clients
                 PROVE  /\ client[b] = "idle" => status'[b] = "created" /\ on'[b] = None
                        /\ client[b] = "returned" => event'[b]
                        /\ event'[b] => /\ status'[b] = "done"
                                        /\ awaited[b] \in Tasks /\ status'[awaited[b]] = "done"
                                        /\ result'[b] = result'[awaited[b]]
      BY <1>1 DEF ClientTells
    <2>1. b \in Coroutines /\ b \in Threads /\ event'[b] = (b = c \/ event[b])
      BY <1>1, <1>2 DEF Coroutines, Threads, TypeOK
    <2>2. CASE b = c
      <3>1. client[b] # "idle"
        BY <1>2, <2>2 DEF TaskInv, ClientTells
      <3> QED
        BY <1>2, <1>3, <1>4, <2>1, <2>2, <3>1
    <2>3. CASE b # c
      <3>1. /\ client[b] = "idle" => status[b] = "created" /\ on[b] = None
            /\ client[b] = "returned" => event[b]
            /\ event[b] => /\ status[b] = "done"
                           /\ awaited[b] \in Tasks /\ status[awaited[b]] = "done"
                           /\ result[b] = result[awaited[b]]
        BY DEF TaskInv, ClientTells
      <3>2. on[b] = None => on'[b] = None
        BY <1>1, <1>2, <2>1 DEF TypeOK
      <3> QED
        BY <1>2, <1>4, <2>1, <2>3, <3>1, <3>2 DEF Coroutines
    <2> QED
      BY <2>2, <2>3
  <1> QED
    BY <1>5, <1>6, <1>7, <1>8, <1>9, <1>10, <1>11 DEF TaskInv, StatusTells

\* The setter leaves set(), which changes nothing that TaskInv speaks of.
LEMMA SetWakesKeepsInv ==
    ASSUME TaskInv, NEW t \in Threads, SetWakes(t)
    PROVE  TaskInv'
  <1>1. /\ waking' = [waking EXCEPT ![t] = None]
        /\ UNCHANGED <<queue, on, status, continuation, executor, result, awaited,
                       client, event, hops, asked>>
    BY DEF SetWakes
  <1>2. TypeOK'
    BY <1>1 DEF TaskInv, TypeOK
  <1>3. RunsWhereAsked' /\ ResultBeforeResume' /\ OnThreads' /\ InQueues' /\ AsContinuations' /\ ClientTells'
    BY <1>1 DEF TaskInv, RunsWhereAsked, ResultBeforeResume, OnThreads, InQueues,
                AsContinuations, ClientTells, Pending
  <1>4. StatusTells'
    BY <1>1 DEF TaskInv, StatusTells, CreatedIsNew, RunningIsOnThread, QueuedIsInQueue,
                AwaitingHasTask, DoneHasResult, Pending
  <1> QED
    BY <1>2, <1>3, <1>4 DEF TaskInv

-----------------------------------------------------------------------------
(* The theorems                                                               *)

\* Before the first async_wait nothing runs, waits or is asked for; then every
\* step of a body, a client and an executor keeps the invariant (task.hpp,
\* detail/schedule_awaitable.hpp, sync_wait.hpp).
THEOREM TaskInvHolds == Spec => []TaskInv
  <1>1. Init => TaskInv
    <2> SUFFICES ASSUME Init PROVE TaskInv
      OBVIOUS
    <2> USE DEF Init
    <2>1. TypeOK
      BY MaxHopsAssumption DEF TypeOK
    <2>2. OnThreads /\ InQueues /\ RunsWhereAsked
      BY DEF OnThreads, InQueues, RunsWhereAsked
    <2>3. AsContinuations /\ ResultBeforeResume
      BY DEF AsContinuations, ResultBeforeResume, Pending, Coroutines
    <2>4. StatusTells
      BY DEF StatusTells, CreatedIsNew, RunningIsOnThread, QueuedIsInQueue, AwaitingHasTask, DoneHasResult
    <2>5. ClientTells
      BY DEF ClientTells, Coroutines, Threads
    <2> QED
      BY <2>1, <2>2, <2>3, <2>4, <2>5 DEF TaskInv
  <1>2. TaskInv /\ [Next]_vars => TaskInv'
    <2> SUFFICES ASSUME TaskInv, [Next]_vars PROVE TaskInv'
      OBVIOUS
    <2>1. CASE UNCHANGED vars
      <3>1. TypeOK' /\ RunsWhereAsked' /\ ResultBeforeResume'
        BY <2>1 DEF vars, TaskInv, TypeOK, RunsWhereAsked, ResultBeforeResume
      <3>2. OnThreads' /\ InQueues' /\ AsContinuations' /\ ClientTells'
        BY <2>1 DEF vars, TaskInv, OnThreads, InQueues, AsContinuations, ClientTells, Pending
      <3>3. StatusTells'
        BY <2>1 DEF vars, TaskInv, StatusTells, CreatedIsNew, RunningIsOnThread, QueuedIsInQueue,
                    AwaitingHasTask, DoneHasResult, Pending
      <3> QED
        BY <3>1, <3>2, <3>3 DEF TaskInv
    <2>2. ASSUME NEW t \in Threads, BodyStep(t) PROVE TaskInv'
      BY <2>2, HopKeepsInv, AwaitKeepsInv, ReturnKeepsInv, WaitTaskEndsKeepsInv, SetWakesKeepsInv
         DEF BodyStep
    <2>3. ASSUME NEW c \in Clients, AsyncWait(c) \/ ClientStep(c) PROVE TaskInv'
      BY <2>3, AsyncWaitKeepsInv, ClientStepKeepsInv
    <2> QED
      BY <2>1, <2>2, <2>3, DispatchKeepsInv DEF Next
  <1> QED
    BY <1>1, <1>2, PTL DEF Spec

\* Where a coroutine is, is one place.
LEMMA InOnePlace == TaskInv => OnePlace
  <1> SUFFICES ASSUME TaskInv, NEW c \in Coroutines
               PROVE  Cardinality({t \in Threads : on[t] = c})
                        + Cardinality({s \in UNION {{e} \X DOMAIN queue[e] : e \in Executors} :
                                           queue[s[1]][s[2]] = c})
                        + Cardinality({k \in Tasks : /\ continuation[k] = c
                                                     /\ status[k] \notin {"created", "done"}})
                      = IF status[c] \in {"created", "done"} THEN 0 ELSE 1
    BY DEF OnePlace
  <1> DEFINE threads == {t \in Threads : on[t] = c}
             slots == {s \in UNION {{e} \X DOMAIN queue[e] : e \in Executors} : queue[s[1]][s[2]] = c}
             tasks == {k \in Tasks : continuation[k] = c /\ status[k] \notin {"created", "done"}}
  <1>1. IF status[c] = "running" THEN \E t : threads = {t} ELSE threads = {}
    <2>1. \A t \in threads : status[c] = "running" /\ c # None
      BY NoneIsNone DEF TaskInv, OnThreads
    <2>2. \A t, u \in threads : t = u
      BY NoneIsNone DEF TaskInv, OnThreads
    <2>3. status[c] = "running" => \E t : t \in threads
      BY DEF TaskInv, StatusTells, RunningIsOnThread
    <2> HIDE DEF threads
    <2> QED
      BY <2>1, <2>2, <2>3
  <1>2. IF status[c] = "queued" THEN \E s : slots = {s} ELSE slots = {}
    <2>1. ASSUME NEW s \in slots
          PROVE  \E e \in Executors : \E i \in DOMAIN queue[e] : s = <<e, i>> /\ queue[e][i] = c
      OBVIOUS
    <2>2. \A s \in slots : status[c] = "queued"
      BY <2>1 DEF TaskInv, InQueues
    <2>3. ASSUME NEW s \in slots, NEW r \in slots PROVE s = r
      <3>1. PICK e \in Executors : \E i \in DOMAIN queue[e] : s = <<e, i>> /\ queue[e][i] = c
        BY <2>1
      <3>2. PICK f \in Executors : \E j \in DOMAIN queue[f] : r = <<f, j>> /\ queue[f][j] = c
        BY <2>1
      <3> QED
        BY <3>1, <3>2 DEF TaskInv, InQueues
    <2>4. status[c] = "queued" => \E s : s \in slots
      <3> SUFFICES ASSUME status[c] = "queued" PROVE \E s : s \in slots
        OBVIOUS
      <3>1. PICK e \in Executors : \E i \in DOMAIN queue[e] : queue[e][i] = c
        BY DEF TaskInv, StatusTells, QueuedIsInQueue
      <3>2. PICK i \in DOMAIN queue[e] : queue[e][i] = c
        BY <3>1
      <3>3. <<e, i>> \in slots
        BY <3>2
      <3> QED
        BY <3>3
    <2> HIDE DEF slots
    <2> QED
      BY <2>2, <2>3, <2>4
  <1>3. IF status[c] = "awaiting" THEN \E k : tasks = {k} ELSE tasks = {}
    <2>1. \A k \in tasks : status[c] = "awaiting" /\ awaited[c] = k
      BY DEF TaskInv, AsContinuations, Pending
    <2>2. status[c] = "awaiting" => awaited[c] \in tasks
      BY DEF TaskInv, StatusTells, AwaitingHasTask, Pending
    <2> HIDE DEF tasks
    <2> QED
      BY <2>1, <2>2
  <1>4. status[c] \in {"created", "running", "queued", "awaiting", "done"}
    BY DEF TaskInv, TypeOK
  <1>5. Cardinality({}) = 0 /\ \A x : Cardinality({x}) = 1
    BY FS_EmptySet, FS_Singleton
  <1> HIDE DEF threads, slots, tasks
  <1>6. Cardinality(threads) + Cardinality(slots) + Cardinality(tasks)
          = IF status[c] \in {"created", "done"} THEN 0 ELSE 1
    <2>1. Cardinality(threads) = IF status[c] = "running" THEN 1 ELSE 0
      BY <1>1, <1>5
    <2>2. Cardinality(slots) = IF status[c] = "queued" THEN 1 ELSE 0
      BY <1>2, <1>5
    <2>3. Cardinality(tasks) = IF status[c] = "awaiting" THEN 1 ELSE 0
      BY <1>3, <1>5
    <2> QED
      BY <1>4, <2>1, <2>2, <2>3
  <1> QED
    BY <1>6 DEF threads, slots, tasks

\* Every variable keeps its type.
THEOREM TypeCorrect == Spec => []TypeOK
  <1>1. TaskInv => TypeOK
    BY DEF TaskInv
  <1> QED
    BY <1>1, TaskInvHolds, PTL

\* A coroutine goes on on the executor that it asked for or on which it awaited,
\* wherever its task went (task.hpp:68-71).
THEOREM RunsWhereAskedHolds == Spec => []RunsWhereAsked
  <1>1. TaskInv => RunsWhereAsked
    BY DEF TaskInv
  <1> QED
    BY <1>1, TaskInvHolds, PTL

\* Between its start and its end a coroutine is on one thread, in one queue or
\* the continuation of one task (task.hpp:58-96, detail/schedule_awaitable.hpp).
THEOREM OnePlaceHolds == Spec => []OnePlace
  BY InOnePlace, TaskInvHolds, PTL

\* After co_await of a task the result is there (task.hpp:58-96).
THEOREM ResultBeforeResumeHolds == Spec => []ResultBeforeResume
  <1>1. TaskInv => ResultBeforeResume
    BY DEF TaskInv
  <1> QED
    BY <1>1, TaskInvHolds, PTL

\* A thread inside set() runs nothing, and a client's thread runs bodies, and is
\* inside set(), only while it starts its wait task (sync_wait.hpp:299).
WakingTells ==
    \A t \in Threads :
        /\ waking[t] # None => on[t] = None
        /\ t \in Clients /\ (on[t] # None \/ waking[t] # None) => client[t] = "starting"

\* What the steps of a body do to the thread: only one that runs something, or
\* is inside set(), makes any.
LEMMA BodyKeepsWaking ==
    ASSUME TypeOK, WakingTells, NEW t \in Threads, BodyStep(t)
    PROVE  WakingTells'
  <1>1. /\ client' = client
        /\ \A u \in Threads \ {t} : on'[u] = on[u] /\ waking'[u] = waking[u]
        /\ on[t] # None \/ waking[t] # None
        /\ waking'[t] # None => on'[t] = None
    <2>1. ASSUME NEW e \in Executors, Hop(t, e)
          PROVE  /\ client' = client /\ waking' = waking /\ on[t] # None
                 /\ \A u \in Threads \ {t} : on'[u] = on[u]
      BY <2>1 DEF Hop, Runs, TypeOK
    <2>2. ASSUME NEW k \in Tasks, AwaitTask(t, k)
          PROVE  /\ client' = client /\ waking' = waking /\ on[t] # None
                 /\ \A u \in Threads \ {t} : on'[u] = on[u]
      BY <2>2 DEF AwaitTask, Runs, TypeOK
    <2>3. ASSUME NEW k \in Tasks, NEW e \in Executors, AwaitScheduled(t, k, e)
          PROVE  /\ client' = client /\ waking' = waking /\ on[t] # None
                 /\ \A u \in Threads \ {t} : on'[u] = on[u]
      BY <2>3 DEF AwaitScheduled, Runs, TypeOK
    <2>4. ASSUME Return(t)
          PROVE  /\ client' = client /\ waking' = waking /\ on[t] # None
                 /\ \A u \in Threads \ {t} : on'[u] = on[u]
      BY <2>4 DEF Return, Runs, TypeOK
    <2>5. ASSUME WaitTaskEnds(t)
          PROVE  /\ client' = client /\ on[t] # None /\ on'[t] = None
                 /\ \A u \in Threads \ {t} : on'[u] = on[u] /\ waking'[u] = waking[u]
      BY <2>5 DEF WaitTaskEnds, Runs, TypeOK
    <2>6. ASSUME SetWakes(t)
          PROVE  /\ client' = client /\ on' = on /\ waking[t] # None /\ waking'[t] = None
                 /\ \A u \in Threads \ {t} : waking'[u] = waking[u]
      BY <2>6 DEF SetWakes, TypeOK
    <2> QED
      BY <2>1, <2>2, <2>3, <2>4, <2>5, <2>6 DEF BodyStep, WakingTells
  <1> QED
    BY <1>1 DEF WakingTells

\* An executor's thread takes the next handle only when it has left set(), and
\* a client waits only when start() has returned.
LEMMA WakingTellsHolds == Spec => []WakingTells
  <1>1. Init => WakingTells
    BY DEF Init, WakingTells
  <1>2. TypeOK /\ WakingTells /\ [Next]_vars => WakingTells'
    <2> SUFFICES ASSUME TypeOK, WakingTells, [Next]_vars PROVE WakingTells'
      OBVIOUS
    <2>1. CASE UNCHANGED vars
      BY <2>1 DEF vars, WakingTells
    <2>2. ASSUME NEW c \in Clients, AsyncWait(c) PROVE WakingTells'
      <3>1. /\ c \in Threads /\ client[c] = "idle" /\ waking' = waking
            /\ \A u \in Threads : on'[u] = IF u = c THEN c ELSE on[u]
            /\ \A d \in Clients : client'[d] = IF d = c THEN "starting" ELSE client[d]
        BY <2>2 DEF AsyncWait, TypeOK, Threads
      <3> QED
        BY <3>1 DEF WakingTells
    <2>3. ASSUME NEW c \in Clients, ClientStep(c) PROVE WakingTells'
      <3>1. /\ c \in Threads /\ waking' = waking /\ on' = on
            /\ \/ client[c] = "starting" /\ on[c] = None /\ waking[c] = None
               \/ client[c] = "waiting"
            /\ \A d \in Clients \ {c} : client'[d] = client[d]
        BY <2>3 DEF ClientStep, StartReturns, WaitReturns, TypeOK, Threads
      <3> QED
        BY <3>1 DEF WakingTells
    <2>4. ASSUME NEW e \in Executors, Dispatch(e) PROVE WakingTells'
      <3>1. /\ e \in Threads /\ e \notin Clients /\ waking[e] = None /\ waking' = waking /\ client' = client
            /\ \A u \in Threads \ {e} : on'[u] = on[u]
        BY <2>4, DisjointAssumption DEF Dispatch, TypeOK, Threads
      <3> QED
        BY <3>1 DEF WakingTells
    <2> QED
      BY <2>1, <2>2, <2>3, <2>4, BodyKeepsWaking DEF Next
  <1> QED
    BY <1>1, <1>2, TypeCorrect, PTL DEF Spec

\* async_wait returns what its awaitable produced, and what it destroys is on no
\* thread, in no queue and awaited by nothing; only a thread that runs nothing
\* and is not the client's may be inside set() still (sync_wait.hpp:143-146,
\* 298-301).
THEOREM ReturnsResultAndQuietHolds == Spec => []ReturnsResultAndQuiet
  <1>1. TaskInv /\ WakingTells => ReturnsResultAndQuiet
    <2> SUFFICES ASSUME TaskInv, WakingTells, NEW c \in Clients, client[c] = "returned"
                 PROVE  /\ status[c] = "done" /\ result[c] = result[awaited[c]] /\ result[c] # "none"
                        /\ \A t \in Threads : on[t] # c /\ on[t] # awaited[c]
                        /\ \A e \in Executors : \A i \in 1 .. Len(queue[e]) :
                              queue[e][i] # c /\ queue[e][i] # awaited[c]
                        /\ \A k \in Tasks : status[k] \notin {"created", "done"} =>
                              continuation[k] # c /\ continuation[k] # awaited[c]
                        /\ \A t \in Threads : waking[t] = c => t # c /\ on[t] = None
      BY DEF ReturnsResultAndQuiet
    <2>1. /\ status[c] = "done" /\ awaited[c] \in Tasks /\ status[awaited[c]] = "done"
          /\ result[c] = result[awaited[c]]
      BY DEF TaskInv, ClientTells
    <2>2. c \in Coroutines /\ awaited[c] \in Coroutines
      BY <2>1 DEF Coroutines
    <2>3. result[c] # "none"
      BY <2>1, <2>2 DEF TaskInv, StatusTells, DoneHasResult
    <2>4. \A t \in Threads : on[t] # c /\ on[t] # awaited[c]
      BY <2>1, <2>2, NoneIsNone DEF TaskInv, OnThreads
    <2>5. \A e \in Executors : \A i \in 1 .. Len(queue[e]) :
              queue[e][i] # c /\ queue[e][i] # awaited[c]
      <3>1. \A e \in Executors : DOMAIN queue[e] = 1 .. Len(queue[e])
        BY DEF TaskInv, TypeOK
      <3> QED
        BY <2>1, <3>1 DEF TaskInv, InQueues
    <2>6. \A k \in Tasks : status[k] \notin {"created", "done"} =>
              continuation[k] # c /\ continuation[k] # awaited[c]
      BY <2>1 DEF TaskInv, AsContinuations, Pending
    <2>7. \A t \in Threads : waking[t] = c => t # c /\ on[t] = None
      BY <2>2, NoneIsNone DEF WakingTells
    <2> QED
      BY <2>1, <2>3, <2>4, <2>5, <2>6, <2>7
  <1> QED
    BY <1>1, TaskInvHolds, WakingTellsHolds, PTL

=============================================================================
