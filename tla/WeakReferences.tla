---------------------------- MODULE WeakReferences ----------------------------
(* The reference counts of include/ptl/intrusive_ptr.hpp: strong and weak     *)
(* handles that point to one object or to nothing, in the hands of several    *)
(* threads, and the one word that counts both kinds, or in objects of the     *)
(* other form, which have no weak handles, the strong ones. A thread may move *)
(* a handle to another one; it copies and releases only those it has.         *)
(*                                                                            *)
(* The word is read and written by sequentially consistent atomic operations, *)
(* one per step. What a release does after its last one is a step of its own. *)
EXTENDS Integers, FiniteSets

CONSTANTS Threads,
          Creator,   \* the thread that made the object
          Strong,    \* intrusive_ptr objects; bounds the strong count
          Weak,      \* intrusive_wptr objects; bounds the weak count
          First,     \* the handle the object was made with
          None       \* no thread has the handle: it points to nothing

ASSUME HandlesAssumption ==
    /\ IsFiniteSet(Strong) /\ IsFiniteSet(Weak) /\ Strong \cap Weak = {}
    /\ First \in Strong /\ Creator \in Threads /\ None \notin Threads

VARIABLES
    form,        \* "weak": intrusive_weak_references, "strong": intrusive_strong_reference
    references,  \* the word: strong_count and weak_count (0 in the strong form)
    holder,      \* the thread that has a handle to the object
    pc,          \* the function a thread is in, before its compare-exchange
                 \* (release, release_weak, lock) or after it (delete, destroy, free)
    handle,      \* the handle the function was called for
    value,       \* the word the compare-exchange expects
    object,      \* alive or destroyed
    memory       \* allocated or freed

vars == <<form, references, holder, pc, handle, value, object, memory>>

Handles == Strong \cup Weak
Words == [strong : Nat, weak : Nat]

TypeOK ==
    /\ form \in {"weak", "strong"}
    /\ references \in Words
    /\ holder \in [Handles -> Threads \cup {None}]
    /\ pc \in [Threads -> {"idle", "release", "release_weak", "lock",
                           "delete", "destroy", "free"}]
    /\ handle \in [Threads -> Handles]
    /\ value \in [Threads -> Words]
    /\ object \in {"alive", "destroyed"}
    /\ memory \in {"allocated", "freed"}

reference_count(s, w) == [strong |-> s, weak |-> w]

Init ==
    /\ form \in {"weak", "strong"}
    /\ references = reference_count(1, IF form = "weak" THEN 1 ELSE 0)
    /\ holder = [h \in Handles |-> IF h = First THEN Creator ELSE None]
    /\ pc = [t \in Threads |-> "idle"]
    /\ handle = [t \in Threads |-> First]
    /\ value = [t \in Threads |-> reference_count(1, 1)]
    /\ object = "alive"
    /\ memory = "allocated"

\* The handles of a kind that point to the object
Held(kind) == {h \in kind : holder[h] # None}

\* Thread t, which runs none of the functions, uses its handle h.
Uses(t, h) == pc[t] = "idle" /\ holder[h] = t

-----------------------------------------------------------------------------
(* Copies and moves *)

\* A copy of an intrusive_ptr, and of an intrusive_wptr or weak() of a strong one.
add_ref(t) ==
    \E h \in Strong, new \in Strong \ Held(Strong) :
        /\ Uses(t, h)
        /\ references' = [references EXCEPT !.strong = @ + 1]
        /\ holder' = [holder EXCEPT ![new] = t]
        /\ UNCHANGED <<form, pc, handle, value, object, memory>>

add_weak_ref(t) ==
    \E h \in Handles, new \in Weak \ Held(Weak) :
        /\ form = "weak" /\ Uses(t, h)
        /\ references' = [references EXCEPT !.weak = @ + 1]
        /\ holder' = [holder EXCEPT ![new] = t]
        /\ UNCHANGED <<form, pc, handle, value, object, memory>>

\* A move into another thread's hands counts nothing.
HandOver(t, kind) ==
    \E h \in kind, u \in Threads :
        /\ Uses(t, h) /\ u # t
        /\ holder' = [holder EXCEPT ![h] = u]
        /\ UNCHANGED <<form, references, pc, handle, value, object, memory>>

Move(t) == HandOver(t, Strong)
MoveWeak(t) == HandOver(t, Weak)

-----------------------------------------------------------------------------
(* The compare-exchange loops of the weak form, and the one decrement of the  *)
(* strong form                                                                *)

Load(t, h, f) ==
    /\ Uses(t, h)
    /\ pc' = [pc EXCEPT ![t] = f]
    /\ handle' = [handle EXCEPT ![t] = h]
    /\ value' = [value EXCEPT ![t] = references]
    /\ UNCHANGED <<form, references, holder, object, memory>>

BeginRelease(t) == form = "weak" /\ \E h \in Strong : Load(t, h, "release")
BeginReleaseWeak(t) == \E h \in Weak : Load(t, h, "release_weak")
BeginLock(t) == \E h \in Weak : Load(t, h, "lock")

\* compare_exchange_weak fails, and loads.
Fails(t) ==
    /\ pc[t] \in {"release", "release_weak", "lock"}
    /\ value[t] # references
    /\ value' = [value EXCEPT ![t] = references]
    /\ UNCHANGED <<form, references, holder, pc, handle, object, memory>>

\* Mutant. The new counts are stored, not exchanged.
Release_store(t) ==
    /\ pc[t] = "release"
    /\ LET s == value[t].strong - 1
           w == IF s = 0 THEN value[t].weak - 1 ELSE value[t].weak
       IN  /\ references' = reference_count(s, w)
           /\ pc' = [pc EXCEPT ![t] = IF s # 0 THEN "idle"
                                      ELSE IF w = 0 THEN "delete" ELSE "destroy"]
    /\ holder' = [holder EXCEPT ![handle[t]] = None]
    /\ UNCHANGED <<form, handle, value, object, memory>>

\* intrusive_weak_ptr_release: the last strong handle takes with it the one
\* weak reference that all strong handles share.
Release(t) ==
    /\ pc[t] = "release" /\ value[t] = references
    /\ LET s == references.strong - 1
           w == IF s = 0 THEN references.weak - 1 ELSE references.weak
       IN  /\ references' = reference_count(s, w)
           /\ pc' = [pc EXCEPT ![t] = IF s # 0 THEN "idle"
                                      ELSE IF w = 0 THEN "delete" ELSE "destroy"]
    /\ holder' = [holder EXCEPT ![handle[t]] = None]
    /\ UNCHANGED <<form, handle, value, object, memory>>

\* intrusive_strong_ptr_release
ReleaseStrong(t) ==
    \E h \in Strong :
        /\ form = "strong" /\ Uses(t, h)
        /\ references' = [references EXCEPT !.strong = @ - 1]
        /\ pc' = [pc EXCEPT ![t] = IF references'.strong = 0 THEN "delete" ELSE "idle"]
        /\ holder' = [holder EXCEPT ![h] = None]
        /\ UNCHANGED <<form, handle, value, object, memory>>

\* Mutant. The memory is freed with the last weak handle.
ReleaseWeak_early(t) ==
    /\ pc[t] = "release_weak" /\ value[t] = references
    /\ references' = [references EXCEPT !.weak = @ - 1]
    /\ pc' = [pc EXCEPT ![t] =
                  IF references'.weak <= 1 THEN "free" ELSE "idle"]
    /\ holder' = [holder EXCEPT ![handle[t]] = None]
    /\ UNCHANGED <<form, handle, value, object, memory>>

\* intrusive_weak_ptr_release_weak
ReleaseWeak(t) ==
    /\ pc[t] = "release_weak" /\ value[t] = references
    /\ references' = [references EXCEPT !.weak = @ - 1]
    /\ pc' = [pc EXCEPT ![t] =
                  IF references' = reference_count(0, 0) THEN "free" ELSE "idle"]
    /\ holder' = [holder EXCEPT ![handle[t]] = None]
    /\ UNCHANGED <<form, handle, value, object, memory>>

\* intrusive_weak_ptr_lock looks at the strong count it has loaded, then
\* exchanges.
LockFails(t) ==
    /\ pc[t] = "lock" /\ value[t].strong = 0
    /\ pc' = [pc EXCEPT ![t] = "idle"]
    /\ UNCHANGED <<form, references, holder, handle, value, object, memory>>

\* Mutant. A lock does not look at the strong count.
Lock_mut(t) ==
    /\ pc[t] = "lock" /\ value[t] = references
    /\ references' = [references EXCEPT !.strong = @ + 1]
    /\ pc' = [pc EXCEPT ![t] = "idle"]
    /\ \E new \in Strong \ Held(Strong) : holder' = [holder EXCEPT ![new] = t]
    /\ UNCHANGED <<form, handle, value, object, memory>>

Lock(t) ==
    /\ pc[t] = "lock" /\ value[t].strong # 0 /\ value[t] = references
    /\ references' = [references EXCEPT !.strong = @ + 1]
    /\ pc' = [pc EXCEPT ![t] = "idle"]
    /\ \E new \in Strong \ Held(Strong) : holder' = [holder EXCEPT ![new] = t]
    /\ UNCHANGED <<form, handle, value, object, memory>>

\* After the exchange: delete ptr or ::operator delete(ptr), in neither of which
\* ~T() runs, or of the strong form delete derived.
Delete(t) ==
    /\ pc[t] \in {"delete", "free"}
    /\ memory' = "freed"
    /\ object' = IF form = "strong" THEN "destroyed" ELSE object
    /\ pc' = [pc EXCEPT ![t] = "idle"]
    /\ UNCHANGED <<form, references, holder, handle, value>>

\* derived->~T()
Destroy(t) ==
    /\ pc[t] = "destroy"
    /\ object' = "destroyed"
    /\ pc' = [pc EXCEPT ![t] = "idle"]
    /\ UNCHANGED <<form, references, holder, handle, value, memory>>

Next ==
    \E t \in Threads :
        \/ add_ref(t) \/ add_weak_ref(t) \/ Move(t) \/ MoveWeak(t)
        \/ BeginRelease(t) \/ BeginReleaseWeak(t) \/ BeginLock(t) \/ Fails(t)
        \/ Release(t) \/ ReleaseStrong(t) \/ ReleaseWeak(t) \/ LockFails(t) \/ Lock(t)
        \/ Delete(t) \/ Destroy(t)

Spec == Init /\ [][Next]_vars

-----------------------------------------------------------------------------
\* The word counts the handles, and one weak reference for all strong ones,
\* through every interleaving of the exchanges (intrusive_ptr.hpp:356-427).
CountsHandles ==
    /\ references.strong = Cardinality(Held(Strong))
    /\ references.weak = Cardinality(Held(Weak))
                           + (IF form = "strong" \/ Held(Strong) = {} THEN 0 ELSE 1)

\* A strong handle, also one made by lock() while the last other strong handle
\* is released, points to an object that is neither destroyed nor about to be.
StrongHandleKeepsObject ==
    Held(Strong) # {} =>
        /\ object = "alive" /\ memory = "allocated"
        /\ \A t \in Threads : pc[t] \notin {"delete", "destroy", "free"}

\* The memory is freed by one thread, once, when nobody has a handle; and when
\* nobody has a handle and nobody is in a release, it is freed
\* (intrusive_ptr.hpp:377, 405). ~T() runs at most once. It need not have run when
\* the memory goes: without weak handles nothing calls it (378-379), and the last
\* weak handle may free the memory before it, or during it (381-382). When the
\* last strong handle is gone and nobody is in a release, one or the other has
\* happened.
FreedOnce ==
    /\ \A t \in Threads :
           /\ pc[t] \in {"delete", "free"} =>
                  /\ memory = "allocated" /\ Held(Handles) = {}
                  /\ \A u \in Threads \ {t} : pc[u] \notin {"delete", "free"}
           /\ pc[t] \in {"delete", "destroy"} =>
                  /\ object = "alive"
                  /\ \A u \in Threads \ {t} : pc[u] \notin {"delete", "destroy"}
    /\ (\A t \in Threads : pc[t] = "idle") =>
           /\ Held(Handles) = {} => memory = "freed"
           /\ Held(Strong) = {} => object = "destroyed" \/ memory = "freed"
=============================================================================
