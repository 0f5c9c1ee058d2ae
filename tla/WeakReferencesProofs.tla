------------------------- MODULE WeakReferencesProofs -------------------------
(* The counts of intrusive_ptr.hpp are right, keep the object for the strong  *)
(* handles and give the memory back once, for any threads and handles.        *)
EXTENDS WeakReferences, FiniteSetTheorems, TLAPS

\* Every variable keeps its type, except that a count might be negative:
\* CountsHandles says that it is not.
WeakTypes ==
    /\ form \in {"weak", "strong"}
    /\ references \in [strong : Int, weak : Int]
    /\ holder \in [Handles -> Threads \cup {None}]
    /\ pc \in [Threads -> {"idle", "release", "release_weak", "lock",
                           "delete", "destroy", "free"}]
    /\ handle \in [Threads -> Handles]
    /\ value \in [Threads -> Words]
    /\ object \in {"alive", "destroyed"}
    /\ memory \in {"allocated", "freed"}

\* A thread inside a function has the handle it called it for, until the
\* exchange that gives it up; objects of the strong form have no weak handles.
HandleInv ==
    /\ form = "strong" => Held(Weak) = {}
    /\ \A t \in Threads :
           /\ pc[t] = "release" => /\ form = "weak"
                                   /\ handle[t] \in Strong /\ holder[handle[t]] = t
           /\ pc[t] \in {"release_weak", "lock"} =>
                  handle[t] \in Weak /\ holder[handle[t]] = t

\* Somebody destroys the object or has done so when the last strong handle is
\* gone, and somebody frees the memory or has done so when the last handle is.
FreeInv ==
    /\ \A t \in Threads :
           pc[t] \in {"delete", "free"} =>
               /\ memory = "allocated" /\ Held(Strong) = {} /\ Held(Weak) = {}
               /\ \A u \in Threads : pc[u] \in {"delete", "free"} => u = t
    /\ memory = "freed" => /\ Held(Strong) = {} /\ Held(Weak) = {}
                           /\ \A t \in Threads : pc[t] \notin {"delete", "free"}
    /\ Held(Strong) = {} /\ Held(Weak) = {} =>
           memory = "freed" \/ \E t \in Threads : pc[t] \in {"delete", "free"}
    /\ Held(Strong) = {} => \/ object = "destroyed" \/ memory = "freed"
                            \/ \E t \in Threads : pc[t] \in {"delete", "destroy", "free"}
    /\ \A t \in Threads :
           /\ pc[t] \in {"delete", "destroy"} =>
                  /\ object = "alive"
                  /\ \A u \in Threads : pc[u] \in {"delete", "destroy"} => u = t
           /\ pc[t] = "free" => form = "weak"

WeakInv == WeakTypes /\ CountsHandles /\ HandleInv /\ StrongHandleKeepsObject /\ FreeInv

-----------------------------------------------------------------------------
(* Handles and counts                                                         *)

\* A thread takes a handle that pointed to nothing.
LEMMA TakeHandle ==
    ASSUME WeakTypes, NEW t \in Threads, NEW h \in Handles, holder' = [holder EXCEPT ![h] = t]
    PROVE  /\ h \in Strong => Held(Strong)' = Held(Strong) \cup {h} /\ Held(Weak)' = Held(Weak)
           /\ h \in Weak => Held(Weak)' = Held(Weak) \cup {h} /\ Held(Strong)' = Held(Strong)
  BY HandlesAssumption DEF WeakTypes, Held, Handles

\* A handle points to nothing from now on.
LEMMA DropHandle ==
    ASSUME WeakTypes, NEW h \in Handles, holder' = [holder EXCEPT ![h] = None]
    PROVE  /\ h \in Strong => Held(Strong)' = Held(Strong) \ {h} /\ Held(Weak)' = Held(Weak)
           /\ h \in Weak => Held(Weak)' = Held(Weak) \ {h} /\ Held(Strong)' = Held(Strong)
  BY HandlesAssumption DEF WeakTypes, Held, Handles

\* The number of handles held, of any finite kind of handles
LEMMA HeldCounts ==
    ASSUME NEW kind, IsFiniteSet(kind)
    PROVE  /\ Cardinality(Held(kind)) \in Nat
           /\ Cardinality(Held(kind)) = 0 <=> Held(kind) = {}
           /\ \A h : h \notin Held(kind) =>
                  Cardinality(Held(kind) \cup {h}) = Cardinality(Held(kind)) + 1
           /\ \A h : h \in Held(kind) =>
                  Cardinality(Held(kind) \ {h}) = Cardinality(Held(kind)) - 1
  <1>1. IsFiniteSet(Held(kind))
    BY FS_Subset DEF Held
  <1> QED
    BY <1>1, FS_CardinalityType, FS_EmptySet, FS_AddElement, FS_RemoveElement

\* A count is that of a set: no decrement ever takes it below 0.
LEMMA CountsAreNatural ==
    ASSUME WeakTypes, CountsHandles
    PROVE  references \in Words
  <1>1. /\ Cardinality(Held(Strong)) \in Nat /\ Cardinality(Held(Weak)) \in Nat
    BY HandlesAssumption, HeldCounts
  <1>2. references.strong \in Nat /\ references.weak \in Nat
    BY <1>1 DEF CountsHandles
  <1> QED
    BY <1>2 DEF WeakTypes, Words

\* A step that changes neither the handles that point to the object nor the word,
\* and sends no thread to destroy or free anything, leaves all as it was.
LEMMA QuietStep ==
    ASSUME CountsHandles, StrongHandleKeepsObject, FreeInv,
           Held(Strong)' = Held(Strong), Held(Weak)' = Held(Weak),
           UNCHANGED <<form, references, object, memory>>,
           \A u \in Threads : \/ pc'[u] = pc[u]
                              \/ /\ pc[u] \notin {"delete", "destroy", "free"}
                                 /\ pc'[u] \notin {"delete", "destroy", "free"}
    PROVE  CountsHandles' /\ StrongHandleKeepsObject' /\ FreeInv'
  <1>1. CountsHandles'
    BY DEF CountsHandles
  <1>2. StrongHandleKeepsObject'
    BY DEF StrongHandleKeepsObject
  <1>3. FreeInv'
    BY DEF FreeInv
  <1> QED
    BY <1>1, <1>2, <1>3

\* A thread moves a handle of its own into another one's hands.
LEMMA HandOverStep ==
    ASSUME WeakInv, NEW t \in Threads, NEW kind, kind \subseteq Handles, HandOver(t, kind)
    PROVE  WeakInv'
  <1> USE HandlesAssumption DEF WeakInv, WeakTypes
  <1>1. PICK h \in kind, u \in Threads :
            /\ pc[t] = "idle" /\ holder[h] = t
            /\ holder' = [holder EXCEPT ![h] = u]
            /\ UNCHANGED <<form, references, pc, handle, value, object, memory>>
    BY DEF HandOver, Uses
  <1>2. WeakTypes'
    BY <1>1
  <1>3. Held(Strong)' = Held(Strong) /\ Held(Weak)' = Held(Weak)
    BY <1>1 DEF Held, Handles
  <1>4. HandleInv'
    BY <1>1, <1>3 DEF HandleInv
  <1>5. CountsHandles' /\ StrongHandleKeepsObject' /\ FreeInv'
    BY <1>1, <1>3, QuietStep
  <1> QED
    BY <1>2, <1>4, <1>5

\* A thread enters a function: it loads the word.
LEMMA LoadStep ==
    ASSUME WeakInv, NEW t \in Threads, NEW h \in Handles,
           NEW f \in {"release", "release_weak", "lock"}, Load(t, h, f),
           f = "release" => form = "weak" /\ h \in Strong,
           f \in {"release_weak", "lock"} => h \in Weak
    PROVE  WeakInv'
  <1> USE HandlesAssumption DEF WeakInv, WeakTypes
  <1>1. /\ pc[t] = "idle" /\ holder[h] = t
        /\ pc' = [pc EXCEPT ![t] = f] /\ handle' = [handle EXCEPT ![t] = h]
        /\ value' = [value EXCEPT ![t] = references]
        /\ UNCHANGED <<form, references, holder, object, memory>>
    BY DEF Load, Uses
  <1>2. WeakTypes'
    BY <1>1, CountsAreNatural
  <1>3. Held(Strong)' = Held(Strong) /\ Held(Weak)' = Held(Weak)
    BY <1>1 DEF Held
  <1>4. HandleInv'
    BY <1>1, <1>3 DEF HandleInv
  <1>5. CountsHandles' /\ StrongHandleKeepsObject' /\ FreeInv'
    BY <1>1, <1>3, QuietStep
  <1> QED
    BY <1>2, <1>4, <1>5

\* One handle more, of the kind that is counted, while a strong one or, for a weak
\* one, any is held: add_ref, add_weak_ref and a lock that succeeds.
LEMMA TakeStep ==
    ASSUME WeakInv, NEW t \in Threads,
           NEW new \in Handles, holder[new] = None, holder' = [holder EXCEPT ![new] = t],
           \/ new \in Strong /\ references' = [references EXCEPT !.strong = @ + 1]
           \/ new \in Weak /\ references' = [references EXCEPT !.weak = @ + 1],
           new \in Strong => Held(Strong) # {},
           new \in Weak => form = "weak" /\ Held(Handles) # {},
           pc[t] \in {"idle", "lock"}, pc' = [pc EXCEPT ![t] = "idle"],
           UNCHANGED <<form, handle, value, object, memory>>
    PROVE  WeakInv'
  <1> USE HandlesAssumption DEF WeakInv, WeakTypes
  <1>1. WeakTypes'
    OBVIOUS
  <1>2. /\ new \in Strong => /\ new \notin Held(Strong)
                             /\ Held(Strong)' = Held(Strong) \cup {new} /\ Held(Weak)' = Held(Weak)
        /\ new \in Weak => /\ new \notin Held(Weak)
                           /\ Held(Weak)' = Held(Weak) \cup {new} /\ Held(Strong)' = Held(Strong)
    BY TakeHandle DEF Held
  <1>3. Held(Handles) = Held(Strong) \cup Held(Weak)
    BY DEF Held, Handles
  <1>4. HandleInv'
    <2>1. form = "strong" => Held(Weak)' = {}
      BY <1>2 DEF HandleInv, Handles
    <2>2. ASSUME NEW u \in Threads, pc'[u] \in {"release", "release_weak", "lock"}
          PROVE  pc[u] = pc'[u] /\ (holder[handle[u]] = u => holder'[handle[u]] = u)
      <3>1. u # t /\ pc'[u] = pc[u]
        BY <2>2
      <3>2. holder[handle[u]] = u => handle[u] # new
        OBVIOUS
      <3> QED
        BY <3>1, <3>2
    <2> QED
      BY <2>1, <2>2 DEF HandleInv
  <1>5. CountsHandles'
    <2>1. /\ Cardinality(Held(Strong)) \in Nat /\ Cardinality(Held(Weak)) \in Nat
          /\ new \in Strong => Cardinality(Held(Strong) \cup {new}) = Cardinality(Held(Strong)) + 1
          /\ new \in Weak => Cardinality(Held(Weak) \cup {new}) = Cardinality(Held(Weak)) + 1
      BY <1>2, HeldCounts
    <2>2. CASE new \in Strong
      BY <1>2, <2>1, <2>2 DEF CountsHandles
    <2>3. CASE new \in Weak
      <3>1. references'.strong = references.strong /\ references'.weak = references.weak + 1
        BY <2>3
      <3>2. /\ Cardinality(Held(Weak)') = Cardinality(Held(Weak)) + 1
            /\ Held(Strong)' = Held(Strong)
        BY <1>2, <2>1, <2>3
      <3> QED
        BY <2>1, <3>1, <3>2 DEF CountsHandles
    <2> QED
      BY <2>2, <2>3 DEF Handles
  <1>6. \A u \in Threads : /\ pc'[u] \in {"delete", "free"} <=> pc[u] \in {"delete", "free"}
                           /\ pc'[u] = "destroy" <=> pc[u] = "destroy"
    OBVIOUS
  <1>7. Held(Strong)' # {} => Held(Strong) # {}
    BY <1>2 DEF Handles
  <1>8. StrongHandleKeepsObject'
    BY <1>6, <1>7 DEF StrongHandleKeepsObject
  <1>9. Held(Strong) # {} \/ Held(Weak) # {}
    BY <1>3 DEF Handles
  <1>10. Held(Strong)' = {} => Held(Strong) = {}
    BY <1>2 DEF Handles
  <1>11. Held(Strong)' # {} \/ Held(Weak)' # {}
    BY <1>2, <1>9 DEF Handles
  <1>12. FreeInv'
    BY <1>6, <1>9, <1>10, <1>11 DEF FreeInv
  <1> QED
    BY <1>1, <1>4, <1>5, <1>8, <1>12

\* A strong handle is given up. The last one takes the weak reference of all
\* strong handles with it, and its thread destroys the object, or also frees it
\* when no weak handle is left.
LEMMA DropStrongStep ==
    ASSUME WeakInv, NEW t \in Threads, NEW h \in Strong,
           holder[h] = t, holder' = [holder EXCEPT ![h] = None],
           references'.strong = references.strong - 1,
           references'.weak = IF form = "weak" /\ references'.strong = 0
                                THEN references.weak - 1 ELSE references.weak,
           references' \in [strong : Int, weak : Int],
           pc' = [pc EXCEPT ![t] = IF references'.strong # 0 THEN "idle"
                                   ELSE IF references'.weak = 0 THEN "delete" ELSE "destroy"],
           UNCHANGED <<form, handle, value, object, memory>>
    PROVE  WeakInv'
  <1> USE HandlesAssumption DEF WeakInv, WeakTypes
  <1>1. WeakTypes'
    OBVIOUS
  <1>2. /\ h \in Handles /\ h \in Held(Strong)
        /\ Held(Strong)' = Held(Strong) \ {h} /\ Held(Weak)' = Held(Weak)
    BY DropHandle DEF Held, Handles
  <1>3. HandleInv'
    BY <1>2 DEF HandleInv
  <1>4. /\ Cardinality(Held(Strong)) \in Nat /\ Cardinality(Held(Weak)) \in Nat
        /\ Cardinality(Held(Strong)') = Cardinality(Held(Strong)) - 1
        /\ Cardinality(Held(Weak)) = 0 <=> Held(Weak) = {}
    BY <1>2, HeldCounts
  <1>5. references'.strong = Cardinality(Held(Strong)')
    BY <1>4 DEF CountsHandles
  <1>6. references'.strong = 0 <=> Held(Strong)' = {}
    <2>1. Held(Strong)' = {holds \in Strong : holder'[holds] # None}
      BY DEF Held
    <2>2. IsFiniteSet(Held(Strong)')
      BY <2>1, FS_Subset
    <2> QED
      BY <1>5, <2>2, FS_EmptySet
  <1>7. CountsHandles'
    BY <1>2, <1>4, <1>5, <1>6 DEF CountsHandles
  <1>8. /\ references.weak = Cardinality(Held(Weak)) + (IF form = "strong" THEN 0 ELSE 1)
        /\ object = "alive" /\ memory = "allocated"
        /\ \A u \in Threads : pc[u] \notin {"delete", "destroy", "free"}
    BY <1>2 DEF CountsHandles, StrongHandleKeepsObject
  <1>9. CASE references'.strong # 0
    <2>1. pc' = [pc EXCEPT ![t] = "idle"]
      BY <1>9
    <2>2. Held(Strong)' # {} /\ Held(Strong) # {}
      BY <1>2, <1>6, <1>9
    <2>3. StrongHandleKeepsObject'
      BY <1>8, <2>1 DEF StrongHandleKeepsObject
    <2>4. FreeInv'
      BY <1>8, <2>1, <2>2 DEF FreeInv
    <2> QED
      BY <1>1, <1>3, <1>7, <2>3, <2>4
  <1>10. CASE references'.strong = 0
    <2>1. Held(Strong)' = {}
      BY <1>6, <1>10
    <2>2. references'.weak = Cardinality(Held(Weak)) /\ (references'.weak = 0 <=> Held(Weak)' = {})
      BY <1>2, <1>4, <1>8, <1>10
    <2>3. /\ pc'[t] = IF Held(Weak)' = {} THEN "delete" ELSE "destroy"
          /\ \A u \in Threads \ {t} : pc'[u] = pc[u]
      BY <1>10, <2>2
    <2>4. StrongHandleKeepsObject'
      BY <2>1 DEF StrongHandleKeepsObject
    <2>5. FreeInv'
      BY <1>8, <2>1, <2>3 DEF FreeInv
    <2> QED
      BY <1>1, <1>3, <1>7, <2>4, <2>5
  <1> QED
    BY <1>9, <1>10

\* A weak handle is given up; who brings the word to zero frees the memory.
LEMMA DropWeakStep ==
    ASSUME WeakInv, NEW t \in Threads, ReleaseWeak(t)
    PROVE  WeakInv'
  <1> USE HandlesAssumption DEF WeakInv, WeakTypes
  <1> DEFINE h == handle[t]
  <1>1. /\ pc[t] = "release_weak" /\ h \in Weak /\ h \in Handles /\ holder[h] = t
        /\ holder' = [holder EXCEPT ![h] = None]
        /\ references' = [references EXCEPT !.weak = @ - 1]
        /\ pc' = [pc EXCEPT ![t] = IF references' = reference_count(0, 0) THEN "free" ELSE "idle"]
        /\ UNCHANGED <<form, handle, value, object, memory>>
    BY DEF ReleaseWeak, HandleInv, Handles
  <1> HIDE DEF h
  <1>2. WeakTypes'
    BY <1>1
  <1>3. h \in Held(Weak) /\ Held(Weak)' = Held(Weak) \ {h} /\ Held(Strong)' = Held(Strong)
    BY <1>1, DropHandle DEF Held
  <1>4. HandleInv'
    BY <1>1, <1>3 DEF HandleInv
  <1>5. /\ Cardinality(Held(Strong)) \in Nat /\ Cardinality(Held(Weak)) \in Nat
        /\ Cardinality(Held(Weak)') = Cardinality(Held(Weak)) - 1
        /\ Cardinality(Held(Strong)) = 0 <=> Held(Strong) = {}
    BY <1>3, HeldCounts
  <1>6. Cardinality(Held(Weak)') = 0 <=> Held(Weak)' = {}
    <2>1. Held(Weak)' = {holds \in Weak : holder'[holds] # None}
      BY DEF Held
    <2>2. IsFiniteSet(Held(Weak)')
      BY <2>1, FS_Subset
    <2> QED
      BY <2>2, FS_EmptySet
  <1>7. CountsHandles'
    <2>1. references'.strong = references.strong /\ references'.weak = references.weak - 1
      BY <1>1
    <2>2. /\ references.strong = Cardinality(Held(Strong))
          /\ references.weak = Cardinality(Held(Weak)) + (IF form = "strong" \/ Held(Strong) = {} THEN 0 ELSE 1)
      BY Zenon DEF CountsHandles
    <2>3. references'.weak = Cardinality(Held(Weak)') + (IF form = "strong" \/ Held(Strong) = {} THEN 0 ELSE 1)
      BY <1>5, <2>1, <2>2
    <2> QED
      BY <1>1, <1>3, <2>1, <2>2, <2>3 DEF CountsHandles
  <1>8. references' = reference_count(0, 0) <=> Held(Strong)' = {} /\ Held(Weak)' = {}
    <2>1. /\ references'.strong = Cardinality(Held(Strong)')
          /\ references'.weak = Cardinality(Held(Weak)') + (IF form = "strong" \/ Held(Strong)' = {} THEN 0 ELSE 1)
      BY <1>1, <1>7, Zenon DEF CountsHandles
    <2>2. references' = [strong |-> references'.strong, weak |-> references'.weak]
      BY <1>2
    <2>3. references' = reference_count(0, 0) <=> references'.strong = 0 /\ references'.weak = 0
      BY <2>2 DEF reference_count
    <2>4. Held(Weak)' # {} => Cardinality(Held(Weak)') > 0
      BY <1>5, <1>6, <1>3, HeldCounts
    <2> QED
      BY <1>3, <1>5, <1>6, <2>1, <2>3
  <1>9. /\ memory = "allocated" /\ \A u \in Threads : pc[u] \notin {"delete", "free"}
    BY <1>3 DEF FreeInv
  <1>10. /\ pc'[t] = IF Held(Strong)' = {} /\ Held(Weak)' = {} THEN "free" ELSE "idle"
         /\ \A u \in Threads \ {t} : pc'[u] = pc[u]
    BY <1>1, <1>8
  <1>11. StrongHandleKeepsObject'
    BY <1>1, <1>3, <1>10 DEF StrongHandleKeepsObject
  <1>12. FreeInv'
    <2>1. \A u \in Threads : pc'[u] \in {"delete", "free"} => /\ u = t
                                                              /\ Held(Strong)' = {} /\ Held(Weak)' = {}
      BY <1>9, <1>10
    <2>2. Held(Strong)' = {} /\ Held(Weak)' = {} => pc'[t] \in {"delete", "free"}
      BY <1>10
    <2>3. memory' = "allocated" /\ object' = object
      BY <1>1, <1>9
    <2>4. Held(Strong)' = {} => object' = "destroyed" \/ \E u \in Threads : pc'[u] \in {"destroy", "free"}
      <3>1. Held(Strong)' = {} => \/ object = "destroyed"
                                  \/ \E u \in Threads : pc[u] = "destroy"
        BY <1>3, <1>9 DEF FreeInv
      <3>2. \A u \in Threads : pc[u] = "destroy" => pc'[u] = "destroy"
        BY <1>1, <1>10
      <3> QED
        BY <2>3, <3>1, <3>2
    <2>5. \A u \in Threads :
              /\ pc'[u] \in {"delete", "destroy"} <=> pc[u] \in {"delete", "destroy"}
              /\ pc'[u] = "free" => form' = "weak"
      <3>1. form = "weak" /\ form' = form
        BY <1>1 DEF HandleInv, Held
      <3> QED
        BY <1>1, <1>10, <3>1
    <2>6. \A u \in Threads :
              pc'[u] \in {"delete", "destroy"} =>
                  /\ object' = "alive"
                  /\ \A v \in Threads : pc'[v] \in {"delete", "destroy"} => v = u
      BY <2>3, <2>5 DEF FreeInv
    <2> QED
      BY <2>1, <2>2, <2>3, <2>4, <2>5, <2>6 DEF FreeInv
  <1> QED
    BY <1>2, <1>4, <1>7, <1>11, <1>12

-----------------------------------------------------------------------------
(* The theorems                                                               *)

\* The object is made with one strong handle, which points to it.
LEMMA InitWeakInv == Init => WeakInv
  <1> USE HandlesAssumption
  <1> SUFFICES ASSUME Init PROVE WeakInv
    OBVIOUS
  <1>1. Held(Strong) = {First} /\ Held(Weak) = {}
    BY DEF Init, Held, Handles
  <1>2. Cardinality(Held(Strong)) = 1 /\ Cardinality(Held(Weak)) = 0
    BY <1>1, FS_Singleton, FS_EmptySet
  <1>3. \A t \in Threads : pc[t] = "idle"
    BY DEF Init
  <1>4. WeakTypes
    BY DEF Init, WeakTypes, Handles, reference_count, Words
  <1>5. /\ references.strong = 1 /\ references.weak = (IF form = "weak" THEN 1 ELSE 0)
        /\ form \in {"weak", "strong"} /\ object = "alive" /\ memory = "allocated"
    BY DEF Init, reference_count
  <1>6. CountsHandles
    BY <1>1, <1>2, <1>5 DEF CountsHandles
  <1>7. HandleInv
    BY <1>1, <1>3 DEF HandleInv
  <1>8. StrongHandleKeepsObject
    BY <1>3, <1>5 DEF StrongHandleKeepsObject
  <1>9. FreeInv
    BY <1>1, <1>3, <1>5 DEF FreeInv
  <1> QED
    BY <1>4, <1>6, <1>7, <1>8, <1>9 DEF WeakInv

\* The invariant holds through every interleaving of the exchanges.
THEOREM WeakInvHolds == Spec => []WeakInv
  <1>1. WeakInv /\ [Next]_vars => WeakInv'
    <2> SUFFICES ASSUME WeakInv, [Next]_vars PROVE WeakInv'
      OBVIOUS
    <2> USE HandlesAssumption
    <2>0. /\ Strong \subseteq Handles /\ Weak \subseteq Handles
          /\ Held(Strong) \subseteq Held(Handles) /\ Held(Weak) \subseteq Held(Handles)
      BY DEF Handles, Held
    <2>1. ASSUME NEW t \in Threads, add_ref(t) PROVE WeakInv'
      <3>1. PICK h \in Strong, new \in Strong \ Held(Strong) :
                /\ pc[t] = "idle" /\ holder[h] = t
                /\ references' = [references EXCEPT !.strong = @ + 1]
                /\ holder' = [holder EXCEPT ![new] = t]
                /\ UNCHANGED <<form, pc, handle, value, object, memory>>
        BY <2>1 DEF add_ref, Uses
      <3>2. new \in Handles /\ new \notin Weak /\ holder[new] = None /\ Held(Strong) # {}
        BY <3>1 DEF Held, Handles
      <3>3. pc' = [pc EXCEPT ![t] = "idle"]
        BY <3>1 DEF WeakInv, WeakTypes
      <3> QED
        BY <3>1, <3>2, <3>3, TakeStep
    <2>2. ASSUME NEW t \in Threads, add_weak_ref(t) PROVE WeakInv'
      <3>1. PICK h \in Handles, new \in Weak \ Held(Weak) :
                /\ form = "weak" /\ pc[t] = "idle" /\ holder[h] = t
                /\ references' = [references EXCEPT !.weak = @ + 1]
                /\ holder' = [holder EXCEPT ![new] = t]
                /\ UNCHANGED <<form, pc, handle, value, object, memory>>
        BY <2>2 DEF add_weak_ref, Uses
      <3>2. new \in Handles /\ new \notin Strong /\ holder[new] = None /\ Held(Handles) # {}
        BY <3>1 DEF Held, Handles
      <3>3. pc' = [pc EXCEPT ![t] = "idle"]
        BY <3>1 DEF WeakInv, WeakTypes
      <3> QED
        BY <3>1, <3>2, <3>3, TakeStep
    <2>3. ASSUME NEW t \in Threads, Move(t) \/ MoveWeak(t) PROVE WeakInv'
      BY <2>0, <2>3, HandOverStep DEF Move, MoveWeak
    <2>4. ASSUME NEW t \in Threads, BeginRelease(t) PROVE WeakInv'
      <3>1. PICK h \in Strong : form = "weak" /\ Load(t, h, "release")
        BY <2>4 DEF BeginRelease
      <3> QED
        BY <2>0, <3>1, LoadStep
    <2>5. ASSUME NEW t \in Threads, BeginReleaseWeak(t) PROVE WeakInv'
      <3>1. PICK h \in Weak : Load(t, h, "release_weak")
        BY <2>5 DEF BeginReleaseWeak
      <3> QED
        BY <2>0, <3>1, LoadStep
    <2>6. ASSUME NEW t \in Threads, BeginLock(t) PROVE WeakInv'
      <3>1. PICK h \in Weak : Load(t, h, "lock")
        BY <2>6 DEF BeginLock
      <3> QED
        BY <2>0, <3>1, LoadStep
    <2>7. ASSUME NEW t \in Threads, Fails(t) PROVE WeakInv'
      <3>1. /\ value' = [value EXCEPT ![t] = references]
            /\ UNCHANGED <<form, references, holder, pc, handle, object, memory>>
        BY <2>7 DEF Fails
      <3>2. Held(Strong)' = Held(Strong) /\ Held(Weak)' = Held(Weak)
        BY <3>1 DEF Held
      <3>3. CountsHandles' /\ StrongHandleKeepsObject' /\ FreeInv'
        BY <3>1, <3>2, QuietStep DEF WeakInv
      <3>4. references \in Words
        BY CountsAreNatural DEF WeakInv
      <3>5. WeakTypes' /\ HandleInv'
        BY <3>1, <3>2, <3>4 DEF WeakInv, WeakTypes, HandleInv
      <3> QED
        BY <3>3, <3>5 DEF WeakInv
    <2>8. ASSUME NEW t \in Threads, Release(t) PROVE WeakInv'
      <3> DEFINE s == references.strong - 1
                 w == IF s = 0 THEN references.weak - 1 ELSE references.weak
      <3>1. /\ form = "weak" /\ handle[t] \in Strong /\ holder[handle[t]] = t
            /\ references \in [strong : Int, weak : Int]
        BY <2>8 DEF Release, WeakInv, WeakTypes, HandleInv
      <3>2. /\ references' = reference_count(s, w)
            /\ pc' = [pc EXCEPT ![t] = IF s # 0 THEN "idle" ELSE IF w = 0 THEN "delete" ELSE "destroy"]
            /\ holder' = [holder EXCEPT ![handle[t]] = None]
            /\ UNCHANGED <<form, handle, value, object, memory>>
        BY <2>8 DEF Release
      <3>3. /\ references'.strong = s /\ references'.weak = w
            /\ references' \in [strong : Int, weak : Int]
        BY <3>1, <3>2 DEF reference_count
      <3> QED
        BY <3>1, <3>2, <3>3, DropStrongStep
    <2>9. ASSUME NEW t \in Threads, ReleaseStrong(t) PROVE WeakInv'
      <3>1. PICK h \in Strong :
                /\ form = "strong" /\ holder[h] = t
                /\ references' = [references EXCEPT !.strong = @ - 1]
                /\ pc' = [pc EXCEPT ![t] = IF references'.strong = 0 THEN "delete" ELSE "idle"]
                /\ holder' = [holder EXCEPT ![h] = None]
                /\ UNCHANGED <<form, handle, value, object, memory>>
        BY <2>9 DEF ReleaseStrong, Uses
      <3>2. /\ references'.strong = references.strong - 1 /\ references'.weak = references.weak
            /\ references' \in [strong : Int, weak : Int]
        BY <3>1 DEF WeakInv, WeakTypes
      <3>3. references'.strong = 0 => references'.weak = 0
        <4>1. Held(Weak) = {} /\ Cardinality(Held(Weak)) = 0
          BY <3>1, FS_EmptySet DEF WeakInv, HandleInv
        <4> QED
          BY <3>1, <3>2, <4>1 DEF WeakInv, CountsHandles
      <3> QED
        BY <3>1, <3>2, <3>3, DropStrongStep
    <2>10. ASSUME NEW t \in Threads, ReleaseWeak(t) PROVE WeakInv'
      BY <2>10, DropWeakStep
    <2>11. ASSUME NEW t \in Threads, LockFails(t) PROVE WeakInv'
      <3>1. /\ pc[t] = "lock" /\ pc' = [pc EXCEPT ![t] = "idle"]
            /\ UNCHANGED <<form, references, holder, handle, value, object, memory>>
        BY <2>11 DEF LockFails
      <3>2. Held(Strong)' = Held(Strong) /\ Held(Weak)' = Held(Weak)
        BY <3>1 DEF Held
      <3>3. \A u \in Threads : pc'[u] = (IF u = t THEN "idle" ELSE pc[u])
        BY <3>1 DEF WeakInv, WeakTypes
      <3>4. CountsHandles' /\ StrongHandleKeepsObject' /\ FreeInv'
        BY <3>1, <3>2, <3>3, QuietStep DEF WeakInv
      <3>5. WeakTypes' /\ HandleInv'
        BY <3>1, <3>2 DEF WeakInv, WeakTypes, HandleInv
      <3> QED
        BY <3>4, <3>5 DEF WeakInv
    \* The strong count that the lock saw is the one it exchanges, and is not 0.
    <2>12. ASSUME NEW t \in Threads, Lock(t) PROVE WeakInv'
      <3>1. PICK new \in Strong \ Held(Strong) :
                /\ pc[t] = "lock" /\ references.strong # 0
                /\ references' = [references EXCEPT !.strong = @ + 1]
                /\ pc' = [pc EXCEPT ![t] = "idle"]
                /\ holder' = [holder EXCEPT ![new] = t]
                /\ UNCHANGED <<form, handle, value, object, memory>>
        BY <2>12 DEF Lock
      <3>2. new \in Handles /\ new \notin Weak /\ holder[new] = None
        BY <3>1 DEF Held, Handles
      <3>3. Held(Strong) # {}
        BY <3>1, FS_EmptySet DEF WeakInv, CountsHandles
      <3> QED
        BY <3>1, <3>2, <3>3, TakeStep
    <2>13. ASSUME NEW t \in Threads, Delete(t) PROVE WeakInv'
      <3>1. /\ pc[t] \in {"delete", "free"} /\ memory' = "freed"
            /\ object' = IF form = "strong" THEN "destroyed" ELSE object
            /\ pc' = [pc EXCEPT ![t] = "idle"]
            /\ UNCHANGED <<form, references, holder, handle, value>>
        BY <2>13 DEF Delete
      <3>2. Held(Strong)' = Held(Strong) /\ Held(Weak)' = Held(Weak)
        BY <3>1 DEF Held
      <3>3. WeakTypes' /\ HandleInv' /\ CountsHandles'
        BY <3>1, <3>2 DEF WeakInv, WeakTypes, HandleInv, CountsHandles
      <3>4. /\ Held(Strong) = {} /\ Held(Weak) = {}
            /\ \A u \in Threads : pc'[u] \notin {"delete", "free"}
        BY <3>1 DEF WeakInv, WeakTypes, FreeInv
      \* In the strong form, t is the only thread inside a deletion.
      <3>5. ASSUME NEW u \in Threads, pc'[u] \in {"delete", "destroy"}
            PROVE  /\ object' = "alive"
                   /\ \A v \in Threads : pc'[v] \in {"delete", "destroy"} => v = u
        <4>1. \A v \in Threads : pc'[v] = IF v = t THEN "idle" ELSE pc[v]
          BY <3>1 DEF WeakInv, WeakTypes
        <4>2. /\ u # t /\ pc[u] \in {"delete", "destroy"} /\ object = "alive"
              /\ \A v \in Threads : pc[v] \in {"delete", "destroy"} => v = u
          BY <3>5, <4>1 DEF WeakInv, FreeInv
        <4>3. pc[t] = "free" /\ form = "weak"
          BY <3>1, <4>2 DEF WeakInv, FreeInv
        <4> QED
          BY <3>1, <4>1, <4>2, <4>3
      <3>6. StrongHandleKeepsObject' /\ FreeInv'
        BY <3>1, <3>2, <3>4, <3>5 DEF StrongHandleKeepsObject, FreeInv
      <3> QED
        BY <3>3, <3>6 DEF WeakInv
    <2>14. ASSUME NEW t \in Threads, Destroy(t) PROVE WeakInv'
      <3>1. /\ pc[t] = "destroy" /\ object' = "destroyed"
            /\ pc' = [pc EXCEPT ![t] = "idle"]
            /\ UNCHANGED <<form, references, holder, handle, value, memory>>
        BY <2>14 DEF Destroy
      <3>2. Held(Strong)' = Held(Strong) /\ Held(Weak)' = Held(Weak)
        BY <3>1 DEF Held
      <3>3. WeakTypes' /\ HandleInv' /\ CountsHandles'
        BY <3>1, <3>2 DEF WeakInv, WeakTypes, HandleInv, CountsHandles
      <3>4. /\ Held(Strong) = {}
            /\ \A u \in Threads : pc'[u] \in {"delete", "free"} <=> pc[u] \in {"delete", "free"}
        BY <3>1 DEF WeakInv, WeakTypes, StrongHandleKeepsObject
      <3>5. \A u \in Threads : /\ pc'[u] \notin {"delete", "destroy"}
                               /\ pc'[u] = "free" => form' = "weak"
        BY <3>1 DEF WeakInv, WeakTypes, FreeInv
      <3>6. StrongHandleKeepsObject' /\ FreeInv'
        BY <3>1, <3>2, <3>4, <3>5 DEF WeakInv, StrongHandleKeepsObject, FreeInv
      <3> QED
        BY <3>3, <3>6 DEF WeakInv
    <2>15. CASE UNCHANGED vars
      <3>1. UNCHANGED <<form, references, holder, pc, handle, value, object, memory>>
        BY <2>15 DEF vars
      <3>2. Held(Strong)' = Held(Strong) /\ Held(Weak)' = Held(Weak)
        BY <3>1 DEF Held
      <3>3. CountsHandles' /\ StrongHandleKeepsObject' /\ FreeInv'
        BY <3>1, <3>2, QuietStep DEF WeakInv
      <3>4. WeakTypes' /\ HandleInv'
        BY <3>1, <3>2 DEF WeakInv, WeakTypes, HandleInv
      <3> QED
        BY <3>3, <3>4 DEF WeakInv
    <2> QED
      BY <2>1, <2>2, <2>3, <2>4, <2>5, <2>6, <2>7, <2>8, <2>9, <2>10, <2>11, <2>12, <2>13,
         <2>14, <2>15 DEF Next
  <1> QED
    BY <1>1, InitWeakInv, PTL DEF Spec

\* Every variable keeps its type: in particular no exchange takes a count below 0,
\* where it would borrow from the other one (intrusive_ptr.hpp:363-375, 393-403).
THEOREM TypeCorrect == Spec => []TypeOK
  <1>1. WeakInv => TypeOK
    BY CountsAreNatural DEF WeakInv, WeakTypes, TypeOK
  <1> QED
    BY <1>1, WeakInvHolds, PTL

\* The word counts the handles, and one weak reference for all strong ones
\* (intrusive_ptr.hpp:356-427).
THEOREM CountsHandlesHolds == Spec => []CountsHandles
  <1>1. WeakInv => CountsHandles
    BY DEF WeakInv
  <1> QED
    BY <1>1, WeakInvHolds, PTL

\* A strong handle, also one made by lock(), points to an object that is neither
\* destroyed nor about to be (intrusive_ptr.hpp:363-384, 411-427).
THEOREM StrongHandleKeepsObjectHolds == Spec => []StrongHandleKeepsObject
  <1>1. WeakInv => StrongHandleKeepsObject
    BY DEF WeakInv
  <1> QED
    BY <1>1, WeakInvHolds, PTL

\* The memory is freed by one thread, once, when nobody has a handle, and is freed
\* when nobody has a handle and nobody is in a release. ~T() runs at most once; when
\* the last strong handle is gone, it has run or the memory was freed without it
\* (intrusive_ptr.hpp:377-383, 405-407).
THEOREM FreedOnceHolds == Spec => []FreedOnce
  <1>1. WeakInv => FreedOnce
    <2>1. Held(Handles) = Held(Strong) \cup Held(Weak)
      BY DEF Held, Handles
    <2> QED
      BY <2>1 DEF WeakInv, FreeInv, FreedOnce
  <1> QED
    BY <1>1, WeakInvHolds, PTL
=============================================================================
