--------------------------------- MODULE List ---------------------------------
(* The intrusive doubly linked list of include/ptl/containers/list.hpp: each  *)
(* list is the head of a ring of entries, and an item has an entry for each   *)
(* list type it can be in (test/list_ut.cpp: two entries, two lists). One     *)
(* thread at a time uses the lists. Callers insert an item by an entry that   *)
(* is in no list, which the code relies on and nowhere tests.                 *)
EXTENDS Naturals, FiniteSets, Sequences

CONSTANTS Items,
          Entries,  \* the ListEntry members of an item
          Holders,  \* the structures with one list for each entry
          NoItem    \* nullptr

ASSUME ItemsAssumption == IsFiniteSet(Items) /\ Items \cap Entries = {}

VARIABLES next, prev,  \* next_ and prev_ of every head and entry
          living,      \* the items and the lists that exist
          ending,      \* the list in whose destructor the thread is, if any
          found        \* what front() or back() last returned

listVars == <<next, prev, living, ending, found>>

Lists == Entries \X Holders
Entry(l) == l[1]

\* A list is its head; the entry e of item i is <<i, e>>.
Nodes == Lists \cup (Items \X Entries)
to_entry(i, e) == <<i, e>>
from_entry(n) == n[1]

ListTypeOK ==
    /\ next \in [Nodes -> Nodes] /\ prev \in [Nodes -> Nodes]
    /\ living \subseteq Items \cup Lists
    /\ ending \subseteq Lists /\ Cardinality(ending) <= 1
    /\ found \in Items \cup {NoItem}

ListInit ==
    /\ next = [n \in Nodes |-> n]
    /\ prev = [n \in Nodes |-> n]
    /\ living = Lists
    /\ ending = {}
    /\ found = NoItem

in_list(n) == next[n] # n
empty(l) == ~in_list(l)

-----------------------------------------------------------------------------
(* ListEntry *)

\* The nodes of N leave their rings: no two of them are in the same.
Unlink(N) ==
    /\ next' = [n \in Nodes |-> IF n \in N THEN n
                                ELSE IF next[n] \in N THEN next[next[n]] ELSE next[n]]
    /\ prev' = [n \in Nodes |-> IF n \in N THEN n
                                ELSE IF prev[n] \in N THEN prev[prev[n]] ELSE prev[n]]

remove(i, e) ==
    /\ ending = {} /\ i \in living
    /\ Unlink({to_entry(i, e)})
    /\ UNCHANGED <<living, ending, found>>

\* Mutant. prev_->next_ is not set.
insert_before_mut(n, other) ==
    /\ next' = [next EXCEPT ![n] = other]
    /\ prev' = [prev EXCEPT ![n] = prev[other], ![other] = n]

insert_before(n, other) ==
    /\ next' = [next EXCEPT ![n] = other, ![prev[other]] = n]
    /\ prev' = [prev EXCEPT ![n] = prev[other], ![other] = n]

insert_after(n, other) ==
    /\ prev' = [prev EXCEPT ![n] = other, ![next[other]] = n]
    /\ next' = [next EXCEPT ![n] = next[other], ![other] = n]

-----------------------------------------------------------------------------
(* Items and lists *)

\* The thread may use the item, and the item may be inserted by its entry e.
Insertable(i, e) == ending = {} /\ i \in living /\ ~in_list(to_entry(i, e))

Create(i) ==
    /\ ending = {} /\ i \notin living
    /\ living' = living \cup {i}
    /\ UNCHANGED <<next, prev, ending, found>>

\* The destructors of an item's entries
Delete(i) ==
    /\ i \in living
    /\ living' = living \ {i}
    /\ Unlink({to_entry(i, e) : e \in Entries})
    /\ UNCHANGED <<ending, found>>

DeleteItem(i) == ending = {} /\ Delete(i)

push_back(l, i) ==
    /\ l \in living /\ Insertable(i, Entry(l))
    /\ insert_before(to_entry(i, Entry(l)), l)
    /\ UNCHANGED <<living, ending, found>>

push_front(l, i) ==
    /\ l \in living /\ Insertable(i, Entry(l))
    /\ insert_after(to_entry(i, Entry(l)), l)
    /\ UNCHANGED <<living, ending, found>>

\* An item may also be put beside one that is in a list.
InsertBefore(i, j, e) ==
    /\ Insertable(i, e) /\ j \in living /\ in_list(to_entry(j, e))
    /\ insert_before(to_entry(i, e), to_entry(j, e))
    /\ UNCHANGED <<living, ending, found>>

InsertAfter(i, j, e) ==
    /\ Insertable(i, e) /\ j \in living /\ in_list(to_entry(j, e))
    /\ insert_after(to_entry(i, e), to_entry(j, e))
    /\ UNCHANGED <<living, ending, found>>

front(l) ==
    /\ ending = {} /\ l \in living
    /\ found' = IF empty(l) THEN NoItem ELSE from_entry(next[l])
    /\ UNCHANGED <<next, prev, living, ending>>

back(l) ==
    /\ ending = {} /\ l \in living
    /\ found' = IF empty(l) THEN NoItem ELSE from_entry(prev[l])
    /\ UNCHANGED <<next, prev, living, ending>>

\* ~List deletes the first item until the list is empty, then the head ends.
BeginDestruct(l) ==
    /\ ending = {} /\ l \in living
    /\ ending' = {l}
    /\ UNCHANGED <<next, prev, living, found>>

DeleteFront(l) ==
    /\ l \in ending /\ ~empty(l)
    /\ Delete(from_entry(next[l]))

EndDestruct(l) ==
    /\ l \in ending /\ empty(l)
    /\ ending' = {} /\ living' = living \ {l}
    /\ UNCHANGED <<next, prev, found>>

ListNext ==
    \/ \E i \in Items : Create(i) \/ DeleteItem(i)
    \/ \E i \in Items, e \in Entries :
           \/ remove(i, e)
           \/ \E j \in Items : InsertBefore(i, j, e) \/ InsertAfter(i, j, e)
    \/ \E l \in Lists :
           \/ front(l) \/ back(l) \/ BeginDestruct(l) \/ DeleteFront(l) \/ EndDestruct(l)
           \/ \E i \in Items : push_back(l, i) \/ push_front(l, i)

ListSpec == ListInit /\ [][ListNext]_listVars

-----------------------------------------------------------------------------
\* The n-th node of a ring that goes through s, from its head and back to it
Node(l, s, n) == IF n \in DOMAIN s THEN to_entry(s[n], Entry(l)) ELSE l

IsRing(l, s) == \A n \in 0 .. Len(s) : next[Node(l, s, n)] = Node(l, s, n + 1)

\* The sequences of items that are no longer than their number
Beginning(s, n) == SubSeq(s, 1, n)
Orders ==
    {Beginning(s, n) : n \in 0 .. Cardinality(Items), s \in [1 .. Cardinality(Items) -> Items]}

contentsBar == [l \in Lists |-> CHOOSE s \in Orders : IsRing(l, s)]

Contents == INSTANCE ListContents WITH contents <- contentsBar

\* What each operation of the lists does to the sequences of their items
OperationsAgree ==
    /\ \A i \in Items :
           /\ Create(i) => Contents!Create(i)
           /\ DeleteItem(i) => Contents!Delete(i)
           /\ \A e \in Entries :
                  /\ remove(i, e) => Contents!TakeOut(i, e)
                  /\ \A j \in Items : /\ InsertBefore(i, j, e) => Contents!PutBeside(i, j, e, 0)
                                      /\ InsertAfter(i, j, e) => Contents!PutBeside(i, j, e, 1)
    /\ \A l \in Lists :
           /\ front(l) => Contents!First(l)
           /\ back(l) => Contents!Final(l)
           /\ BeginDestruct(l) => Contents!BeginEnd(l)
           /\ DeleteFront(l) => Contents!Delete(Head(contentsBar[l]))
           /\ EndDestruct(l) => Contents!End(l)
           /\ \A i \in Items : /\ push_back(l, i) => Contents!PutLast(l, i)
                               /\ push_front(l, i) => Contents!PutFirst(l, i)

\* Each operation does to the sequences of items what it is named for, in every
\* order of calls: the rings stay rings, seen from both sides, and an item that
\* is deleted, also by the destructor of another list, is nowhere any more
\* (list.hpp:63-97, 128-159).
ImplementsContents == Contents!ContentsInit /\ [][OperationsAgree]_listVars
=============================================================================
