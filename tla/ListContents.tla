----------------------------- MODULE ListContents -----------------------------
(* What intrusive lists promise: each list is a sequence of items; an item is *)
(* at most once in the lists of one entry, and in none when it is deleted; a  *)
(* list that is destroyed deletes its items, the first one first.             *)
EXTENDS Naturals, Sequences, SequencesExt

CONSTANTS Items, Entries, Holders, NoItem

VARIABLES contents,  \* the items of each list
          living,    \* the items and the lists that exist
          ending,    \* the lists whose destructor runs: at most one
          found      \* what front() or back() last returned

contentsVars == <<contents, living, ending, found>>

\* A list takes items by one of their entries.
Lists == Entries \X Holders
Entry(l) == l[1]

\* An item is at most once in a list.
Without(s, i) == IF i \in ToSet(s) THEN RemoveAt(s, CHOOSE n \in DOMAIN s : s[n] = i) ELSE s

\* The item is in no list by its entry e.
Free(i, e) == \A l \in Lists : Entry(l) = e => i \notin ToSet(contents[l])

ContentsInit ==
    /\ contents = [l \in Lists |-> <<>>]
    /\ living = Lists
    /\ ending = {}
    /\ found = NoItem

Create(i) ==
    /\ i \notin living /\ living' = living \cup {i}
    /\ UNCHANGED <<contents, ending, found>>

Becomes(l, s) ==
    /\ contents' = [contents EXCEPT ![l] = s]
    /\ UNCHANGED <<living, ending, found>>

PutLast(l, i) == Free(i, Entry(l)) /\ Becomes(l, Append(contents[l], i))
PutFirst(l, i) == Free(i, Entry(l)) /\ Becomes(l, <<i>> \o contents[l])

\* i goes to where j is, or behind it.
PutBeside(i, j, e, behind) ==
    \E l \in Lists : \E n \in 1 .. Len(contents[l]) :
        /\ Entry(l) = e /\ contents[l][n] = j /\ Free(i, e)
        /\ Becomes(l, InsertAt(contents[l], n + behind, i))

TakeOut(i, e) ==
    /\ contents' = [l \in Lists |-> IF Entry(l) = e THEN Without(contents[l], i) ELSE contents[l]]
    /\ UNCHANGED <<living, ending, found>>

Delete(i) ==
    /\ i \in living
    /\ \A l \in ending : contents[l] # <<>> /\ i = Head(contents[l])
    /\ living' = living \ {i}
    /\ contents' = [l \in Lists |-> Without(contents[l], i)]
    /\ UNCHANGED <<ending, found>>

Find(l, item) ==
    /\ found' = IF contents[l] = <<>> THEN NoItem ELSE item
    /\ UNCHANGED <<contents, living, ending>>

First(l) == Find(l, Head(contents[l]))
Final(l) == Find(l, Last(contents[l]))

BeginEnd(l) ==
    /\ l \in living /\ ending = {} /\ ending' = {l}
    /\ UNCHANGED <<contents, living, found>>

End(l) ==
    /\ ending = {l} /\ contents[l] = <<>>
    /\ ending' = {} /\ living' = living \ {l}
    /\ UNCHANGED <<contents, found>>
=============================================================================
