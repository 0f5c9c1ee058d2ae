--------------------------- MODULE SubprocessProofs ---------------------------
(* The notifications and the descriptors of subprocesses, for any number of   *)
(* owners, any size of pipe and any number of writes.                         *)
EXTENDS Subprocess, SequenceTheorems, WellFoundedInduction, TLAPS

-----------------------------------------------------------------------------
(* Lists. Induction is by the least number at which a fact would fail.        *)

\* Some number of a set is the least one.
LEMMA LeastOf ==
    ASSUME NEW S \in SUBSET Nat, S # {}
    PROVE  \E x \in S : \A y \in S : x <= y
  <1>1. PICK x \in S : \A y \in S : ~(<<y, x>> \in OpToRel(<, Nat))
    BY WFMin, NatLessThanWellFounded, Zenon
  <1>2. \A y \in S : ~(y < x)
    <2> SUFFICES ASSUME NEW y \in S, y < x PROVE FALSE
      OBVIOUS
    <2>1. x \in Nat /\ y \in Nat
      OBVIOUS
    <2> QED
      BY <1>1, <2>1, Zenon DEF OpToRel
  <1> QED
    BY <1>2

\* The first index at which ev_process_change finds data is one of them.
LEMMA MinIsMember ==
    ASSUME NEW S \in SUBSET Nat, S # {}
    PROVE  Min(S) \in S
  <1>1. PICK x \in S : \A y \in S : x <= y
    BY LeastOf
  <1> QED
    BY <1>1 DEF Min

\* f satisfies the recursion that removes the data of o from the list.
Removes(f, list, o) ==
    f = [i \in 0 .. Len(list) |->
            IF i = 0 THEN <<>>
            ELSE IF list[i] = o THEN f[i - 1] ELSE Append(f[i - 1], list[i])]

\* The recursion that removes data is well-defined.
LEMMA KeptExists ==
    ASSUME NEW S, NEW list \in Seq(S), NEW o
    PROVE  \E f : Removes(f, list, o)
  <1> DEFINE Step(f, i) == IF i = 0 THEN <<>>
                           ELSE IF list[i] = o THEN f[i - 1] ELSE Append(f[i - 1], list[i])
             Defined(n) == \E f : f = [i \in 0 .. n |-> Step(f, i)]
             Fails == {n \in Nat : n <= Len(list) /\ ~Defined(n)}
  <1>1. Len(list) \in Nat
    OBVIOUS
  <1> HIDE DEF Defined
  <1> SUFFICES ASSUME Len(list) \in Fails PROVE FALSE
    BY <1>1 DEF Defined, Removes
  <1>2. PICK n \in Fails : \A m \in Fails : n <= m
    <2>1. Fails \in SUBSET Nat /\ Fails # {}
      OBVIOUS
    <2> HIDE DEF Fails
    <2> QED
      BY <2>1, LeastOf
  <1>3. n # 0
    <2> SUFFICES ASSUME n = 0 PROVE FALSE
      OBVIOUS
    <2> DEFINE f == [i \in 0 .. 0 |-> <<>>]
    <2>1. f = [i \in 0 .. 0 |-> Step(f, i)]
      OBVIOUS
    <2>2. Defined(0)
      BY <2>1 DEF Defined
    <2> QED
      BY <2>2
  <1>4. n - 1 \in Nat /\ n \in Nat /\ n <= Len(list) /\ Defined(n - 1)
    BY <1>1, <1>2, <1>3
  <1>5. PICK g : g = [i \in 0 .. n - 1 |-> Step(g, i)]
    BY <1>4 DEF Defined
  <1> DEFINE f == [i \in 0 .. n |-> IF i = n THEN Step(g, n) ELSE g[i]]
  <1>6. ASSUME NEW i \in 0 .. n PROVE f[i] = Step(f, i)
    <2>1. CASE i = 0
      BY <1>3, <1>4, <1>5, <2>1
    <2>2. CASE i = n
      <3>1. f[n - 1] = g[n - 1]
        BY <1>3, <1>4
      <3> QED
        BY <1>3, <1>4, <2>2, <3>1
    <2>3. CASE i # 0 /\ i # n
      <3>1. f[i] = g[i] /\ f[i - 1] = g[i - 1] /\ i \in 0 .. n - 1
        BY <1>4, <2>3
      <3>2. g[i] = Step(g, i)
        BY <1>5, <3>1
      <3> QED
        BY <2>3, <3>1, <3>2
    <2> QED
      BY <2>1, <2>2, <2>3
  <1>7. f = [i \in 0 .. n |-> Step(f, i)]
    BY <1>6
  <1> HIDE DEF f
  <1> QED
    BY <1>2, <1>7 DEF Defined

\* Nothing is left of the data of o, and nothing is added.
LEMMA WithoutRest ==
    ASSUME NEW S, NEW list \in Seq(S), NEW o
    PROVE  Without(list, o) \in Seq({list[i] : i \in 1 .. Len(list)} \ {o})
  <1> DEFINE R == {list[i] : i \in 1 .. Len(list)} \ {o}
             kept == CHOOSE f : Removes(f, list, o)
             Fails == {n \in Nat : n <= Len(list) /\ kept[n] \notin Seq(R)}
  <1>1. Without(list, o) = kept[Len(list)] /\ Len(list) \in Nat
    BY DEF Without, Removes
  <1>2. kept = [i \in 0 .. Len(list) |->
                   IF i = 0 THEN <<>>
                   ELSE IF list[i] = o THEN kept[i - 1] ELSE Append(kept[i - 1], list[i])]
    <2>1. \E f : Removes(f, list, o)
      BY KeptExists
    <2>2. Removes(kept, list, o)
      BY <2>1, Zenon
    <2> HIDE DEF kept
    <2> QED
      BY <2>2 DEF Removes
  <1> HIDE DEF kept
  <1> SUFFICES ASSUME Len(list) \in Fails PROVE FALSE
    BY <1>1
  <1>3. PICK n \in Fails : \A m \in Fails : n <= m
    <2>1. Fails \in SUBSET Nat /\ Fails # {}
      OBVIOUS
    <2> HIDE DEF Fails
    <2> QED
      BY <2>1, LeastOf
  <1>4. n \in 0 .. Len(list) /\ kept[n] \notin Seq(R)
    BY <1>1, <1>3
  <1>5. n # 0
    BY <1>2, <1>4
  <1>6. n - 1 \in 0 .. Len(list) /\ kept[n - 1] \in Seq(R)
    BY <1>1, <1>3, <1>4, <1>5
  <1>7. kept[n] = IF list[n] = o THEN kept[n - 1] ELSE Append(kept[n - 1], list[n])
    BY <1>2, <1>4, <1>5
  <1>8. list[n] # o => list[n] \in R
    BY <1>1, <1>4, <1>5
  <1> HIDE DEF R
  <1> QED
    BY <1>4, <1>6, <1>7, <1>8

-----------------------------------------------------------------------------
(* The invariant *)

\* Data is told by its owner, who launched the child of that number.
Numbers ==
    \A o \in Owners :
        /\ pid[o] = IF launched[o] = "ok" THEN o ELSE None
        /\ launched[o] = "ok" <=> child[o] # "none"
        /\ body[o] = "unstarted" => launched[o] = "no"

\* What is in the list is the data of a subprocess that exists, and until its
\* child is reaped its owner has not left wait().
Registered ==
    \A i \in 1 .. Len(watchers) :
        LET o == watchers[i]
        IN  /\ launched[o] = "ok" /\ body[o] # "done"
            /\ child[o] # "reaped" => body[o] = "waiting"

\* wait() returns what its child exited with.
Statuses == \A o \in Owners : rc[o] # None => child[o] = "reaped" /\ rc[o] = status[o]

ProcessTypes ==
    /\ body \in [Owners -> {"unstarted", "running", "reading", "waiting", "elsewhere", "done"}]
    /\ launched \in [Owners -> {"no", "ok", "failed"}]
    /\ fds \in [Owners -> SUBSET (Stdin \cup Stdout)]
    /\ members \in [Owners -> SUBSET (Stdin \cup Stdout)]
    /\ pid \in [Owners -> Owners \cup {None}]
    /\ rc \in [Owners -> {0, 1, None}]
    /\ watchers \in Seq(Owners)
    /\ child \in [Owners -> {"none", "running", "exited", "reaped"}]
    /\ status \in [Owners -> {0, 1}]

ProcessInv == ProcessTypes /\ Numbers /\ Registered /\ Statuses /\ DescriptorsClosed

\* The data that ev_process_change finds for a child is its owner's.
LEMMA FindsOwner ==
    ASSUME ProcessInv, NEW o \in Owners, Matches(o) # {}
    PROVE  /\ Found(o) = o
           /\ \E i \in 1 .. Len(watchers) : watchers[i] = o
  <1>1. Matches(o) \in SUBSET Nat /\ DOMAIN watchers = 1 .. Len(watchers)
    BY DEF Matches, ProcessInv, ProcessTypes
  <1>2. Min(Matches(o)) \in Matches(o)
    BY <1>1, MinIsMember
  <1>3. PICK i \in 1 .. Len(watchers) : i = Min(Matches(o)) /\ pid[watchers[i]] = o
    BY <1>1, <1>2 DEF Matches
  <1>4. watchers[i] = o
    BY <1>3, NoneAssumption DEF ProcessInv, ProcessTypes, Numbers
  <1> QED
    BY <1>3, <1>4 DEF Found

\* An owner that goes on, but not out of wait().
LEMMA GoesOnKeepsInv ==
    ASSUME ProcessInv, NEW o \in Owners, NEW b \in {"running", "reading", "elsewhere"},
           body[o] \in {"unstarted", "running", "reading", "elsewhere"},
           body' = [body EXCEPT ![o] = b],
           UNCHANGED <<objectVars, rc, watchers, child, status>>
    PROVE  ProcessInv'
  <1>1. ProcessTypes'
    BY DEF ProcessInv, ProcessTypes, objectVars
  <1>2. /\ body'[o] = b /\ \A p \in Owners \ {o} : body'[p] = body[p]
        /\ UNCHANGED <<launched, fds, members, pid, rc, watchers, child, status>>
    BY DEF ProcessInv, ProcessTypes, objectVars
  <1>3. Numbers' /\ Statuses'
    BY <1>2 DEF ProcessInv, Numbers, Statuses
  <1>4. Registered'
    BY <1>2 DEF ProcessInv, ProcessTypes, Registered
  <1>5. DescriptorsClosed'
    BY <1>2 DEF ProcessInv, DescriptorsClosed
  <1> QED
    BY <1>1, <1>3, <1>4, <1>5 DEF ProcessInv

\* A step that leaves alone what the invariant is about.
LEMMA RestKeepsInv ==
    ASSUME ProcessInv, UNCHANGED <<body, objectVars, rc, watchers, child, status>>
    PROVE  ProcessInv'
  BY DEF ProcessInv, ProcessTypes, Numbers, Registered, Statuses, DescriptorsClosed, objectVars

\* launch, whatever it comes to: the descriptors left are those of a subprocess.
LEMMA LaunchKeepsInv ==
    ASSUME ProcessInv, NEW o \in Owners, Launch(o)
    PROVE  ProcessInv'
  <1>1. PICK outcome \in Outcomes :
            /\ launched' = [launched EXCEPT ![o] = IF outcome = "ok" THEN "ok" ELSE "failed"]
            /\ fds' = [fds EXCEPT ![o] = Opened(outcome) \ Closed(outcome)]
            /\ members' = [members EXCEPT ![o] = IF outcome = "ok" THEN {"stdout0", "stdin0"} ELSE {}]
            /\ pid' = [pid EXCEPT ![o] = IF outcome = "ok" THEN o ELSE None]
            /\ child' = [child EXCEPT ![o] = IF outcome = "ok" THEN "running" ELSE "none"]
    BY DEF Launch
  <1>2. /\ body[o] = "running" /\ launched[o] = "no" /\ UNCHANGED <<body, rc, watchers, status>>
        /\ child[o] = "none" /\ rc[o] = None
    BY DEF Launch, ProcessInv, ProcessTypes, Numbers, Statuses
  <1>3. Opened(outcome) \ Closed(outcome) = IF outcome = "ok" THEN {"stdout0", "stdin0"} ELSE {}
    BY DEF Opened, Closed, Outcomes, Stdin, Stdout
  <1>4. ProcessTypes'
    BY <1>1, <1>2, <1>3 DEF ProcessInv, ProcessTypes, Stdin, Stdout
  <1>5. Numbers'
    BY <1>1, <1>2 DEF ProcessInv, ProcessTypes, Numbers
  <1>6. \A i \in 1 .. Len(watchers) : watchers[i] # o /\ watchers[i] \in Owners
    BY <1>2 DEF ProcessInv, ProcessTypes, Registered
  <1>7. Registered'
    BY <1>1, <1>2, <1>6 DEF ProcessInv, ProcessTypes, Registered
  <1>8. Statuses'
    BY <1>1, <1>2 DEF ProcessInv, ProcessTypes, Statuses
  <1>9. DescriptorsClosed'
    BY <1>1, <1>2, <1>3 DEF ProcessInv, ProcessTypes, DescriptorsClosed
  <1> QED
    BY <1>4, <1>5, <1>7, <1>8, <1>9 DEF ProcessInv

\* wait registers the data of a child that is not known to have ended.
LEMMA WaitKeepsInv ==
    ASSUME ProcessInv, NEW o \in Owners, Wait(o)
    PROVE  ProcessInv'
  <1>1. /\ body[o] = "running" /\ launched[o] = "ok" /\ body' = [body EXCEPT ![o] = "waiting"]
        /\ watchers' = Append(watchers, o)
        /\ UNCHANGED <<launched, fds, members, pid, rc, child, status>>
    BY DEF Wait, objectVars, kernelVars
  <1>2. /\ watchers' \in Seq(Owners) /\ Len(watchers') = Len(watchers) + 1 /\ Len(watchers) \in Nat
        /\ watchers'[Len(watchers) + 1] = o
        /\ \A i \in 1 .. Len(watchers) : watchers'[i] = watchers[i] /\ watchers[i] \in Owners
    BY <1>1 DEF ProcessInv, ProcessTypes
  <1>3. ProcessTypes' /\ Numbers' /\ Statuses' /\ DescriptorsClosed'
    BY <1>1, <1>2 DEF ProcessInv, ProcessTypes, Numbers, Statuses, DescriptorsClosed
  <1>4. ASSUME NEW p \in Owners,
               p = o \/ /\ launched[p] = "ok" /\ body[p] # "done"
                        /\ child[p] # "reaped" => body[p] = "waiting"
        PROVE  /\ launched'[p] = "ok" /\ body'[p] # "done"
               /\ child'[p] # "reaped" => body'[p] = "waiting"
    BY <1>1, <1>4 DEF ProcessInv, ProcessTypes
  <1>5. Registered'
    <2> SUFFICES ASSUME NEW i \in 1 .. Len(watchers')
                 PROVE  LET p == watchers'[i]
                        IN  /\ launched'[p] = "ok" /\ body'[p] # "done"
                            /\ child'[p] # "reaped" => body'[p] = "waiting"
      BY DEF Registered
    <2>1. CASE i \in 1 .. Len(watchers)
      BY <1>2, <1>4, <2>1 DEF ProcessInv, Registered
    <2>2. CASE i = Len(watchers) + 1
      BY <1>2, <1>4, <2>2
    <2> QED
      BY <1>2, <2>1, <2>2
  <1> QED
    BY <1>3, <1>5 DEF ProcessInv

\* ~subprocess takes its data out of the list and closes what it holds.
LEMMA DestroyKeepsInv ==
    ASSUME ProcessInv, NEW o \in Owners, Destroy(o)
    PROVE  ProcessInv'
  <1>1. /\ body[o] = "running" /\ body' = [body EXCEPT ![o] = "done"]
        /\ watchers' = Without(watchers, o) /\ fds' = [fds EXCEPT ![o] = @ \ members[o]]
        /\ UNCHANGED <<launched, members, pid, rc, child, status>>
    BY DEF Destroy, kernelVars
  <1> DEFINE R == {watchers[i] : i \in 1 .. Len(watchers)} \ {o}
  <1>2. watchers' \in Seq(R)
    BY <1>1, WithoutRest DEF ProcessInv, ProcessTypes
  <1>3. /\ R \subseteq Owners
        /\ \A p \in R : /\ launched[p] = "ok" /\ body[p] # "done"
                        /\ child[p] # "reaped" => body[p] = "waiting"
    BY DEF ProcessInv, ProcessTypes, Registered
  <1>4. o \notin R
    OBVIOUS
  <1> HIDE DEF R
  <1>5. watchers' \in Seq(Owners) /\ \A i \in 1 .. Len(watchers') : watchers'[i] \in R
    BY <1>2, <1>3
  <1>6. ProcessTypes' /\ Numbers' /\ Statuses'
    BY <1>1, <1>5 DEF ProcessInv, ProcessTypes, Numbers, Statuses
  <1>7. Registered'
    BY <1>1, <1>3, <1>4, <1>5 DEF ProcessInv, ProcessTypes, Registered
  <1>8. DescriptorsClosed'
    BY <1>1 DEF ProcessInv, ProcessTypes, DescriptorsClosed
  <1> QED
    BY <1>6, <1>7, <1>8 DEF ProcessInv

LEMMA ExitKeepsInv ==
    ASSUME ProcessInv, NEW o \in Owners, Exit(o)
    PROVE  ProcessInv'
  <1>1. /\ child[o] = "running" /\ child' = [child EXCEPT ![o] = "exited"]
        /\ \E s \in {0, 1} : status' = [status EXCEPT ![o] = s]
        /\ UNCHANGED <<body, launched, fds, members, pid, rc, watchers>>
    BY DEF Exit, objectVars
  <1>2. ProcessTypes' /\ DescriptorsClosed' /\ Numbers'
    BY <1>1 DEF ProcessInv, ProcessTypes, DescriptorsClosed, Numbers
  <1>3. Registered'
    BY <1>1 DEF ProcessInv, ProcessTypes, Registered
  <1>4. Statuses'
    BY <1>1 DEF ProcessInv, ProcessTypes, Statuses
  <1> QED
    BY <1>2, <1>3, <1>4 DEF ProcessInv

\* The exit is told to the owner of the child, which leaves wait(), or to nobody.
LEMMA ReapKeepsInv ==
    ASSUME ProcessInv, NEW o \in Owners, Reap(o)
    PROVE  ProcessInv'
  <1>1. /\ child[o] = "exited" /\ child' = [child EXCEPT ![o] = "reaped"]
        /\ UNCHANGED <<launched, fds, members, pid, watchers, status>>
    BY DEF Reap, objectVars
  <1>2. \/ /\ body[o] = "waiting"
           /\ rc' = [rc EXCEPT ![o] = status[o]] /\ body' = [body EXCEPT ![o] = "running"]
        \/ UNCHANGED <<rc, body>>
    BY FindsOwner DEF Reap, ev_process_change
  <1>3. ProcessTypes'
    BY <1>1, <1>2 DEF ProcessInv, ProcessTypes
  <1>4. DescriptorsClosed' /\ Numbers'
    BY <1>1, <1>2 DEF ProcessInv, ProcessTypes, DescriptorsClosed, Numbers
  <1>5. Registered'
    BY <1>1, <1>2 DEF ProcessInv, ProcessTypes, Registered
  <1>6. Statuses'
    BY <1>1, <1>2 DEF ProcessInv, ProcessTypes, Statuses
  <1> QED
    BY <1>3, <1>4, <1>5, <1>6 DEF ProcessInv

-----------------------------------------------------------------------------
\* What the list of watchers, the children and the owners say of each other.
THEOREM ProcessInvHolds == Spec => []ProcessInv
  <1>1. Init => ProcessInv
    BY DEF Init, ProcessInv, ProcessTypes, Numbers, Registered, Statuses, DescriptorsClosed
  <1>2. ProcessInv /\ [Next]_vars => ProcessInv'
    <2> SUFFICES ASSUME ProcessInv, [Next]_vars PROVE ProcessInv'
      OBVIOUS
    <2>1. ASSUME NEW o \in Owners, Start(o) \/ Read(o) \/ AwaitElsewhere(o) \/ ResumeElsewhere(o)
          PROVE  ProcessInv'
      <3>1. /\ UNCHANGED <<objectVars, rc, watchers, child, status>>
            /\ body[o] \in {"unstarted", "running", "reading", "elsewhere"}
            /\ \E b \in {"running", "reading", "elsewhere"} : body' = [body EXCEPT ![o] = b]
        BY <2>1 DEF Start, Read, AwaitElsewhere, ResumeElsewhere, kernelVars
      <3> QED
        BY <3>1, GoesOnKeepsInv
    <2>2. ASSUME NEW o \in Owners, ReadReturns(o) PROVE ProcessInv'
      <3>1. /\ UNCHANGED <<objectVars, rc, watchers, child, status>>
            /\ body[o] = "reading" /\ body' = [body EXCEPT ![o] = "running"]
        BY <2>2 DEF ReadReturns
      <3> QED
        BY <3>1, GoesOnKeepsInv
    <2>3. CASE Run \/ RunReturns \/ \E o \in Owners : Write(o) \/ stop(o)
      BY <2>3, RestKeepsInv DEF Run, RunReturns, Write, stop, kernelVars
    <2>4. CASE UNCHANGED vars
      BY <2>4, RestKeepsInv DEF vars, kernelVars
    <2> QED
      BY <2>1, <2>2, <2>3, <2>4, LaunchKeepsInv, WaitKeepsInv, DestroyKeepsInv, ExitKeepsInv,
         ReapKeepsInv DEF Next, Loop, OwnerStep
  <1> QED
    BY <1>1, <1>2, PTL DEF Spec

\* ev_process_change never reads data of a subprocess that is gone, and what it
\* finds for a child is a wait() that has not returned; wait() returns what its
\* own child exited with (io_service.cpp:114-124, process.hpp:256-264).
THEOREM NotifiesWaiterHolds == Spec => []NotifiesWaiter
  <1>1. ProcessInv => NotifiesWaiter
    <2> SUFFICES ASSUME ProcessInv PROVE NotifiesWaiter
      OBVIOUS
    <2>1. \A i \in DOMAIN watchers : body[watchers[i]] # "done"
      BY DEF ProcessInv, ProcessTypes, Registered
    <2>2. ASSUME NEW o \in Owners, child[o] \in {"running", "exited"}, Matches(o) # {}
          PROVE  body[Found(o)] = "waiting"
      BY <2>2, FindsOwner DEF ProcessInv, Registered
    <2>3. Statuses
      BY DEF ProcessInv
    <2> QED
      BY <2>1, <2>2, <2>3 DEF NotifiesWaiter, Statuses
  <1> QED
    BY <1>1, ProcessInvHolds, PTL

\* The parent has open what a subprocess that exists holds, and no more, also
\* after a launch that failed on the way (process.hpp:52-94).
THEOREM DescriptorsClosedHolds == Spec => []DescriptorsClosed
  <1>1. ProcessInv => DescriptorsClosed
    BY DEF ProcessInv
  <1> QED
    BY <1>1, ProcessInvHolds, PTL
=============================================================================
