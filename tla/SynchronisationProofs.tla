------------------------- MODULE SynchronisationProofs -------------------------
(* Safety of what threads synchronise by, for any number of threads, calls   *)
(* and jobs. The event never loses a wake-up and never invents one. The      *)
(* executor runs what is added in order, drains before run() returns, and    *)
(* loses no wake-up.                                                         *)
EXTENDS ManualResetEvent, QueuedExecutor, SequenceTheorems, TLAPS

-----------------------------------------------------------------------------
(* manual_reset_event                                                         *)

\* Every variable keeps its type in every step of set, reset and wait.
THEOREM EventTypeCorrect == EventSpec => []EventTypeOK
  <1>1. EventInit => EventTypeOK
    BY MaxCallsAssumption DEF EventInit, EventTypeOK, PCs
  <1>2. EventTypeOK /\ [EventNext]_eventVars => EventTypeOK'
    <2> SUFFICES ASSUME EventTypeOK, [EventNext]_eventVars PROVE EventTypeOK'
      OBVIOUS
    <2> USE DEF EventTypeOK, PCs, Waiting
    <2>1. ASSUME NEW t \in Callers, SetStore(t) PROVE EventTypeOK'
      <3>1. seen' \in [Callers -> BOOLEAN]
        <4>1. seen' = [u \in Callers |-> seen[u] \/ place[u] \in Waiting]
          BY <2>1 DEF SetStore
        <4> QED
          BY <4>1, Zenon
      <3>2. state' \in {0, 1} /\ place' \in [Callers -> PCs] /\ calls' \in 0 .. MaxCalls
        BY <2>1, MaxCallsAssumption DEF SetStore, Begin
      <3> QED
        BY <3>1, <3>2
    <2>2. ASSUME NEW t \in Callers, Reset(t) \/ WaitLoad(t) PROVE EventTypeOK'
      <3>1. CASE Reset(t)
        BY <3>1, MaxCallsAssumption DEF Reset, Begin
      <3>2. CASE WaitLoad(t)
        <4>1. seen' = [seen EXCEPT ![t] = (state = 1)]
          BY <3>2 DEF WaitLoad
        <4>2. seen' \in [Callers -> BOOLEAN]
          BY <4>1, Zenon
        <4>3. /\ UNCHANGED state /\ calls' \in 0 .. MaxCalls
              /\ place' \in [Callers -> PCs]
          BY <3>2, MaxCallsAssumption DEF WaitLoad, Begin
        <4> QED
          BY <4>2, <4>3
      <3> QED
        BY <2>2, <3>1, <3>2
    <2>3. ASSUME NEW t \in Callers, SetWake(t) PROVE EventTypeOK'
      BY <2>3 DEF SetWake
    <2>4. ASSUME NEW t \in Callers,
                 FutexWait(t) \/ WaitReload(t) \/ WaitReturn(t) \/ Interrupted(t)
          PROVE  EventTypeOK'
      BY <2>4 DEF FutexWait, WaitReload, WaitReturn, Interrupted
    <2>5. CASE UNCHANGED eventVars
      BY <2>5 DEF eventVars
    <2> QED
      BY <2>1, <2>2, <2>3, <2>4, <2>5 DEF EventNext, Step
  <1> QED
    BY <1>1, <1>2, PTL DEF EventSpec

\* No thread sleeps on a set event unless the setter has yet to wake it.
THEOREM SetWakesSleepersHolds == EventSpec => []SetWakesSleepers
  <1>1. EventInit => SetWakesSleepers
    BY DEF EventInit, SetWakesSleepers
  <1>2. EventTypeOK /\ SetWakesSleepers /\ [EventNext]_eventVars => SetWakesSleepers'
    <2> SUFFICES ASSUME EventTypeOK, SetWakesSleepers, [EventNext]_eventVars PROVE SetWakesSleepers'
      OBVIOUS
    <2> USE DEF EventTypeOK, SetWakesSleepers
    \* The setter that stored is the one that will wake.
    <2>1. ASSUME NEW t \in Callers, SetStore(t) PROVE SetWakesSleepers'
      BY <2>1 DEF SetStore
    \* After a wake nobody sleeps.
    <2>2. ASSUME NEW t \in Callers, SetWake(t) PROVE SetWakesSleepers'
      BY <2>2 DEF SetWake
    <2>3. ASSUME NEW t \in Callers, Reset(t) PROVE SetWakesSleepers'
      BY <2>3 DEF Reset
    \* The kernel lets nobody fall asleep on a flag that is not 0.
    <2>4. ASSUME NEW t \in Callers, FutexWait(t) PROVE SetWakesSleepers'
      BY <2>4 DEF FutexWait
    <2>5. ASSUME NEW t \in Callers,
                 WaitLoad(t) \/ WaitReload(t) \/ WaitReturn(t) \/ Interrupted(t)
          PROVE  SetWakesSleepers'
      <3>1. /\ UNCHANGED state
            /\ place[t] # "wake" /\ place'[t] # "asleep"
            /\ \A u \in Callers : u # t => place'[u] = place[u]
        BY <2>5 DEF WaitLoad, WaitReload, WaitReturn, Interrupted, Begin
      <3> QED
        BY <3>1
    <2>6. CASE UNCHANGED eventVars
      BY <2>6 DEF eventVars
    <2> QED
      BY <2>1, <2>2, <2>3, <2>4, <2>5, <2>6 DEF EventNext, Step
  <1> QED
    BY <1>1, <1>2, EventTypeCorrect, PTL DEF EventSpec

\* A waiter that has not returned yet has recorded the event whenever it is
\* set now; so the EAGAIN it may still get tells the truth.
SeenWhenSet ==
    \A t \in Callers : place[t] \in Waiting /\ state = 1 => seen[t]

\* wait() returns only if the event was set during the call.
THEOREM ReturnsOnlyIfSetHolds == EventSpec => []ReturnsOnlyIfSet
  <1> DEFINE IInv == SeenWhenSet /\ ReturnsOnlyIfSet
  <1>1. EventInit => IInv
    BY DEF EventInit, SeenWhenSet, ReturnsOnlyIfSet, Waiting
  <1>2. EventTypeOK /\ IInv /\ [EventNext]_eventVars => IInv'
    <2> SUFFICES ASSUME EventTypeOK, IInv, [EventNext]_eventVars PROVE IInv'
      OBVIOUS
    <2> USE DEF EventTypeOK, SeenWhenSet, ReturnsOnlyIfSet, Waiting
    <2>1. ASSUME NEW t \in Callers, SetStore(t) PROVE IInv'
      BY <2>1 DEF SetStore
    <2>2. ASSUME NEW t \in Callers, SetWake(t) PROVE IInv'
      BY <2>2 DEF SetWake
    <2>3. ASSUME NEW t \in Callers, Reset(t) PROVE IInv'
      BY <2>3 DEF Reset
    <2>4. ASSUME NEW t \in Callers, WaitLoad(t) PROVE IInv'
      BY <2>4 DEF WaitLoad
    <2>5. ASSUME NEW t \in Callers,
                 FutexWait(t) \/ WaitReload(t) \/ WaitReturn(t) \/ Interrupted(t)
          PROVE  IInv'
      BY <2>5 DEF FutexWait, WaitReload, WaitReturn, Interrupted
    <2>6. CASE UNCHANGED eventVars
      BY <2>6 DEF eventVars
    <2> QED
      BY <2>1, <2>2, <2>3, <2>4, <2>5, <2>6 DEF EventNext, Step
  <1> QED
    BY <1>1, <1>2, EventTypeCorrect, PTL DEF EventSpec

-----------------------------------------------------------------------------
(* QueuedExecutor: sequences                                                   *)

\* Appending adds the element that is appended.
LEMMA ElementsOfAppend ==
    ASSUME NEW S, NEW s \in Seq(S), NEW e \in S
    PROVE  Elements(Append(s, e)) = Elements(s) \cup {e}
  <1>1. /\ Len(Append(s, e)) = Len(s) + 1 /\ Len(s) \in Nat
        /\ \A i \in 1 .. Len(s) : Append(s, e)[i] = s[i]
        /\ Append(s, e)[Len(s) + 1] = e
    OBVIOUS
  <1>2. \A i : i \in 1 .. Len(s) + 1 <=> i \in 1 .. Len(s) \/ i = Len(s) + 1
    BY <1>1
  <1> QED
    BY <1>1, <1>2 DEF Elements

\* What is put at the end of the second part is at the end of both.
LEMMA AppendToConcat ==
    ASSUME NEW S, NEW s \in Seq(S), NEW t \in Seq(S), NEW e \in S
    PROVE  s \o Append(t, e) = Append(s \o t, e)
  <1>1. /\ s \o Append(t, e) \in Seq(S) /\ Append(s \o t, e) \in Seq(S)
        /\ Len(s \o Append(t, e)) = Len(Append(s \o t, e))
    OBVIOUS
  <1>2. \A i \in 1 .. Len(s \o Append(t, e)) : (s \o Append(t, e))[i] = Append(s \o t, e)[i]
    OBVIOUS
  <1> QED
    BY <1>1, <1>2, SeqEqual

\* The first element of the second part may be the last one of the first.
LEMMA HeadToConcat ==
    ASSUME NEW S, NEW s \in Seq(S), NEW t \in Seq(S), t # <<>>
    PROVE  Append(s, Head(t)) \o Tail(t) = s \o t
  <1>1. /\ Head(t) \in S /\ Tail(t) \in Seq(S) /\ Len(Tail(t)) = Len(t) - 1
        /\ \A i \in 1 .. Len(Tail(t)) : Tail(t)[i] = t[i + 1]
        /\ Head(t) = t[1] /\ Len(t) \in Nat \ {0} /\ Len(s) \in Nat
    BY HeadTailProperties, EmptySeq
  <1> DEFINE left == Append(s, Head(t)) \o Tail(t)
             right == s \o t
  <1>2. /\ left \in Seq(S) /\ right \in Seq(S)
        /\ Len(left) = Len(s) + Len(t) /\ Len(right) = Len(s) + Len(t)
    BY <1>1, ConcatProperties
  <1>3. \A i \in 1 .. Len(left) : left[i] = right[i]
    BY <1>1
  <1> QED
    BY <1>2, <1>3, SeqEqual

-----------------------------------------------------------------------------
\* Every variable keeps its type in every step of add, stop, run and ~QueuedExecutor.
THEOREM TypeCorrect == Spec => []TypeOK
  <1>1. Init => TypeOK
    <2> SUFFICES ASSUME Init PROVE TypeOK
      OBVIOUS
    <2>1. <<>> \in Seq(Jobs)
      OBVIOUS
    <2> QED
      BY <2>1, NoJobAssumption DEF Init, TypeOK
  <1>2. TypeOK /\ [Next]_vars => TypeOK'
    <2> SUFFICES ASSUME TypeOK, [Next]_vars PROVE TypeOK'
      OBVIOUS
    <2> USE NoJobAssumption DEF TypeOK
    <2>1. ASSUME NEW t \in Threads, NEW j \in Jobs, Add(t, j) PROVE TypeOK'
      BY <2>1 DEF Add
    <2>2. ASSUME NEW t \in Threads, Stop(t) PROVE TypeOK'
      <3>1. before' \subseteq Jobs
        BY <2>2, ElementOfSeq DEF Stop, Elements
      <3> QED
        BY <2>2, <3>1 DEF Stop
    <2>3. ASSUME NEW t \in Threads, NotifyOne(t) PROVE TypeOK'
      BY <2>3 DEF NotifyOne
    <2>4. ASSUME NEW r \in Runners, Run(r) \/ Sleep(r) \/ SpuriousWakeup(r) \/ Return(r)
          PROVE  TypeOK'
      BY <2>4 DEF Run, Sleep, SpuriousWakeup, Return
    <2>5. ASSUME NEW r \in Runners, Take(r) PROVE TypeOK'
      BY <2>5, HeadTailProperties DEF Take
    <2>6. ASSUME NEW r \in Runners, JobEnds(r) PROVE TypeOK'
      BY <2>6 DEF JobEnds
    <2>7. CASE Destroy
      BY <2>7 DEF Destroy
    <2>8. CASE UNCHANGED vars
      BY <2>8 DEF vars
    <2> QED
      BY <2>1, <2>2, <2>3, <2>4, <2>5, <2>6, <2>7, <2>8 DEF Next, RunnerStep
  <1> QED
    BY <1>1, <1>2, PTL DEF Spec

-----------------------------------------------------------------------------
\* Why run() has drained: what was added before stop() was added; a runner
\* returned after stop() and when nothing was left; and what was taken has ended
\* or is in a runner's hands.
Drained ==
    /\ ~finished => before = {}
    /\ before \subseteq Elements(added)
    /\ \A r \in Runners :
           pc[r] = "returned" => finished /\ before \subseteq Elements(started)
    /\ \A j \in Elements(started) : j \in ended \/ \E r \in Runners : job[r] = j

RunsInv == OnceAndInOrder /\ Drained

\* RunsInv holds in every state of an executor.
THEOREM RunsInvHolds == Spec => []RunsInv
  <1>1. Init => RunsInv
    BY DEF Init, RunsInv, OnceAndInOrder, Drained, Elements
  <1>2. TypeOK /\ RunsInv /\ [Next]_vars => RunsInv'
    <2> SUFFICES ASSUME TypeOK, RunsInv, [Next]_vars PROVE RunsInv'
      OBVIOUS
    <2>0. work \in Seq(Jobs) /\ added \in Seq(Jobs) /\ started \in Seq(Jobs)
      BY DEF TypeOK
    <2>1. ASSUME NEW t \in Threads, NEW j \in Jobs, Add(t, j) PROVE RunsInv'
      <3>1. started' \o work' = added'
        BY <2>0, <2>1, AppendToConcat DEF Add, RunsInv, OnceAndInOrder
      <3>2. Elements(added') = Elements(added) \cup {j}
        BY <2>0, <2>1, ElementsOfAppend DEF Add
      <3> QED
        BY <2>1, <3>1, <3>2 DEF Add, RunsInv, OnceAndInOrder, Drained
    \* No runner has returned when the first stop() comes.
    <2>2. ASSUME NEW t \in Threads, Stop(t) PROVE RunsInv'
      BY <2>2 DEF Stop, RunsInv, OnceAndInOrder, Drained
    <2>3. ASSUME NEW t \in Threads, NotifyOne(t) PROVE RunsInv'
      <3>1. \A r \in Runners : pc'[r] = "returned" => pc[r] = "returned"
        BY <2>3 DEF NotifyOne, TypeOK
      <3> QED
        BY <2>3, <3>1 DEF NotifyOne, RunsInv, OnceAndInOrder, Drained
    <2>4. ASSUME NEW r \in Runners, Run(r) \/ Sleep(r) \/ SpuriousWakeup(r) PROVE RunsInv'
      <3>1. \A q \in Runners : pc'[q] = "returned" => pc[q] = "returned"
        BY <2>4 DEF Run, Sleep, SpuriousWakeup, TypeOK
      <3>2. UNCHANGED <<work, finished, job, added, started, ended, before>>
        BY <2>4 DEF Run, Sleep, SpuriousWakeup
      <3> QED
        BY <3>1, <3>2 DEF RunsInv, OnceAndInOrder, Drained
    \* Nothing is left: all that was added has been taken.
    <2>5. ASSUME NEW r \in Runners, Return(r) PROVE RunsInv'
      <3>1. started = added
        BY <2>0, <2>5, ConcatEmptySeq DEF Return, RunsInv, OnceAndInOrder
      <3>2. \A q \in Runners : pc'[q] = "returned" => q = r \/ pc[q] = "returned"
        BY <2>5 DEF Return, TypeOK
      <3> QED
        BY <2>5, <3>1, <3>2 DEF Return, RunsInv, OnceAndInOrder, Drained
    <2>6. ASSUME NEW r \in Runners, Take(r) PROVE RunsInv'
      <3>1. /\ work # <<>> /\ Head(work) \in Jobs
            /\ started' = Append(started, Head(work)) /\ work' = Tail(work)
            /\ job' = [job EXCEPT ![r] = Head(work)] /\ pc' = [pc EXCEPT ![r] = "job"]
            /\ UNCHANGED <<finished, added, ended, before>>
        BY <2>0, <2>6, HeadTailProperties DEF Take
      <3>2. started' \o work' = added'
        BY <2>0, <3>1, HeadToConcat DEF RunsInv, OnceAndInOrder
      <3>3. Elements(started') = Elements(started) \cup {Head(work)}
        BY <2>0, <3>1, ElementsOfAppend
      <3>4. /\ job[r] = NoJob /\ job'[r] = Head(work)
            /\ \A q \in Runners \ {r} : job'[q] = job[q]
            /\ \A q \in Runners : pc'[q] = "returned" => pc[q] = "returned"
        BY <2>6, <3>1 DEF Take, TypeOK
      <3>5. NoJob \notin Elements(started)
        BY <2>0, NoJobAssumption, ElementOfSeq DEF Elements
      <3> QED
        BY <3>1, <3>2, <3>3, <3>4, <3>5 DEF RunsInv, OnceAndInOrder, Drained
    <2>7. ASSUME NEW r \in Runners, JobEnds(r) PROVE RunsInv'
      <3>1. /\ \A q \in Runners \ {r} : job'[q] = job[q]
            /\ \A q \in Runners : pc'[q] = "returned" => pc[q] = "returned"
            /\ ended' = ended \cup {job[r]}
        BY <2>7 DEF JobEnds, TypeOK
      <3> QED
        BY <2>7, <3>1 DEF JobEnds, RunsInv, OnceAndInOrder, Drained
    <2>8. CASE Destroy \/ UNCHANGED vars
      <3>1. UNCHANGED <<work, finished, pc, job, added, started, ended, before>>
        BY <2>8 DEF Destroy, vars
      <3> QED
        BY <3>1 DEF RunsInv, OnceAndInOrder, Drained
    <2> QED
      BY <2>1, <2>2, <2>3, <2>4, <2>5, <2>6, <2>7, <2>8 DEF Next, RunnerStep
  <1> QED
    BY <1>1, <1>2, TypeCorrect, PTL DEF Spec

\* Every job that is added is taken once and in order, and a thread that returns
\* from run() leaves none behind that was added before stop()
\* (basic_executor.hpp:40-66).
THEOREM RunsAllInOrderHolds == Spec => []RunsAllInOrder
  <1>1. TypeOK /\ RunsInv => RunsAllInOrder
    <2> SUFFICES ASSUME TypeOK, RunsInv, NEW r \in Runners, pc[r] = "returned"
                 PROVE  /\ before \subseteq Elements(started)
                        /\ Runners = {r} => before \subseteq ended
      BY DEF RunsInv, RunsAllInOrder, DrainedAtReturn
    <2>1. before \subseteq Elements(started)
      BY DEF RunsInv, Drained
    <2>2. job[r] = NoJob
      BY DEF TypeOK
    <2>3. NoJob \notin Elements(started)
      BY NoJobAssumption, ElementOfSeq DEF Elements, TypeOK
    <2> QED
      BY <2>1, <2>2, <2>3 DEF RunsInv, Drained
  <1> QED
    BY <1>1, TypeCorrect, RunsInvHolds, PTL

\* Threads in run() do not all sleep while there is something to do, unless a
\* notify_one is to come (basic_executor.hpp:58, 65). It is inductive: who makes
\* work or stops has yet to notify, and who is notified is awake.
THEOREM NoLostWakeupHolds == Spec => []NoLostWakeup
  <1>1. Init => NoLostWakeup
    BY DEF Init, NoLostWakeup
  <1>2. TypeOK /\ NoLostWakeup /\ [Next]_vars => NoLostWakeup'
    <2> SUFFICES ASSUME TypeOK, NoLostWakeup, [Next]_vars PROVE NoLostWakeup'
      OBVIOUS
    <2> USE DEF TypeOK, NoLostWakeup
    <2>1. ASSUME NEW t \in Threads, NEW j \in Jobs, Add(t, j) PROVE NoLostWakeup'
      BY <2>1 DEF Add
    <2>2. ASSUME NEW t \in Threads, Stop(t) PROVE NoLostWakeup'
      BY <2>2 DEF Stop
    <2>3. ASSUME NEW t \in Threads, NotifyOne(t) PROVE NoLostWakeup'
      BY <2>3 DEF NotifyOne
    <2>4. ASSUME NEW r \in Runners, RunnerStep(r) \/ SpuriousWakeup(r) PROVE NoLostWakeup'
      BY <2>4 DEF RunnerStep, SpuriousWakeup, Run, Sleep, Take, JobEnds, Return
    <2>5. CASE Destroy \/ UNCHANGED vars
      BY <2>5 DEF Destroy, vars
    <2> QED
      BY <2>1, <2>2, <2>3, <2>4, <2>5 DEF Next
  <1> QED
    BY <1>1, <1>2, TypeCorrect, PTL DEF Spec
=============================================================================
