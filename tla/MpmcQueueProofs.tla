--------------------------- MODULE MpmcQueueProofs ---------------------------
(* Safety of the MPMC queue for any set of threads, any capacity and any     *)
(* number of tickets. The argument has two layers. The first (Tickets,       *)
(* Turns) says who holds which ticket and what sequence_ reads while a       *)
(* thread is in a slot; it is inductive by itself and gives the exclusion.   *)
(* The second (Carried, Storage, Published) follows the object from the      *)
(* pusher's hand through the storage to the popper's, and uses the first to  *)
(* know that nobody else writes the slot meanwhile.                          *)
EXTENDS MpmcQueue, SequenceTheorems, TLAPS

-----------------------------------------------------------------------------
(* The inductive invariant *)

\* A claimed ticket is below its counter, and no two calls hold the same one.
Tickets ==
    /\ Len(pushed) = head
    /\ \A t \in Threads :
        /\ pc[t] \in PushPhases => ticket[t] < head
        /\ pc[t] \in PopPhases => ticket[t] < tail
        /\ pc[t] \in TryPhases => ticket[t] <= tail
    /\ \A t, u \in Threads :
        /\ t # u
        /\ \/ pc[t] \in PushPhases /\ pc[u] \in PushPhases
           \/ pc[t] \in PopPhases /\ pc[u] \in PopPhases
        => ticket[t] # ticket[u]

\* sequence_ stands at the turn of whoever is in the slot. A try_pop that has
\* seen the slot ready and whose ticket is still the tail may rely on it too:
\* only the thread that moves the tail past that ticket can release the slot.
Turns ==
    \A t \in Threads :
        /\ pc[t] \in {"construct", "publish"} =>
              sequence[idx(ticket[t])] = acquire_turn(ticket[t])
        /\ pc[t] \in {"move", "destruct", "release"} =>
              sequence[idx(ticket[t])] = release_turn(ticket[t])
        /\ pc[t] = "try_cas" /\ ticket[t] = tail =>
              sequence[idx(ticket[t])] = release_turn(ticket[t])

Unowned(s) == \A t \in Threads : InSlot(t) => idx(ticket[t]) # s

\* What a thread carries is the value of its ticket.
Carried ==
    \A t \in Threads :
        /\ pc[t] \in PushPhases => v[t] = pushed[ticket[t] + 1]
        /\ pc[t] \in {"move", "destruct", "release"} => ticket[t] < head
        /\ pc[t] \in {"destruct", "release"} => v[t] = pushed[ticket[t] + 1]

\* What is in the storage of a slot somebody owns.
Storage ==
    \A t \in Threads :
        /\ pc[t] \in {"construct", "release"} => data[idx(ticket[t])] = Raw
        /\ pc[t] \in {"publish", "move"} =>
              data[idx(ticket[t])] = pushed[ticket[t] + 1]
        /\ pc[t] = "destruct" => data[idx(ticket[t])] = Moved

\* What is in the storage of a slot nobody owns: on an even turn nothing, on
\* an odd one the object of the push whose turn it is.
Published ==
    alive =>
      \A s \in Slots : Unowned(s) =>
        /\ sequence[s] % 2 = 0 => data[s] = Raw
        /\ sequence[s] % 2 = 1 =>
              \E k \in 0 .. head - 1 :
                  /\ idx(k) = s
                  /\ release_turn(k) = sequence[s]
                  /\ data[s] = pushed[k + 1]

\* After the destructor no call runs and the storage is empty.
Destroyed ==
    ~alive =>
        /\ \A t \in Threads : pc[t] = "idle"
        /\ \A s \in Slots : data[s] = Raw

IndInv ==
    /\ TypeOK /\ Tickets /\ Turns
    /\ Carried /\ Storage /\ Published /\ Destroyed

-----------------------------------------------------------------------------
(* Tickets, slots and turns *)

\* A ticket has a slot, and its two turn numbers are naturals.
LEMMA TicketTypes ==
    ASSUME NEW a \in Nat
    PROVE  /\ idx(a) \in Slots
           /\ turn(a) \in Nat
           /\ a = Capacity * turn(a) + idx(a)
  BY CapacityAssumption, SMT DEF idx, turn, Slots

\* idx and turn together identify the ticket.
LEMMA TicketUnique ==
    ASSUME NEW a \in Nat, NEW b \in Nat, idx(a) = idx(b), turn(a) = turn(b)
    PROVE  a = b
  BY TicketTypes, CapacityAssumption DEF Slots

\* Equal turn numbers in one slot mean equal tickets, and a push's turn is
\* never a pop's: the first is even, the second odd.
LEMMA TurnFacts ==
    ASSUME NEW a \in Nat, NEW b \in Nat
    PROVE  /\ acquire_turn(a) \in Nat /\ release_turn(a) \in Nat
           /\ acquire_turn(a) % 2 = 0
           /\ release_turn(a) % 2 = 1
           /\ (release_turn(a) + 1) % 2 = 0
           /\ acquire_turn(a) # release_turn(b)
           /\ idx(a) = idx(b) /\ acquire_turn(a) = acquire_turn(b) => a = b
           /\ idx(a) = idx(b) /\ release_turn(a) = release_turn(b) => a = b
  <1>1. turn(a) \in Nat /\ turn(b) \in Nat
    BY TicketTypes
  <1>2. /\ acquire_turn(a) = acquire_turn(b) => turn(a) = turn(b)
        /\ release_turn(a) = release_turn(b) => turn(a) = turn(b)
        /\ acquire_turn(a) # release_turn(b)
        /\ acquire_turn(a) \in Nat /\ release_turn(a) \in Nat
        /\ acquire_turn(a) % 2 = 0
        /\ release_turn(a) % 2 = 1
        /\ (release_turn(a) + 1) % 2 = 0
    BY <1>1 DEF acquire_turn, release_turn
  <1> QED
    BY <1>2, TicketUnique

\* Different tickets of one slot have different turns, and a push's turn is
\* never a pop's.
LEMMA TurnsDiffer ==
    ASSUME NEW a \in Nat, NEW b \in Nat, idx(a) = idx(b)
    PROVE  /\ acquire_turn(a) # release_turn(b)
           /\ release_turn(a) # acquire_turn(b)
           /\ a # b => /\ acquire_turn(a) # acquire_turn(b)
                       /\ release_turn(a) # release_turn(b)
  BY TurnFacts

-----------------------------------------------------------------------------
(* Type correctness *)

\* Every variable keeps its type, in every step of every call.
THEOREM TypeCorrect == Spec => []TypeOK
  <1>1. Init => TypeOK
    BY MaxTicketAssumption DEF Init, TypeOK, PCs, PushPhases, Slots
  <1>2. TypeOK /\ [Next]_vars => TypeOK'
    <2> SUFFICES ASSUME TypeOK, [Next]_vars PROVE TypeOK'
      OBVIOUS
    <2> USE DEF TypeOK, PCs, PushPhases, PopPhases, TryPhases
    <2>1. ASSUME NEW t \in Threads, NEW x \in Values, EmplaceTicket(t, x)
          PROVE  TypeOK'
      BY <2>1, MaxTicketAssumption DEF EmplaceTicket
    <2>2. ASSUME NEW t \in Threads, EmplaceSpin(t) \/ PopSpin(t) \/ TryCheck(t)
          PROVE  TypeOK'
      BY <2>2 DEF EmplaceSpin, PopSpin, TryCheck
    <2>3. ASSUME NEW t \in Threads, Construct(t) \/ Move(t) \/ Destruct(t)
          PROVE  TypeOK'
      <3>1. idx(ticket[t]) \in Slots
        BY TicketTypes
      <3>2. CASE Construct(t)
        BY <3>1, <3>2 DEF Construct
      <3>3. CASE Move(t)
        BY <3>1, <3>3 DEF Move
      <3>4. CASE Destruct(t)
        BY <3>1, <3>4 DEF Destruct
      <3> QED
        BY <2>3, <3>2, <3>3, <3>4
    <2>4. ASSUME NEW t \in Threads, Publish(t) \/ Release(t)
          PROVE  TypeOK'
      <3>1. idx(ticket[t]) \in Slots /\ release_turn(ticket[t]) \in Nat
        BY TicketTypes, TurnFacts
      <3>2. CASE Publish(t)
        BY <3>1, <3>2 DEF Publish
      <3>3. CASE Release(t)
        BY <3>1, <3>3 DEF Release
      <3> QED
        BY <2>4, <3>2, <3>3
    <2>5. ASSUME NEW t \in Threads, PopTicket(t)
          PROVE  TypeOK'
      BY <2>5, MaxTicketAssumption DEF PopTicket
    <2>6. ASSUME NEW t \in Threads, TryPop(t) \/ TryReload(t)
          PROVE  TypeOK'
      <3>1. tail \in Nat
        BY MaxTicketAssumption
      <3>2. CASE TryPop(t)
        BY <3>1, <3>2 DEF TryPop
      <3>3. CASE TryReload(t)
        BY <3>1, <3>3 DEF TryReload
      <3> QED
        BY <2>6, <3>2, <3>3
    <2>9. ASSUME NEW t \in Threads, TryCas(t)
          PROVE  TypeOK'
      <3>1. tail \in Nat
        BY MaxTicketAssumption
      <3>2. CASE tail = ticket[t]
        <4>2. /\ tail < MaxTicket /\ tail' = tail + 1
              /\ poppers' = Append(poppers, t)
              /\ pc' = [pc EXCEPT ![t] = "move"]
              /\ UNCHANGED <<head, sequence, data, alive, ticket, v, pushed>>
          BY <2>9, <3>2, Zenon DEF TryCas
        <4>1. /\ tail' \in 0 .. MaxTicket
              /\ poppers' \in Seq(Threads)
              /\ pc' \in [Threads -> PCs]
              /\ pc'[t] = "move" /\ \A u \in Threads \ {t} : pc'[u] = pc[u]
              /\ UNCHANGED <<head, sequence, data, alive, ticket, v, pushed>>
          BY <4>2, <3>1, MaxTicketAssumption
        <4> QED
          BY <4>1
      <3>3. CASE tail # ticket[t]
        <4>1. /\ ticket' \in [Threads -> Nat]
              /\ pc' \in [Threads -> PCs]
              /\ pc'[t] = "try_check" /\ \A u \in Threads \ {t} : pc'[u] = pc[u]
              /\ UNCHANGED <<head, tail, sequence, data, alive, v, pushed, poppers>>
          BY <2>9, <3>1, <3>3 DEF TryCas
        <4> QED
          BY <4>1
      <3> QED
        BY <3>2, <3>3
    <2>7. CASE Destroy
      BY <2>7 DEF Destroy
    <2>8. CASE UNCHANGED vars
      BY <2>8 DEF vars
    <2> QED
      BY <2>1, <2>2, <2>3, <2>4, <2>5, <2>6, <2>7, <2>8, <2>9 DEF Next, Call, Step
  <1> QED
    BY <1>1, <1>2, PTL DEF Spec

-----------------------------------------------------------------------------
(* First layer: tickets and turns *)

\* A step leaves the other threads' program counters and tickets alone.
LEMMA OthersUntouched ==
    ASSUME TypeOK, NEW t \in Threads, Call(t) \/ Step(t)
    PROVE  \A u \in Threads : u # t => /\ pc'[u] = pc[u]
                                       /\ ticket'[u] = ticket[u]
                                       /\ v'[u] = v[u]
  BY DEF TypeOK, Call, Step, EmplaceTicket, EmplaceSpin, Construct, Publish,
         PopTicket, PopSpin, Move, Destruct, Release, TryPop, TryCheck,
         TryCas, TryReload

LEMMA TicketsStep ==
    ASSUME TypeOK, Tickets, [Next]_vars
    PROVE  Tickets'
  <1> USE DEF TypeOK, Tickets, PushPhases, PopPhases, TryPhases, PCs
  <1>0. head \in Nat /\ tail \in Nat
    BY MaxTicketAssumption
  <1>1. ASSUME NEW t \in Threads, NEW x \in Values, EmplaceTicket(t, x)
        PROVE  Tickets'
    <2>1. Len(pushed') = head'
      BY <1>0, <1>1 DEF EmplaceTicket
    <2> QED
      BY <1>0, <1>1, <2>1 DEF EmplaceTicket
  <1>2. ASSUME NEW t \in Threads, PopTicket(t)
        PROVE  Tickets'
    BY <1>0, <1>2 DEF PopTicket
  <1>3. ASSUME NEW t \in Threads,
               \/ EmplaceSpin(t) \/ Construct(t) \/ Publish(t)
               \/ PopSpin(t) \/ Move(t) \/ Destruct(t) \/ Release(t)
        PROVE  Tickets'
    <2>1. /\ UNCHANGED <<head, tail, pushed, ticket>>
          /\ pc'[t] \notin TryPhases
          /\ pc'[t] \in PushPhases => pc[t] \in PushPhases
          /\ pc'[t] \in PopPhases => pc[t] \in PopPhases
          /\ \A u \in Threads : u # t => pc'[u] = pc[u]
      BY <1>3 DEF EmplaceSpin, Construct, Publish, PopSpin, Move, Destruct, Release
    <2> QED
      BY <2>1
  <1>4. ASSUME NEW t \in Threads, TryPop(t) \/ TryCheck(t) \/ TryReload(t)
        PROVE  Tickets'
    <2>1. /\ UNCHANGED <<head, tail, pushed>>
          /\ pc'[t] \notin PushPhases \cup PopPhases
          /\ ticket'[t] \in {ticket[t], tail}
          /\ pc[t] \notin TryPhases => ticket'[t] = tail
          /\ \A u \in Threads : u # t => pc'[u] = pc[u] /\ ticket'[u] = ticket[u]
      BY <1>4 DEF TryPop, TryCheck, TryReload
    <2>2. pc'[t] \in TryPhases => ticket'[t] <= tail
      BY <1>0, <2>1
    <2>3. \A u \in Threads : u # t =>
              /\ pc'[u] \in PushPhases => ticket'[u] < head'
              /\ pc'[u] \in PopPhases => ticket'[u] < tail'
              /\ pc'[u] \in TryPhases => ticket'[u] <= tail'
      BY <2>1
    <2> QED
      BY <2>1, <2>2, <2>3
  <1>5. ASSUME NEW t \in Threads, TryCas(t)
        PROVE  Tickets'
    <2>1. CASE tail = ticket[t]
      <3>1. /\ tail' = tail + 1
            /\ pc' = [pc EXCEPT ![t] = "move"]
            /\ UNCHANGED <<head, ticket, pushed>>
        BY <1>5, <2>1, Zenon DEF TryCas
      <3> QED
        BY <1>0, <2>1, <3>1
    <2>2. CASE tail # ticket[t]
      <3>1. /\ ticket' = [ticket EXCEPT ![t] = tail]
            /\ pc' = [pc EXCEPT ![t] = "try_check"]
            /\ UNCHANGED <<head, tail, pushed>>
        BY <1>5, <2>2, Zenon DEF TryCas
      <3> QED
        BY <3>1
    <2> QED
      BY <2>1, <2>2
  <1>6. CASE Destroy
    BY <1>6 DEF Destroy
  <1>7. CASE UNCHANGED vars
    BY <1>7 DEF vars
  <1> QED
    BY <1>1, <1>2, <1>3, <1>4, <1>5, <1>6, <1>7 DEF Next, Call, Step

LEMMA TurnsStep ==
    ASSUME TypeOK, Tickets, Turns, [Next]_vars
    PROVE  Turns'
  <1> USE DEF TypeOK, Turns
  <1>0. /\ head \in Nat /\ tail \in Nat
        /\ \A u \in Threads : ticket[u] \in Nat /\ idx(ticket[u]) \in Slots
    BY MaxTicketAssumption, TicketTypes
  <1>1. ASSUME NEW t \in Threads, NEW x \in Values, EmplaceTicket(t, x)
        PROVE  Turns'
    BY <1>1 DEF EmplaceTicket
  <1>2. ASSUME NEW t \in Threads, PopTicket(t)
        PROVE  Turns'
    <2>1. /\ tail' = tail + 1 /\ UNCHANGED sequence
          /\ pc' = [pc EXCEPT ![t] = "pop_spin"]
          /\ ticket' = [ticket EXCEPT ![t] = tail]
      BY <1>2 DEF PopTicket
    <2>2. \A u \in Threads : pc[u] = "try_cas" => ticket[u] # tail'
      BY <1>0, <2>1 DEF Tickets, TryPhases
    <2> QED
      BY <2>1, <2>2
  <1>3. ASSUME NEW t \in Threads,
               EmplaceSpin(t) \/ PopSpin(t) \/ Construct(t) \/ Move(t) \/ Destruct(t)
        PROVE  Turns'
    BY <1>3 DEF EmplaceSpin, PopSpin, Construct, Move, Destruct
  <1>4. ASSUME NEW t \in Threads, TryPop(t) \/ TryCheck(t) \/ TryReload(t)
        PROVE  Turns'
    BY <1>4 DEF TryPop, TryCheck, TryReload
  <1>5. ASSUME NEW t \in Threads, TryCas(t)
        PROVE  Turns'
    <2>1. CASE tail = ticket[t]
      <3>1. /\ tail' = tail + 1
            /\ pc' = [pc EXCEPT ![t] = "move"]
            /\ UNCHANGED <<ticket, sequence>>
            /\ pc[t] = "try_cas"
        BY <1>5, <2>1, Zenon DEF TryCas
      <3>2. \A u \in Threads : pc[u] = "try_cas" => ticket[u] # tail'
        BY <1>0, <3>1 DEF Tickets, TryPhases
      <3> QED
        BY <2>1, <3>1, <3>2
    <2>2. CASE tail # ticket[t]
      <3>1. /\ ticket' = [ticket EXCEPT ![t] = tail]
            /\ pc' = [pc EXCEPT ![t] = "try_check"]
            /\ UNCHANGED <<tail, sequence>>
        BY <1>5, <2>2, Zenon DEF TryCas
      <3> QED
        BY <3>1
    <2> QED
      BY <2>1, <2>2
  <1>6. ASSUME NEW t \in Threads, Publish(t)
        PROVE  Turns'
    <2>1. /\ sequence' = [sequence EXCEPT ![idx(ticket[t])] = release_turn(ticket[t])]
          /\ pc[t] = "publish" /\ pc' = [pc EXCEPT ![t] = "idle"]
          /\ UNCHANGED <<ticket, tail>>
          /\ sequence[idx(ticket[t])] = acquire_turn(ticket[t])
      BY <1>6 DEF Publish
    \* Anyone else whose slot this is would stand at the same even turn, that
    \* is, hold the same push ticket.
    <2>2. ASSUME NEW u \in Threads, u # t, idx(ticket[u]) = idx(ticket[t])
          PROVE  /\ pc[u] \notin {"construct", "publish", "move", "destruct", "release"}
                 /\ ~(pc[u] = "try_cas" /\ ticket[u] = tail)
      <3>1. ticket[t] \in Nat /\ ticket[u] \in Nat
        BY <1>0
      <3>2. /\ acquire_turn(ticket[u]) # release_turn(ticket[t])
            /\ release_turn(ticket[u]) # acquire_turn(ticket[t])
            /\ ticket[u] # ticket[t] =>
                  /\ acquire_turn(ticket[u]) # acquire_turn(ticket[t])
                  /\ release_turn(ticket[u]) # release_turn(ticket[t])
        BY <2>2, <3>1, TurnsDiffer
      <3>3. pc[u] \in PushPhases => ticket[u] # ticket[t]
        BY <2>1, <2>2 DEF Tickets, PushPhases
      <3> QED
        BY <1>0, <2>1, <2>2, <3>2, <3>3 DEF PushPhases
    <2> QED
      BY <1>0, <2>1, <2>2
  <1>7. ASSUME NEW t \in Threads, Release(t)
        PROVE  Turns'
    <2>1. /\ sequence' = [sequence EXCEPT ![idx(ticket[t])] = release_turn(ticket[t]) + 1]
          /\ pc[t] = "release" /\ pc' = [pc EXCEPT ![t] = "idle"]
          /\ UNCHANGED <<ticket, tail>>
          /\ sequence[idx(ticket[t])] = release_turn(ticket[t])
          /\ ticket[t] < tail
      BY <1>7 DEF Release, Tickets, PopPhases
    \* Anyone else would hold the same pop ticket, which is below the tail.
    <2>2. ASSUME NEW u \in Threads, u # t, idx(ticket[u]) = idx(ticket[t])
          PROVE  /\ pc[u] \notin {"construct", "publish", "move", "destruct", "release"}
                 /\ ~(pc[u] = "try_cas" /\ ticket[u] = tail)
      <3>1. ticket[t] \in Nat /\ ticket[u] \in Nat
        BY <1>0
      <3>2. /\ acquire_turn(ticket[u]) # release_turn(ticket[t])
            /\ release_turn(ticket[u]) # acquire_turn(ticket[t])
            /\ ticket[u] # ticket[t] =>
                  /\ acquire_turn(ticket[u]) # acquire_turn(ticket[t])
                  /\ release_turn(ticket[u]) # release_turn(ticket[t])
        BY <2>2, <3>1, TurnsDiffer
      <3>3. pc[u] \in PopPhases => ticket[u] # ticket[t]
        BY <2>1, <2>2 DEF Tickets, PopPhases
      <3> QED
        BY <1>0, <2>1, <2>2, <3>2, <3>3 DEF PopPhases
    <2> QED
      BY <1>0, <2>1, <2>2
  <1>8. CASE Destroy
    BY <1>8 DEF Destroy
  <1>9. CASE UNCHANGED vars
    BY <1>9 DEF vars
  <1> QED
    BY <1>1, <1>2, <1>3, <1>4, <1>5, <1>6, <1>7, <1>8, <1>9 DEF Next, Call, Step

\* Tickets and turns are enough to keep two threads out of one slot.
LEMMA ExclusionFromTurns ==
    TypeOK /\ Tickets /\ Turns => SlotExclusion
  <1> SUFFICES ASSUME TypeOK, Tickets, Turns, NEW t \in Threads, NEW u \in Threads,
                      t # u, InSlot(t), InSlot(u), idx(ticket[t]) = idx(ticket[u])
               PROVE  FALSE
    BY DEF SlotExclusion
  <1>1. ticket[t] \in Nat /\ ticket[u] \in Nat
    BY DEF TypeOK
  <1>2. /\ acquire_turn(ticket[u]) # release_turn(ticket[t])
        /\ release_turn(ticket[u]) # acquire_turn(ticket[t])
        /\ ticket[u] # ticket[t] =>
              /\ acquire_turn(ticket[u]) # acquire_turn(ticket[t])
              /\ release_turn(ticket[u]) # release_turn(ticket[t])
    BY <1>1, TurnsDiffer
  <1>3. /\ pc[t] \in PushPhases /\ pc[u] \in PushPhases => ticket[u] # ticket[t]
        /\ pc[t] \in PopPhases /\ pc[u] \in PopPhases => ticket[u] # ticket[t]
    BY DEF Tickets
  <1>4. CASE pc[t] \in {"construct", "publish"}
    BY <1>2, <1>3, <1>4 DEF Turns, InSlot, PushPhases
  <1>5. CASE pc[t] \in {"move", "destruct", "release"}
    BY <1>2, <1>3, <1>5 DEF Turns, InSlot, PopPhases
  <1> QED
    BY <1>4, <1>5 DEF InSlot

\* No two calls are ever between the test of sequence_ and its store on the
\* same slot, whatever the number of threads, the capacity and the tickets.
THEOREM SlotExclusionHolds == Spec => []SlotExclusion
  <1>1. Init => Tickets /\ Turns
    BY DEF Init, Tickets, Turns, PushPhases, PopPhases, TryPhases
  <1>2. TypeOK /\ Tickets /\ Turns /\ [Next]_vars => Tickets' /\ Turns'
    BY TicketsStep, TurnsStep
  <1> QED
    BY <1>1, <1>2, TypeCorrect, ExclusionFromTurns, PTL DEF Spec

-----------------------------------------------------------------------------
(* Second layer: the objects *)

\* The history of pushes only grows.
LEMMA PushedStable ==
    ASSUME TypeOK, Tickets, [Next]_vars
    PROVE  /\ head \in Nat /\ head' \in Nat /\ head <= head'
           /\ \A k \in Nat : k < head => pushed'[k + 1] = pushed[k + 1]
  <1>0. head \in Nat /\ pushed \in Seq(Values) /\ Len(pushed) = head
    BY MaxTicketAssumption DEF TypeOK, Tickets
  <1>1. ASSUME NEW t \in Threads, NEW x \in Values, EmplaceTicket(t, x)
        PROVE  /\ head' = head + 1
               /\ \A k \in Nat : k < head => pushed'[k + 1] = pushed[k + 1]
    BY <1>0, <1>1 DEF EmplaceTicket
  <1>2. \/ UNCHANGED <<head, pushed>>
        \/ \E t \in Threads, x \in Values : EmplaceTicket(t, x)
    BY DEF Next, vars, Call, Step, EmplaceSpin, Construct, Publish,
           PopTicket, PopSpin, Move, Destruct, Release, TryPop, TryCheck,
           TryCas, TryReload, Destroy
  <1> QED
    BY <1>0, <1>1, <1>2

\* The thread that finds its turn in a slot finds nobody in it.
LEMMA FreeAtTurn ==
    ASSUME TypeOK, Tickets, Turns, NEW t \in Threads,
           \/ /\ pc[t] = "push_spin"
              /\ acquire_turn(ticket[t]) = sequence[idx(ticket[t])]
           \/ /\ pc[t] = "pop_spin" \/ (pc[t] = "try_cas" /\ ticket[t] = tail)
              /\ release_turn(ticket[t]) = sequence[idx(ticket[t])]
    PROVE  Unowned(idx(ticket[t]))
  <1> SUFFICES ASSUME NEW u \in Threads, InSlot(u), idx(ticket[u]) = idx(ticket[t])
               PROVE  FALSE
    BY DEF Unowned
  <1>1. ticket[t] \in Nat /\ ticket[u] \in Nat /\ tail \in Nat /\ u # t
    BY MaxTicketAssumption DEF TypeOK, InSlot
  <1>2. /\ acquire_turn(ticket[u]) # release_turn(ticket[t])
        /\ release_turn(ticket[u]) # acquire_turn(ticket[t])
        /\ ticket[u] # ticket[t] =>
              /\ acquire_turn(ticket[u]) # acquire_turn(ticket[t])
              /\ release_turn(ticket[u]) # release_turn(ticket[t])
    BY <1>1, TurnsDiffer
  <1>3. /\ pc[t] \in PushPhases /\ pc[u] \in PushPhases => ticket[u] # ticket[t]
        /\ pc[t] \in PopPhases /\ pc[u] \in PopPhases => ticket[u] # ticket[t]
        /\ ticket[t] = tail /\ pc[u] \in PopPhases => ticket[u] # ticket[t]
    BY <1>1 DEF Tickets
  <1>4. CASE pc[u] \in {"construct", "publish"}
    BY <1>2, <1>3, <1>4 DEF Turns, PushPhases
  <1>5. CASE pc[u] \in {"move", "destruct", "release"}
    BY <1>2, <1>3, <1>5 DEF Turns, PopPhases
  <1> QED
    BY <1>4, <1>5 DEF InSlot

\* A push that finds its turn finds raw storage.
LEMMA RawAtTurn ==
    ASSUME TypeOK, Tickets, Turns, Published, Destroyed, NEW t \in Threads,
           EmplaceSpin(t)
    PROVE  data[idx(ticket[t])] = Raw
  <1>1. pc[t] = "push_spin" /\ acquire_turn(ticket[t]) = sequence[idx(ticket[t])]
    BY DEF EmplaceSpin
  <1>2. alive
    BY <1>1 DEF Destroyed, TypeOK
  <1>3. Unowned(idx(ticket[t]))
    BY <1>1, FreeAtTurn
  <1>4. /\ idx(ticket[t]) \in Slots
        /\ acquire_turn(ticket[t]) % 2 = 0
    BY TicketTypes, TurnFacts DEF TypeOK
  <1> QED
    BY <1>1, <1>2, <1>3, <1>4 DEF Published

\* A pop that finds its turn finds the object of its ticket.
LEMMA ObjectAtTurn ==
    ASSUME TypeOK, Tickets, Turns, Published, Destroyed, NEW t \in Threads,
           \/ PopSpin(t)
           \/ TryCas(t) /\ ticket[t] = tail
    PROVE  /\ ticket[t] < head
           /\ data[idx(ticket[t])] = pushed[ticket[t] + 1]
  <1>1. /\ \/ pc[t] = "pop_spin"
           \/ pc[t] = "try_cas" /\ ticket[t] = tail
        /\ release_turn(ticket[t]) = sequence[idx(ticket[t])]
    BY DEF PopSpin, TryCas, Turns
  <1>2. alive
    BY <1>1 DEF Destroyed, TypeOK
  <1>3. Unowned(idx(ticket[t]))
    BY <1>1, FreeAtTurn
  <1>4. /\ ticket[t] \in Nat /\ head \in Nat
        /\ idx(ticket[t]) \in Slots
        /\ release_turn(ticket[t]) % 2 = 1
    BY TicketTypes, TurnFacts, MaxTicketAssumption DEF TypeOK
  <1>5. PICK k \in 0 .. head - 1 :
            /\ idx(k) = idx(ticket[t])
            /\ release_turn(k) = sequence[idx(ticket[t])]
            /\ data[idx(ticket[t])] = pushed[k + 1]
    BY <1>1, <1>2, <1>3, <1>4 DEF Published
  <1>6. k = ticket[t]
    BY <1>1, <1>4, <1>5, TurnFacts
  <1> QED
    BY <1>4, <1>5, <1>6

LEMMA CarriedStep ==
    ASSUME TypeOK, Tickets, Turns, Carried, Storage, Published, Destroyed,
           [Next]_vars
    PROVE  Carried'
  <1> USE DEF Carried
  <1>0. /\ head \in Nat /\ head' \in Nat /\ head <= head'
        /\ \A k \in Nat : k < head => pushed'[k + 1] = pushed[k + 1]
        /\ \A u \in Threads : ticket[u] \in Nat
        /\ \A u \in Threads : pc[u] \in PushPhases => ticket[u] < head
    BY PushedStable DEF TypeOK, Tickets
  \* What holds of a thread survives the steps of the others.
  <1>1. ASSUME NEW t \in Threads, Call(t) \/ Step(t),
               NEW u \in Threads, u # t
        PROVE  /\ pc'[u] \in PushPhases => v'[u] = pushed'[ticket'[u] + 1]
               /\ pc'[u] \in {"move", "destruct", "release"} => ticket'[u] < head'
               /\ pc'[u] \in {"destruct", "release"} => v'[u] = pushed'[ticket'[u] + 1]
    <2>1. pc'[u] = pc[u] /\ ticket'[u] = ticket[u] /\ v'[u] = v[u]
      BY <1>1, OthersUntouched
    <2> QED
      BY <1>0, <2>1
  <1>2. ASSUME NEW t \in Threads, Call(t) \/ Step(t)
        PROVE  /\ pc'[t] \in PushPhases => v'[t] = pushed'[ticket'[t] + 1]
               /\ pc'[t] \in {"move", "destruct", "release"} => ticket'[t] < head'
               /\ pc'[t] \in {"destruct", "release"} => v'[t] = pushed'[ticket'[t] + 1]
    <2> USE DEF TypeOK, PushPhases
    <2> DEFINE Kept ==
               /\ pc'[t] \in PushPhases => v'[t] = pushed'[ticket'[t] + 1]
               /\ pc'[t] \in {"move", "destruct", "release"} => ticket'[t] < head'
               /\ pc'[t] \in {"destruct", "release"} => v'[t] = pushed'[ticket'[t] + 1]
    <2>1. ASSUME NEW x \in Values, EmplaceTicket(t, x) PROVE Kept
      <3>1. pushed'[head + 1] = x
        BY <2>1, <1>0 DEF EmplaceTicket, Tickets
      <3>2. pc'[t] = "push_spin" /\ v'[t] = x /\ ticket'[t] = head
        BY <2>1 DEF EmplaceTicket
      <3> QED
        BY <3>1, <3>2
    <2>2. CASE EmplaceSpin(t) \/ Construct(t) \/ Destruct(t)
      <3>1. /\ UNCHANGED <<head, ticket, pushed, v>>
            /\ pc'[t] \in PushPhases => pc[t] \in PushPhases
            /\ pc'[t] \in {"move", "destruct", "release"} => pc[t] = "destruct"
        BY <2>2 DEF EmplaceSpin, Construct, Destruct
      <3> QED
        BY <3>1
    <2>3. CASE PopSpin(t)
      <3>1. ticket[t] < head
        BY <2>3, ObjectAtTurn
      <3> QED
        BY <2>3, <3>1 DEF PopSpin
    <2>4. CASE Move(t)
      BY <2>4 DEF Move, Storage
    <2>5. CASE TryCas(t)
      <3>1. CASE tail = ticket[t]
        <4>1. ticket[t] < head
          BY <2>5, <3>1, ObjectAtTurn
        <4>2. pc'[t] = "move" /\ UNCHANGED <<ticket, head>>
          BY <2>5, <3>1 DEF TryCas
        <4> QED
          BY <4>1, <4>2
      <3>2. CASE tail # ticket[t]
        BY <2>5, <3>2 DEF TryCas
      <3> QED
        BY <3>1, <3>2
    <2>6. CASE \/ PopTicket(t) \/ TryPop(t) \/ TryCheck(t) \/ TryReload(t)
               \/ Publish(t) \/ Release(t)
      <3>1. pc'[t] \notin PushPhases \cup {"move", "destruct", "release"}
        BY <2>6 DEF PopTicket, TryPop, TryCheck, TryReload, Publish, Release
      <3> QED
        BY <3>1
    <2> QED
      BY <1>2, <2>1, <2>2, <2>3, <2>4, <2>5, <2>6 DEF Call, Step
  <1>3. CASE Destroy
    BY <1>3 DEF Destroy
  <1>4. CASE UNCHANGED vars
    BY <1>4 DEF vars
  <1> QED
    BY <1>1, <1>2, <1>3, <1>4 DEF Next

\* A call writes no storage but that of the slot it owns.
LEMMA DataWrites ==
    ASSUME TypeOK, NEW t \in Threads, Call(t) \/ Step(t)
    PROVE  /\ \A s \in Slots : data'[s] = data[s] \/ (InSlot(t) /\ s = idx(ticket[t]))
           /\ ~(Construct(t) \/ Move(t) \/ Destruct(t)) => UNCHANGED data
  BY DEF TypeOK, InSlot, Call, Step, EmplaceTicket, EmplaceSpin, Construct,
         Publish, PopTicket, PopSpin, Move, Destruct, Release, TryPop, TryCheck,
         TryCas, TryReload

LEMMA StorageStep ==
    ASSUME TypeOK, Tickets, Turns, Carried, Storage, Published, Destroyed,
           [Next]_vars
    PROVE  Storage'
  <1> USE DEF Storage
  <1>0. /\ head \in Nat
        /\ \A k \in Nat : k < head => pushed'[k + 1] = pushed[k + 1]
        /\ \A u \in Threads : ticket[u] \in Nat
        /\ \A u \in Threads : InSlot(u) => ticket[u] < head
        /\ \A u \in Threads : idx(ticket[u]) \in Slots
    BY PushedStable, TicketTypes DEF TypeOK, Tickets, Carried, InSlot, PushPhases
  <1>1. ASSUME NEW t \in Threads, Call(t) \/ Step(t),
               NEW u \in Threads, u # t
        PROVE  /\ pc'[u] \in {"construct", "release"} => data'[idx(ticket'[u])] = Raw
               /\ pc'[u] \in {"publish", "move"} =>
                     data'[idx(ticket'[u])] = pushed'[ticket'[u] + 1]
               /\ pc'[u] = "destruct" => data'[idx(ticket'[u])] = Moved
    <2>1. pc'[u] = pc[u] /\ ticket'[u] = ticket[u]
      BY <1>1, OthersUntouched
    <2>2. InSlot(u) => data'[idx(ticket[u])] = data[idx(ticket[u])]
      BY <1>0, <1>1, DataWrites, ExclusionFromTurns DEF SlotExclusion
    <2>3. InSlot(u) => pushed'[ticket[u] + 1] = pushed[ticket[u] + 1]
      BY <1>0
    <2> QED
      BY <2>1, <2>2, <2>3 DEF InSlot
  <1>2. ASSUME NEW t \in Threads, Call(t) \/ Step(t)
        PROVE  /\ pc'[t] \in {"construct", "release"} => data'[idx(ticket'[t])] = Raw
               /\ pc'[t] \in {"publish", "move"} =>
                     data'[idx(ticket'[t])] = pushed'[ticket'[t] + 1]
               /\ pc'[t] = "destruct" => data'[idx(ticket'[t])] = Moved
    <2> USE DEF TypeOK
    <2>1. CASE EmplaceSpin(t)
      BY <2>1, RawAtTurn DEF EmplaceSpin
    <2>2. CASE Construct(t)
      BY <1>0, <2>2 DEF Construct, Carried, PushPhases
    <2>3. CASE PopSpin(t)
      <3>1. data[idx(ticket[t])] = pushed[ticket[t] + 1]
        BY <2>3, ObjectAtTurn
      <3> QED
        BY <2>3, <3>1 DEF PopSpin
    <2>4. CASE Move(t)
      BY <1>0, <2>4 DEF Move
    <2>5. CASE Destruct(t)
      BY <1>0, <2>5 DEF Destruct
    <2>6. CASE TryCas(t)
      <3>1. CASE tail = ticket[t]
        <4>1. data[idx(ticket[t])] = pushed[ticket[t] + 1]
          BY <2>6, <3>1, ObjectAtTurn
        <4>2. pc'[t] = "move" /\ UNCHANGED <<ticket, data, pushed>>
          BY <2>6, <3>1 DEF TryCas
        <4> QED
          BY <4>1, <4>2
      <3>2. CASE tail # ticket[t]
        BY <2>6, <3>2 DEF TryCas
      <3> QED
        BY <3>1, <3>2
    <2>7. ASSUME \/ \E x \in Values : EmplaceTicket(t, x)
                 \/ PopTicket(t) \/ TryPop(t) \/ TryCheck(t) \/ TryReload(t)
                 \/ Publish(t) \/ Release(t)
          PROVE  pc'[t] \notin {"construct", "publish", "move", "destruct", "release"}
      BY <2>7 DEF EmplaceTicket, PopTicket, TryPop, TryCheck, TryReload, Publish, Release
    <2> QED
      BY <1>2, <2>1, <2>2, <2>3, <2>4, <2>5, <2>6, <2>7 DEF Call, Step
  <1>3. CASE Destroy
    BY <1>3 DEF Destroy
  <1>4. CASE UNCHANGED vars
    BY <1>4 DEF vars
  <1> QED
    BY <1>1, <1>2, <1>3, <1>4 DEF Next

LEMMA DestroyedStep ==
    ASSUME TypeOK, Tickets, Turns, Published, Destroyed, [Next]_vars
    PROVE  Destroyed'
  <1>1. CASE Destroy
    <2>1. \A s \in Slots : Unowned(s)
      BY <1>1 DEF Destroy, Unowned, InSlot
    <2>2. \A s \in Slots : sequence[s] % 2 \in {0, 1}
      BY DEF TypeOK
    <2>3. \A s \in Slots : data'[s] = Raw
      BY <1>1, <2>1, <2>2 DEF Destroy, Published
    <2> QED
      BY <1>1, <2>3 DEF Destroy, Destroyed
  <1>2. ASSUME NEW t \in Threads, Call(t) \/ Step(t)
        PROVE  Destroyed'
    <2>1. alive
      BY <1>2 DEF Destroyed, TypeOK, Call, Step, EmplaceTicket, EmplaceSpin,
                  Construct, Publish, PopTicket, PopSpin, Move, Destruct,
                  Release, TryPop, TryCheck, TryCas, TryReload
    <2>2. UNCHANGED alive
      BY <1>2 DEF Call, Step, EmplaceTicket, EmplaceSpin, Construct, Publish,
                  PopTicket, PopSpin, Move, Destruct, Release, TryPop,
                  TryCheck, TryCas, TryReload
    <2> QED
      BY <2>1, <2>2 DEF Destroyed
  <1>3. CASE UNCHANGED vars
    BY <1>3 DEF vars, Destroyed
  <1> QED
    BY <1>1, <1>2, <1>3 DEF Next

\* The tickets below a counter.
LEMMA BelowCounter ==
    ASSUME NEW n \in Nat, NEW k \in Nat, k < n
    PROVE  k \in 0 .. n - 1
  OBVIOUS

LEMMA PublishedStep ==
    ASSUME TypeOK, Tickets, Turns, Carried, Storage, Published, Destroyed,
           [Next]_vars
    PROVE  Published'
  <1>0. /\ head \in Nat /\ head' \in Nat /\ head <= head'
        /\ \A k \in Nat : k < head => pushed'[k + 1] = pushed[k + 1]
        /\ \A u \in Threads : ticket[u] \in Nat
        /\ \A u \in Threads : idx(ticket[u]) \in Slots
    BY PushedStable, TicketTypes DEF TypeOK
  \* A slot that was free before, and in which nothing changes, stays as it is.
  <1>1. ASSUME alive, NEW s \in Slots, Unowned(s),
               sequence'[s] = sequence[s], data'[s] = data[s]
        PROVE  /\ sequence'[s] % 2 = 0 => data'[s] = Raw
               /\ sequence'[s] % 2 = 1 =>
                     \E k \in 0 .. head' - 1 :
                         /\ idx(k) = s
                         /\ release_turn(k) = sequence'[s]
                         /\ data'[s] = pushed'[k + 1]
    <2>1. sequence[s] % 2 = 0 => data[s] = Raw
      BY <1>1 DEF Published
    <2>2. ASSUME sequence[s] % 2 = 1
          PROVE  \E k \in 0 .. head' - 1 :
                     /\ idx(k) = s
                     /\ release_turn(k) = sequence[s]
                     /\ data[s] = pushed'[k + 1]
      <3>1. PICK k \in 0 .. head - 1 : /\ idx(k) = s
                                       /\ release_turn(k) = sequence[s]
                                       /\ data[s] = pushed[k + 1]
        BY <1>1, <2>2 DEF Published
      <3>2. head \in Nat /\ head' \in Nat /\ head <= head'
        BY <1>0
      <3>3. k \in Nat /\ k < head
        BY <3>1, <3>2
      <3>4. k < head'
        BY <3>2, <3>3
      <3>5. k \in 0 .. head' - 1 /\ pushed'[k + 1] = pushed[k + 1]
        BY <1>0, <3>2, <3>3, <3>4, BelowCounter
      <3> QED
        BY <3>1, <3>5
    <2> QED
      BY <1>1, <2>1, <2>2
  <1>2. ASSUME NEW t \in Threads, Call(t) \/ Step(t),
               ~Publish(t), ~Release(t), alive,
               NEW s \in Slots, Unowned(s)'
        PROVE  Unowned(s) /\ sequence'[s] = sequence[s] /\ data'[s] = data[s]
    <2>1. UNCHANGED sequence
      BY <1>2 DEF Call, Step, EmplaceTicket, EmplaceSpin, Construct,
                  PopTicket, PopSpin, Move, Destruct, TryPop, TryCheck,
                  TryCas, TryReload
    <2>2. InSlot(t) => InSlot(t)' /\ ticket'[t] = ticket[t]
      BY <1>2 DEF InSlot, TypeOK, Call, Step, EmplaceTicket, EmplaceSpin,
                  Construct, PopTicket, PopSpin, Move, Destruct, TryPop,
                  TryCheck, TryCas, TryReload
    <2>3. \A u \in Threads : u # t => pc'[u] = pc[u] /\ ticket'[u] = ticket[u]
      BY <1>2, OthersUntouched
    <2>4. Unowned(s)
      BY <1>2, <2>2, <2>3 DEF Unowned, InSlot
    <2>5. data'[s] = data[s]
      BY <1>2, <2>4, DataWrites DEF Unowned
    <2> QED
      BY <2>1, <2>4, <2>5
  <1>3. ASSUME NEW t \in Threads, Publish(t) \/ Release(t), alive,
               NEW s \in Slots, Unowned(s)', s # idx(ticket[t])
        PROVE  Unowned(s) /\ sequence'[s] = sequence[s] /\ data'[s] = data[s]
    <2>1. \A u \in Threads : u # t => pc'[u] = pc[u]
      BY <1>3 DEF Publish, Release, TypeOK
    <2>2. UNCHANGED <<ticket, data>>
      BY <1>3 DEF Publish, Release
    <2>3. Unowned(s)
      BY <1>3, <2>1, <2>2 DEF Unowned, InSlot
    <2>4. sequence'[s] = sequence[s]
      BY <1>0, <1>3 DEF Publish, Release, TypeOK
    <2> QED
      BY <2>2, <2>3, <2>4
  <1>4. ASSUME NEW t \in Threads, Publish(t)
        PROVE  LET s == idx(ticket[t]) IN
               /\ sequence'[s] % 2 = 0 => data'[s] = Raw
               /\ sequence'[s] % 2 = 1 =>
                     \E k \in 0 .. head' - 1 :
                         /\ idx(k) = s
                         /\ release_turn(k) = sequence'[s]
                         /\ data'[s] = pushed'[k + 1]
    <2>1. /\ sequence'[idx(ticket[t])] = release_turn(ticket[t])
          /\ UNCHANGED <<data, head, pushed>>
          /\ pc[t] = "publish"
      BY <1>0, <1>4 DEF Publish, TypeOK
    <2>2. release_turn(ticket[t]) % 2 # 0
      BY <1>0, TurnFacts
    <2>3. ticket[t] \in 0 .. head - 1
      BY <1>0, <2>1 DEF Tickets, PushPhases
    <2>4. data[idx(ticket[t])] = pushed[ticket[t] + 1]
      BY <2>1 DEF Storage
    <2> QED
      BY <2>1, <2>2, <2>3, <2>4
  <1>5. ASSUME NEW t \in Threads, Release(t)
        PROVE  LET s == idx(ticket[t]) IN
               sequence'[s] % 2 = 0 /\ data'[s] = Raw
    <2>1. /\ sequence'[idx(ticket[t])] = release_turn(ticket[t]) + 1
          /\ data' = data /\ pc[t] = "release"
      BY <1>0, <1>5 DEF Release, TypeOK
    <2> QED
      BY <1>0, <2>1, TurnFacts DEF Storage
  <1>6. CASE Destroy
    BY <1>6 DEF Destroy, Published
  <1>7. CASE UNCHANGED vars
    BY <1>7 DEF vars, Published, Unowned, InSlot
  <1>8. ASSUME NEW t \in Threads, Call(t) \/ Step(t)
        PROVE  Published'
    <2>1. SUFFICES ASSUME alive', NEW s \in Slots, Unowned(s)'
                   PROVE  /\ sequence'[s] % 2 = 0 => data'[s] = Raw
                          /\ sequence'[s] % 2 = 1 =>
                                \E k \in 0 .. head' - 1 :
                                    /\ idx(k) = s
                                    /\ release_turn(k) = sequence'[s]
                                    /\ data'[s] = pushed'[k + 1]
      BY DEF Published
    <2>2. alive
      BY <1>8, <2>1 DEF Call, Step, EmplaceTicket, EmplaceSpin, Construct, Publish,
                  PopTicket, PopSpin, Move, Destruct, Release, TryPop,
                  TryCheck, TryCas, TryReload
    <2>3. CASE ~Publish(t) /\ ~Release(t)
      BY <1>1, <1>2, <1>8, <2>1, <2>2, <2>3
    <2>4. CASE s # idx(ticket[t]) /\ (Publish(t) \/ Release(t))
      BY <1>1, <1>3, <2>1, <2>2, <2>4
    <2>5. CASE s = idx(ticket[t]) /\ Publish(t)
      BY <1>4, <2>5
    <2>6. CASE s = idx(ticket[t]) /\ Release(t)
      BY <1>5, <2>6
    <2> QED
      BY <2>3, <2>4, <2>5, <2>6
  <1> QED
    BY <1>6, <1>7, <1>8 DEF Next

-----------------------------------------------------------------------------
(* The theorems *)

\* The invariant that both layers make together is inductive, so it holds.
THEOREM IndInvHolds == Spec => []IndInv
  <1>1. Init => IndInv
    <2> SUFFICES ASSUME Init PROVE IndInv
      OBVIOUS
    <2>1. TypeOK
      BY MaxTicketAssumption DEF Init, TypeOK, PCs, PushPhases, Slots
    <2> QED
      BY <2>1 DEF IndInv, Init, Tickets, Turns, Carried, Storage, Published,
                  Destroyed, PushPhases, PopPhases, TryPhases
  <1>2. IndInv /\ TypeOK' /\ [Next]_vars => IndInv'
    BY TicketsStep, TurnsStep, CarriedStep, StorageStep, PublishedStep,
       DestroyedStep DEF IndInv
  <1> QED
    BY <1>1, <1>2, TypeCorrect, PTL DEF Spec

\* A pop or try_pop delivers the object pushed under its own ticket.
THEOREM PopDeliversPushHolds == Spec => []PopDeliversPush
  <1>1. IndInv => PopDeliversPush
    BY DEF IndInv, Carried, PopDeliversPush
  <1> QED
    BY <1>1, IndInvHolds, PTL

\* construct meets raw storage, move a live object, destruct a moved-from one.
LEMMA SlotLifetimesHold == Spec => []SlotLifetimes
  <1>1. IndInv => SlotLifetimes
    <2> SUFFICES ASSUME IndInv, NEW t \in Threads, pc[t] = "move"
                 PROVE  data[idx(ticket[t])] \in Values
      BY DEF IndInv, Storage, SlotLifetimes
    <2>1. /\ ticket[t] \in Nat /\ ticket[t] < head /\ head \in Nat
          /\ Len(pushed) = head /\ pushed \in Seq(Values)
      BY MaxTicketAssumption DEF IndInv, TypeOK, Tickets, Carried
    <2>2. pushed[ticket[t] + 1] \in Values
      BY <2>1
    <2> QED
      BY <2>2 DEF IndInv, Storage
  <1> QED
    BY <1>1, IndInvHolds, PTL

\* Outside any call the parity of sequence_ says which slots hold an object,
\* and the destructor leaves none.
LEMMA NoLeakAtDestroyHolds == Spec => []NoLeakAtDestroy
  <1>1. IndInv => NoLeakAtDestroy
    <2> SUFFICES ASSUME IndInv, \A t \in Threads : pc[t] = "idle", alive,
                        NEW s \in Slots
                 PROVE  sequence[s] % 2 = 1 <=> data[s] \in Values
      BY DEF IndInv, Destroyed, NoLeakAtDestroy
    <2>1. Unowned(s) /\ sequence[s] \in Nat
      BY DEF Unowned, InSlot, IndInv, TypeOK
    <2>2. CASE sequence[s] % 2 = 0
      <3>1. data[s] = Raw
        BY <2>1, <2>2 DEF IndInv, Published
      <3> QED
        BY <2>2, <3>1, ValuesAssumption
    <2>3. CASE sequence[s] % 2 = 1
      <3>1. PICK k \in 0 .. head - 1 : data[s] = pushed[k + 1]
        BY <2>1, <2>3 DEF IndInv, Published
      <3>2. head \in Nat /\ Len(pushed) = head /\ pushed \in Seq(Values)
        BY MaxTicketAssumption DEF IndInv, TypeOK, Tickets
      <3>3. pushed[k + 1] \in Values
        BY <3>2
      <3> QED
        BY <2>3, <3>1, <3>3
    <2> QED
      BY <2>1, <2>2, <2>3
  <1> QED
    BY <1>1, IndInvHolds, PTL

\* Objects are built in raw storage, moved from once and destroyed once, by a
\* pop or by the destructor of the queue.
THEOREM ObjectLifetimesHold == Spec => []ObjectLifetimes
  BY SlotLifetimesHold, NoLeakAtDestroyHolds, PTL DEF ObjectLifetimes

-----------------------------------------------------------------------------
(* The refinement. A pop whose ticket no push has drawn yet is a waiting pop  *)
(* of the abstract queue, and it still spins.                                 *)

Waiters ==
    /\ Len(poppers) = tail
    /\ \A k \in head .. tail - 1 :
           pc[poppers[k + 1]] = "pop_spin" /\ ticket[poppers[k + 1]] = k

\* What SubSeq gives between two counters: the tail of a sequence that grows
\* at its end and is cut at its beginning.
LEMMA Window ==
    ASSUME NEW S, NEW s \in Seq(S), NEW m \in Nat, NEW n \in Nat
    PROVE  /\ n <= m => SubSeq(s, m + 1, n) = <<>>
           /\ m < n /\ n <= Len(s) =>
                  /\ SubSeq(s, m + 1, n) # <<>>
                  /\ Head(SubSeq(s, m + 1, n)) = s[m + 1]
                  /\ Tail(SubSeq(s, m + 1, n)) = SubSeq(s, m + 2, n)
                  /\ Len(SubSeq(s, m + 1, n)) = n - m
                  /\ \A i \in 1 .. n - m : SubSeq(s, m + 1, n)[i] = s[m + i]
  <1>1. ASSUME n <= m PROVE SubSeq(s, m + 1, n) = <<>>
    BY <1>1, SubSeqEmpty
  <1>2. ASSUME m < n, n <= Len(s)
        PROVE  /\ Len(SubSeq(s, m + 1, n)) = n - m
               /\ \A i \in 1 .. n - m : SubSeq(s, m + 1, n)[i] = s[m + i]
    <2>1. \A i \in m + 1 .. n : s[i] \in S
      BY <1>2
    <2>2. /\ Len(SubSeq(s, m + 1, n)) = n - m
          /\ \A i \in 1 .. n - (m + 1) + 1 : SubSeq(s, m + 1, n)[i] = s[m + 1 + i - 1]
      BY <1>2, <2>1, SubSeqProperties
    <2> QED
      BY <2>2
  <1>3. ASSUME m < n, n <= Len(s)
        PROVE  /\ Head(SubSeq(s, m + 1, n)) = s[m + 1]
               /\ Tail(SubSeq(s, m + 1, n)) = SubSeq(s, m + 2, n)
    <2>1. m + 1 \in 1 .. Len(s) /\ n \in m + 1 .. Len(s) /\ m + 1 + 1 = m + 2
      BY <1>3
    <2> QED
      BY <2>1, HeadTailOfSubSeq
  <1>4. ASSUME m < n, n <= Len(s) PROVE SubSeq(s, m + 1, n) # <<>>
    BY <1>2, <1>4
  <1> QED
    BY <1>1, <1>2, <1>3, <1>4

\* The window moves with what is appended.
LEMMA WindowGrows ==
    ASSUME NEW S, NEW s \in Seq(S), NEW x \in S, NEW m \in Nat, m <= Len(s)
    PROVE  SubSeq(Append(s, x), m + 1, Len(s) + 1) = Append(SubSeq(s, m + 1, Len(s)), x)
  <1> DEFINE n == Len(s)
             old == SubSeq(s, m + 1, n)
             new == SubSeq(Append(s, x), m + 1, n + 1)
  <1>1. /\ n \in Nat /\ m <= n /\ Append(s, x) \in Seq(S) /\ Len(Append(s, x)) = n + 1
        /\ \A i \in 1 .. n : Append(s, x)[i] = s[i]
        /\ Append(s, x)[n + 1] = x
    OBVIOUS
  <1>2. /\ Len(new) = n + 1 - m /\ new \in Seq(S)
        /\ \A i \in 1 .. n + 1 - m : new[i] = Append(s, x)[m + i]
    <2>1. \A i \in m + 1 .. n + 1 : Append(s, x)[i] \in S
      BY <1>1
    <2>2. new \in Seq(S)
      BY <1>1, <2>1, SubSeqProperties
    <2> QED
      BY <1>1, <2>2, Window
  <1>3. /\ Len(old) = n - m /\ old \in Seq(S)
        /\ \A i \in 1 .. n - m : old[i] = s[m + i]
    <2>1. old \in Seq(S)
      BY <1>1, SubSeqProperties
    <2>2. CASE m = n
      <3>1. old = <<>>
        BY <1>1, <2>2, Window
      <3> QED
        BY <1>1, <2>1, <2>2, <3>1
    <2>3. CASE m < n
      BY <1>1, <2>1, <2>3, Window
    <2> QED
      BY <1>1, <2>2, <2>3
  <1> HIDE DEF n, old, new
  <1>4. /\ Append(old, x) \in Seq(S) /\ Len(Append(old, x)) = n + 1 - m
        /\ \A i \in 1 .. n - m : Append(old, x)[i] = old[i]
        /\ Append(old, x)[n - m + 1] = x
    BY <1>1, <1>3
  <1>5. \A i \in 1 .. n + 1 - m : new[i] = Append(old, x)[i]
    <2> SUFFICES ASSUME NEW i \in 1 .. n + 1 - m PROVE new[i] = Append(old, x)[i]
      OBVIOUS
    <2>1. CASE i <= n - m
      BY <1>1, <1>2, <1>3, <1>4, <2>1
    <2>2. CASE i = n - m + 1
      <3>1. m + i = n + 1
        BY <1>1, <2>2
      <3> QED
        BY <1>1, <1>2, <1>4, <2>2, <3>1
    <2>3. i <= n - m \/ i = n - m + 1
      BY <1>1
    <2> QED
      BY <2>1, <2>2, <2>3
  <1>6. new = Append(old, x)
    BY <1>1, <1>2, <1>4, <1>5, SeqEqual
  <1> QED
    BY <1>6 DEF n, old, new

\* A waiting pop leaves its loop only when a push has drawn its ticket.
LEMMA WaitersStep ==
    ASSUME IndInv, Waiters, [Next]_vars
    PROVE  Waiters'
  <1>1. /\ head \in Nat /\ tail \in Nat /\ poppers \in Seq(Threads) /\ Len(poppers) = tail
        /\ ticket \in [Threads -> Nat] /\ DOMAIN pc = Threads
        /\ \A k \in head .. tail - 1 : poppers[k + 1] \in Threads
    BY MaxTicketAssumption DEF IndInv, TypeOK, Waiters
  <1>2. ASSUME NEW t \in Threads, Call(t) \/ Step(t), pc[t] # "pop_spin", UNCHANGED <<tail, poppers>>,
               head' \in Nat, head <= head'
        PROVE  Waiters'
    <2> SUFFICES ASSUME NEW k \in head' .. tail - 1
                 PROVE  pc'[poppers[k + 1]] = "pop_spin" /\ ticket'[poppers[k + 1]] = k
      BY <1>1, <1>2 DEF Waiters
    <2>1. k \in head .. tail - 1
      BY <1>1, <1>2
    <2>2. poppers[k + 1] # t /\ poppers[k + 1] \in Threads
      BY <1>1, <1>2, <2>1 DEF Waiters
    <2> QED
      BY <1>2, <2>1, <2>2, OthersUntouched DEF Waiters, IndInv
  <1>3. ASSUME NEW t \in Threads, NEW x \in Values, EmplaceTicket(t, x) PROVE Waiters'
    <2>1. /\ pc[t] # "pop_spin" /\ UNCHANGED <<tail, poppers>> /\ head' = head + 1 /\ Call(t)
      BY <1>3 DEF EmplaceTicket, Call
    <2> QED
      BY <1>1, <1>2, <2>1
  <1>4. ASSUME NEW t \in Threads, PopTicket(t) PROVE Waiters'
    <2>1. /\ tail' = tail + 1 /\ poppers' = Append(poppers, t) /\ head' = head /\ pc[t] = "idle"
          /\ pc'[t] = "pop_spin" /\ ticket'[t] = tail
      BY <1>1, <1>4 DEF PopTicket
    <2>2. /\ Len(poppers') = tail' /\ poppers'[tail + 1] = t
          /\ \A k \in head .. tail - 1 : poppers'[k + 1] = poppers[k + 1]
      BY <1>1, <2>1
    <2>3. ASSUME NEW k \in head .. tail - 1
          PROVE  pc'[poppers'[k + 1]] = "pop_spin" /\ ticket'[poppers'[k + 1]] = k
      <3>1. poppers[k + 1] # t /\ poppers[k + 1] \in Threads
        BY <1>1, <2>1 DEF Waiters
      <3> QED
        BY <1>4, <2>2, <3>1, OthersUntouched DEF Waiters, IndInv, Call
    <2>4. ASSUME NEW k \in head' .. tail' - 1
          PROVE  pc'[poppers'[k + 1]] = "pop_spin" /\ ticket'[poppers'[k + 1]] = k
      <3>1. k \in head .. tail - 1 \/ k = tail
        BY <1>1, <2>1
      <3>2. CASE k = tail
        BY <2>1, <2>2, <3>2
      <3> QED
        BY <2>3, <3>1, <3>2
    <2> QED
      BY <2>2, <2>4 DEF Waiters
  <1>5. ASSUME NEW t \in Threads, PopSpin(t) PROVE Waiters'
    <2>1. ticket[t] < head
      BY <1>5, ObjectAtTurn DEF IndInv
    <2>2. UNCHANGED <<head, tail, ticket, poppers>> /\ pc' = [pc EXCEPT ![t] = "move"]
      BY <1>5 DEF PopSpin
    <2>3. ASSUME NEW k \in head .. tail - 1 PROVE pc'[poppers[k + 1]] = "pop_spin"
      <3>1. poppers[k + 1] # t
        <4>1. ticket[poppers[k + 1]] = k /\ k >= head
          BY <1>1 DEF Waiters
        <4> QED
          BY <1>1, <2>1, <4>1
      <3> QED
        BY <1>1, <2>2, <3>1 DEF Waiters
    <2> QED
      BY <1>1, <2>2, <2>3 DEF Waiters
  <1>6. ASSUME NEW t \in Threads, TryCas(t) PROVE Waiters'
    <2>1. CASE tail # ticket[t]
      BY <1>1, <1>2, <1>6, <2>1 DEF TryCas, Step
    <2>2. CASE tail = ticket[t]
      <3>1. ticket[t] < head
        BY <1>6, <2>2, ObjectAtTurn DEF IndInv
      <3>2. /\ tail' = tail + 1 /\ poppers' = Append(poppers, t) /\ head' = head
        BY <1>6, <2>2 DEF TryCas
      <3> QED
        BY <1>1, <2>2, <3>1, <3>2 DEF Waiters
    <2> QED
      BY <2>1, <2>2
  <1>7. ASSUME NEW t \in Threads, EmplaceSpin(t) \/ Construct(t) \/ Publish(t) \/ Move(t) \/ Destruct(t)
                  \/ Release(t) \/ TryCheck(t) \/ TryReload(t) \/ TryPop(t)
        PROVE  Waiters'
    <2>1. pc[t] # "pop_spin" /\ UNCHANGED <<head, tail, poppers>> /\ (Call(t) \/ Step(t))
      BY <1>7 DEF EmplaceSpin, Construct, Publish, Move, Destruct, Release, TryCheck, TryReload, TryPop,
                  Call, Step
    <2> QED
      BY <1>1, <1>2, <2>1
  <1>8. CASE Destroy
    BY <1>1, <1>8 DEF Destroy, Waiters
  <1>9. CASE UNCHANGED vars
    BY <1>9 DEF vars, Waiters
  <1> QED
    BY <1>3, <1>4, <1>5, <1>6, <1>7, <1>8, <1>9 DEF Next, Call, Step

\* What thread t has been handed.
Got(t) ==
    IF pc[t] \in {"destruct", "release"} THEN v[t]
    ELSE IF pc[t] \in {"pop_spin", "move"} /\ ticket[t] < head
         THEN pushed[ticket[t] + 1]
         ELSE NoValue

\* It stays what it is while t rests, unless the push with its ticket comes.
LEMMA GotRests ==
    ASSUME IndInv, [Next]_vars, NEW t \in Threads,
           pc'[t] = pc[t], ticket'[t] = ticket[t], v'[t] = v[t],
           head' = head \/ ((pc[t] \in PopPhases => ticket[t] # head) /\ head' = head + 1)
    PROVE  Got(t)' = Got(t)
  <1>1. /\ head \in Nat /\ ticket[t] \in Nat
        /\ \A k \in Nat : k < head => pushed'[k + 1] = pushed[k + 1]
    BY PushedStable, MaxTicketAssumption DEF IndInv, TypeOK
  <1>2. pc[t] \in {"pop_spin", "move"} => (ticket'[t] < head' <=> ticket[t] < head)
    BY <1>1 DEF PopPhases
  <1> QED
    BY <1>1, <1>2 DEF Got

\* The abstract queue in terms of windows on the two histories.
LEMMA AbstractState ==
    /\ Fifo!fifoVars = <<itemsBar, waitingBar, gotBar>>
    /\ gotBar = [t \in Threads |-> Got(t)]
    /\ gotBar' = [t \in Threads |-> Got(t)']
    /\ alive => itemsBar = SubSeq(pushed, tail + 1, head)
    /\ alive' => itemsBar' = SubSeq(pushed', tail' + 1, head')
    /\ waitingBar = SubSeq(poppers, head + 1, tail)
    /\ waitingBar' = SubSeq(poppers', head' + 1, tail')
  BY DEF Fifo!fifoVars, gotBar, Got, itemsBar, waitingBar

\* A push is the abstract push: it serves the first pop that waits, or none
\* does and the value is queued.
LEMMA EmplaceIsPush ==
    ASSUME IndInv, Waiters, NEW t \in Threads, NEW x \in Values, EmplaceTicket(t, x)
    PROVE  Fifo!Push(x)
  <1>1. /\ head \in Nat /\ tail \in Nat /\ Len(poppers) = tail /\ Len(pushed) = head
        /\ poppers \in Seq(Threads) /\ pushed \in Seq(Values)
        /\ alive /\ alive' /\ head' = head + 1 /\ pushed' = Append(pushed, x)
        /\ UNCHANGED <<tail, poppers>> /\ pc[t] = "idle" /\ pc'[t] = "push_spin"
    BY MaxTicketAssumption DEF IndInv, TypeOK, Waiters, Tickets, EmplaceTicket
  <1>2. /\ itemsBar = SubSeq(pushed, tail + 1, head)
        /\ itemsBar' = SubSeq(Append(pushed, x), tail + 1, head + 1)
        /\ waitingBar = SubSeq(poppers, head + 1, tail)
        /\ waitingBar' = SubSeq(poppers, head + 2, tail)
    <2>1. head + 1 + 1 = head + 2
      BY <1>1
    <2> QED
      BY <1>1, <2>1, AbstractState
  <1>3. Got(t)' = NoValue /\ Got(t) = NoValue
    BY <1>1 DEF Got
  <1>4. ASSUME NEW u \in Threads, pc[u] \in PopPhases => ticket[u] # head
        PROVE  Got(u)' = Got(u)
    <2>1. CASE u = t
      BY <1>3, <2>1
    <2>2. CASE u # t
      <3>1. pc'[u] = pc[u] /\ ticket'[u] = ticket[u] /\ v'[u] = v[u] /\ [Next]_vars
        BY <2>2, OthersUntouched DEF IndInv, Call, Next
      <3> QED
        BY <1>1, <1>4, <3>1, GotRests
    <2> QED
      BY <2>1, <2>2
  <1>5. CASE tail <= head
    <2>1. waitingBar = <<>> /\ waitingBar' = <<>>
      <3>1. tail <= head + 1 /\ head + 1 \in Nat /\ head + 1 + 1 = head + 2
        BY <1>1, <1>5
      <3> QED
        BY <1>1, <1>2, <1>5, <3>1, Window
    <2>2. itemsBar' = Append(itemsBar, x)
      BY <1>1, <1>2, <1>5, WindowGrows
    <2>3. \A u \in Threads : Got(u)' = Got(u)
      BY <1>1, <1>4, <1>5 DEF IndInv, TypeOK, Tickets
    <2>4. gotBar' = gotBar
      BY <2>3, AbstractState
    <2> QED
      BY <2>1, <2>2, <2>4 DEF Fifo!Push
  <1>6. CASE tail > head
    <2>p. PICK p \in Threads : p = poppers[head + 1]
      BY <1>1, <1>6
    <2>1. /\ waitingBar # <<>> /\ Head(waitingBar) = p /\ waitingBar' = Tail(waitingBar)
      <3>1. /\ SubSeq(poppers, head + 1, tail) # <<>>
            /\ Head(SubSeq(poppers, head + 1, tail)) = poppers[head + 1]
            /\ Tail(SubSeq(poppers, head + 1, tail)) = SubSeq(poppers, head + 2, tail)
        <4>1. head < tail /\ tail <= Len(poppers)
          BY <1>1, <1>6
        <4> QED
          BY <1>1, <4>1, Window
      <3> QED
        BY <1>2, <2>p, <3>1
    <2>2. itemsBar = <<>> /\ itemsBar' = <<>>
      <3>1. Append(pushed, x) \in Seq(Values) /\ head + 1 <= tail /\ head + 1 \in Nat
        BY <1>1, <1>6
      <3> QED
        BY <1>1, <1>2, <1>6, <3>1, Window
    <2>3. p \in Threads /\ pc[p] = "pop_spin" /\ ticket[p] = head /\ p # t
      BY <1>1, <1>6, <2>p DEF Waiters
    <2>4. Got(p)' = x
      <3>1. pc'[p] = "pop_spin" /\ ticket'[p] = head
        BY <2>3, OthersUntouched DEF IndInv, Call
      <3>2. pushed'[head + 1] = x
        BY <1>1
      <3> QED
        BY <1>1, <3>1, <3>2 DEF Got
    <2>5. \A u \in Threads \ {p} : Got(u)' = Got(u)
      BY <1>4, <2>3 DEF IndInv, Tickets, PopPhases
    <2>6. gotBar' = [gotBar EXCEPT ![p] = x]
      BY <2>3, <2>4, <2>5, AbstractState
    <2> QED
      BY <2>1, <2>2, <2>6 DEF Fifo!Push
  <1> QED
    BY <1>1, <1>5, <1>6

\* A ticket of a pop is the abstract pop, for pop and try_pop.
LEMMA TicketIsPop ==
    ASSUME IndInv, Waiters, NEW t \in Threads, Call(t) \/ Step(t), alive, alive',
           tail' = tail + 1, poppers' = Append(poppers, t), UNCHANGED <<head, pushed>>,
           pc[t] \in {"idle", "try_cas"}, pc'[t] \in {"pop_spin", "move"}, ticket'[t] = tail
    PROVE  Fifo!Pop(t)
  <1>1. /\ head \in Nat /\ tail \in Nat /\ Len(poppers) = tail /\ Len(pushed) = head
        /\ poppers \in Seq(Threads) /\ pushed \in Seq(Values)
    BY MaxTicketAssumption DEF IndInv, TypeOK, Waiters, Tickets
  <1>2. /\ itemsBar = SubSeq(pushed, tail + 1, head)
        /\ itemsBar' = SubSeq(pushed, tail + 2, head)
        /\ waitingBar = SubSeq(poppers, head + 1, tail)
        /\ waitingBar' = SubSeq(Append(poppers, t), head + 1, tail + 1)
    <2>1. tail + 1 + 1 = tail + 2
      BY <1>1
    <2> QED
      BY <1>1, <2>1, AbstractState
  <1>3. Got(t) = NoValue /\ gotBar[t] = NoValue
    BY AbstractState DEF Got
  <1>4. \A u \in Threads \ {t} : Got(u)' = Got(u)
    <2> SUFFICES ASSUME NEW u \in Threads \ {t} PROVE Got(u)' = Got(u)
      OBVIOUS
    <2>1. pc'[u] = pc[u] /\ ticket'[u] = ticket[u] /\ v'[u] = v[u] /\ [Next]_vars
      BY OthersUntouched DEF IndInv, Next
    <2> QED
      BY <2>1, GotRests
  <1>5. \A i \in 1 .. Len(waitingBar) : waitingBar[i] # t
    <2>1. CASE tail <= head
      <3>1. waitingBar = <<>>
        BY <1>1, <1>2, <2>1, Window
      <3> QED
        BY <3>1
    <2>2. CASE head < tail
      <3> SUFFICES ASSUME NEW i \in 1 .. Len(waitingBar) PROVE waitingBar[i] # t
        OBVIOUS
      <3>1. i \in 1 .. tail - head /\ waitingBar[i] = poppers[head + i]
        BY <1>1, <1>2, <2>2, Window
      <3>2. head + i - 1 \in head .. tail - 1 /\ head + i - 1 + 1 = head + i
        BY <1>1, <3>1
      <3>3. pc[poppers[head + i]] = "pop_spin"
        BY <3>2 DEF Waiters
      <3> QED
        BY <3>1, <3>3
    <2> QED
      BY <1>1, <2>1, <2>2
  <1>6. CASE head <= tail
    <2>1. itemsBar = <<>> /\ itemsBar' = <<>>
      <3>1. head <= tail + 1 /\ tail + 1 \in Nat /\ tail + 1 + 1 = tail + 2
        BY <1>1, <1>6
      <3> QED
        BY <1>1, <1>2, <1>6, <3>1, Window
    <2>2. waitingBar' = Append(waitingBar, t)
      BY <1>1, <1>2, <1>6, WindowGrows
    <2>3. Got(t)' = NoValue
      BY <1>1, <1>6 DEF Got
    <2>4. gotBar' = gotBar
      BY <1>3, <1>4, <2>3, AbstractState
    <2> QED
      BY <1>3, <1>5, <2>1, <2>2, <2>4 DEF Fifo!Pop
  <1>7. CASE tail < head
    <2>1. itemsBar # <<>> /\ Head(itemsBar) = pushed[tail + 1] /\ itemsBar' = Tail(itemsBar)
      <3>1. /\ SubSeq(pushed, tail + 1, head) # <<>>
            /\ Head(SubSeq(pushed, tail + 1, head)) = pushed[tail + 1]
            /\ Tail(SubSeq(pushed, tail + 1, head)) = SubSeq(pushed, tail + 2, head)
        BY <1>1, <1>7, Window
      <3> QED
        BY <1>2, <3>1
    <2>2. waitingBar = <<>> /\ waitingBar' = <<>>
      <3>1. Append(poppers, t) \in Seq(Threads) /\ tail + 1 <= head /\ tail + 1 \in Nat
        BY <1>1, <1>7
      <3> QED
        BY <1>1, <1>2, <1>7, <3>1, Window
    <2>3. Got(t)' = pushed[tail + 1]
      BY <1>1, <1>7 DEF Got
    <2>4. gotBar' = [gotBar EXCEPT ![t] = pushed[tail + 1]]
      BY <1>4, <2>3, AbstractState
    <2> QED
      BY <1>3, <1>5, <2>1, <2>2, <2>4 DEF Fifo!Pop
  <1> QED
    BY <1>1, <1>6, <1>7

\* The end of a pop is the abstract return: what it carries is a value.
LEMMA ReleaseIsReturn ==
    ASSUME IndInv, NEW t \in Threads, Release(t)
    PROVE  Fifo!Return(t)
  <1>1. /\ pc[t] = "release" /\ pc'[t] = "idle" /\ UNCHANGED <<head, tail, pushed, poppers, alive>>
        /\ head \in Nat /\ ticket[t] \in Nat /\ ticket[t] < head /\ v[t] = pushed[ticket[t] + 1]
        /\ pushed \in Seq(Values) /\ Len(pushed) = head
    BY MaxTicketAssumption DEF IndInv, TypeOK, Tickets, Carried, Release
  <1>2. v[t] \in Values
    BY <1>1
  <1>3. Got(t) \in Values /\ Got(t)' = NoValue
    BY <1>1, <1>2 DEF Got
  <1>4. \A u \in Threads \ {t} : Got(u)' = Got(u)
    <2> SUFFICES ASSUME NEW u \in Threads \ {t} PROVE Got(u)' = Got(u)
      OBVIOUS
    <2>1. pc'[u] = pc[u] /\ ticket'[u] = ticket[u] /\ v'[u] = v[u] /\ [Next]_vars
      BY OthersUntouched DEF IndInv, Next, Step
    <2> QED
      BY <1>1, <2>1, GotRests
  <1>5. gotBar[t] # NoValue /\ gotBar' = [gotBar EXCEPT ![t] = NoValue]
    BY <1>3, <1>4, AbstractState, ValuesAssumption
  <1>6. UNCHANGED <<itemsBar, waitingBar>>
    BY <1>1 DEF itemsBar, waitingBar
  <1> QED
    BY <1>5, <1>6 DEF Fifo!Return

\* The destructor drops what is queued.
LEMMA DestroyIsDrop ==
    ASSUME IndInv, Waiters, Destroy
    PROVE  Fifo!Drop
  <1>1. /\ head \in Nat /\ tail \in Nat /\ poppers \in Seq(Threads) /\ Len(poppers) = tail
        /\ \A t \in Threads : pc[t] = "idle" /\ pc'[t] = "idle"
        /\ UNCHANGED <<head, tail, poppers>> /\ alive' = FALSE
    BY MaxTicketAssumption DEF IndInv, TypeOK, Waiters, Destroy
  <1>2. tail <= head
    <2> SUFFICES ASSUME head < tail PROVE FALSE
      BY <1>1
    <2>1. head \in head .. tail - 1 /\ poppers[head + 1] \in Threads
      BY <1>1
    <2> QED
      BY <1>1, <2>1 DEF Waiters
  <1>3. waitingBar = <<>> /\ UNCHANGED waitingBar
    BY <1>1, <1>2, Window DEF waitingBar
  <1>4. \A t \in Threads : Got(t) = NoValue /\ Got(t)' = NoValue
    BY <1>1 DEF Got
  <1>5. gotBar = [t \in Threads |-> NoValue] /\ gotBar' = gotBar
    BY <1>4, AbstractState
  <1>6. itemsBar' = <<>>
    BY <1>1 DEF itemsBar
  <1> QED
    BY <1>3, <1>5, <1>6 DEF Fifo!Drop

\* Every other step is one the callers cannot see. In the move the value that
\* was promised becomes the one that is carried.
LEMMA RestIsUnseen ==
    ASSUME IndInv, NEW t \in Threads,
           \/ EmplaceSpin(t) \/ Construct(t) \/ Publish(t) \/ PopSpin(t) \/ Move(t) \/ Destruct(t)
           \/ TryPop(t) \/ TryCheck(t) \/ TryReload(t) \/ (TryCas(t) /\ tail # ticket[t])
    PROVE  UNCHANGED Fifo!fifoVars
  <1>1. /\ UNCHANGED <<head, tail, pushed, poppers, alive>> /\ (Call(t) \/ Step(t)) /\ [Next]_vars
        /\ head \in Nat /\ ticket[t] \in Nat
    <2>1. UNCHANGED <<head, tail, pushed, poppers, alive>>
      BY DEF EmplaceSpin, Construct, Publish, PopSpin, Move, Destruct, TryPop, TryCheck, TryReload, TryCas
    <2>2. Call(t) \/ Step(t)
      BY DEF Call, Step
    <2> QED
      BY <2>1, <2>2, MaxTicketAssumption DEF IndInv, TypeOK, Next
  <1>2. UNCHANGED <<itemsBar, waitingBar>>
    BY <1>1 DEF itemsBar, waitingBar
  <1>3. Got(t)' = Got(t)
    <2>1. CASE PopSpin(t)
      BY <1>1, <2>1 DEF PopSpin, Got, IndInv, TypeOK
    <2>2. CASE Move(t)
      <3>1. /\ pc[t] = "move" /\ pc'[t] = "destruct" /\ v'[t] = data[idx(ticket[t])]
            /\ data[idx(ticket[t])] = pushed[ticket[t] + 1] /\ ticket[t] < head
        BY <2>2 DEF Move, IndInv, TypeOK, Storage, Carried
      <3> QED
        BY <1>1, <3>1 DEF Got
    <2>3. CASE Destruct(t)
      BY <1>1, <2>3 DEF Destruct, Got, IndInv, TypeOK
    <2>4. CASE EmplaceSpin(t) \/ Construct(t) \/ Publish(t)
      BY <1>1, <2>4 DEF EmplaceSpin, Construct, Publish, Got, IndInv, TypeOK
    <2>5. CASE TryPop(t) \/ TryCheck(t) \/ TryReload(t)
      BY <1>1, <2>5 DEF TryPop, TryCheck, TryReload, Got, IndInv, TypeOK
    <2>6. CASE TryCas(t) /\ tail # ticket[t]
      BY <1>1, <2>6 DEF TryCas, Got, IndInv, TypeOK
    <2> QED
      BY <2>1, <2>2, <2>3, <2>4, <2>5, <2>6
  <1>4. \A u \in Threads \ {t} : Got(u)' = Got(u)
    <2> SUFFICES ASSUME NEW u \in Threads \ {t} PROVE Got(u)' = Got(u)
      OBVIOUS
    <2>1. pc'[u] = pc[u] /\ ticket'[u] = ticket[u] /\ v'[u] = v[u]
      BY <1>1, OthersUntouched DEF IndInv
    <2> QED
      BY <1>1, <2>1, GotRests
  <1>5. gotBar' = gotBar
    BY <1>3, <1>4, AbstractState
  <1> QED
    BY <1>2, <1>5 DEF Fifo!fifoVars

\* For any threads, capacity and number of tickets the ring of slots behaves as
\* a first-in first-out queue: values leave in the order in which emplace drew
\* its tickets, pops are served in the order of theirs, each value by one pop
\* (mpmc_queue.hpp:30-121).
THEOREM ImplementsFifoHolds == Spec => ImplementsFifo
  <1>1. Init => Waiters /\ Fifo!FifoInit
    <2> SUFFICES ASSUME Init PROVE Waiters /\ Fifo!FifoInit
      OBVIOUS
    <2>1. Waiters
      BY DEF Init, Waiters
    <2>2. itemsBar = <<>> /\ waitingBar = <<>>
      <3>1. <<>> \in Seq(Values) /\ <<>> \in Seq(Threads)
        OBVIOUS
      <3> QED
        BY <3>1, Window DEF Init, itemsBar, waitingBar
    <2>3. gotBar = [t \in Threads |-> NoValue]
      BY DEF Init, gotBar
    <2> QED
      BY <2>1, <2>2, <2>3 DEF Fifo!FifoInit
  <1>2. IndInv /\ Waiters /\ [Next]_vars => Waiters' /\ [Fifo!FifoNext]_(Fifo!fifoVars)
    <2> SUFFICES ASSUME IndInv, Waiters, [Next]_vars
                 PROVE  Waiters' /\ [Fifo!FifoNext]_(Fifo!fifoVars)
      OBVIOUS
    <2>1. ASSUME NEW t \in Threads, NEW x \in Values, EmplaceTicket(t, x)
          PROVE  Fifo!FifoNext
      BY <2>1, EmplaceIsPush DEF Fifo!FifoNext
    <2>2. ASSUME NEW t \in Threads, PopTicket(t) PROVE Fifo!FifoNext
      <3>1. /\ Call(t) /\ alive /\ alive' /\ tail' = tail + 1 /\ poppers' = Append(poppers, t)
            /\ UNCHANGED <<head, pushed>> /\ pc[t] = "idle" /\ pc'[t] = "pop_spin" /\ ticket'[t] = tail
        BY <2>2 DEF PopTicket, Call, IndInv, TypeOK
      <3> QED
        BY <3>1, TicketIsPop DEF Fifo!FifoNext
    <2>3. ASSUME NEW t \in Threads, TryCas(t) PROVE [Fifo!FifoNext]_(Fifo!fifoVars)
      <3>1. CASE tail = ticket[t]
        <4>1. /\ Step(t) /\ tail' = tail + 1 /\ poppers' = Append(poppers, t) /\ UNCHANGED alive
              /\ UNCHANGED <<head, pushed>> /\ pc[t] = "try_cas" /\ pc'[t] = "move" /\ ticket'[t] = tail
          BY <2>3, <3>1 DEF TryCas, Step, IndInv, TypeOK
        <4>2. alive /\ alive'
          BY <4>1 DEF IndInv, Destroyed
        <4> QED
          BY <4>1, <4>2, TicketIsPop DEF Fifo!FifoNext
      <3>2. CASE tail # ticket[t]
        BY <2>3, <3>2, RestIsUnseen
      <3> QED
        BY <3>1, <3>2
    <2>4. ASSUME NEW t \in Threads, Release(t) PROVE Fifo!FifoNext
      BY <2>4, ReleaseIsReturn DEF Fifo!FifoNext
    <2>5. ASSUME Destroy PROVE Fifo!FifoNext
      BY <2>5, DestroyIsDrop DEF Fifo!FifoNext
    <2>6. ASSUME NEW t \in Threads,
                 \/ EmplaceSpin(t) \/ Construct(t) \/ Publish(t) \/ PopSpin(t) \/ Move(t) \/ Destruct(t)
                 \/ TryPop(t) \/ TryCheck(t) \/ TryReload(t)
          PROVE  UNCHANGED Fifo!fifoVars
      BY <2>6, RestIsUnseen
    <2>7. ASSUME UNCHANGED vars PROVE UNCHANGED Fifo!fifoVars
      <3>1. UNCHANGED <<itemsBar, waitingBar, gotBar>>
        BY <2>7 DEF vars, itemsBar, waitingBar, gotBar
      <3> QED
        BY <3>1 DEF Fifo!fifoVars
    <2> QED
      BY <2>1, <2>2, <2>3, <2>4, <2>5, <2>6, <2>7, WaitersStep DEF Next, Call, Step
  <1> QED
    BY <1>1, <1>2, IndInvHolds, PTL DEF Spec, ImplementsFifo, Fifo!FifoSpec
=============================================================================
