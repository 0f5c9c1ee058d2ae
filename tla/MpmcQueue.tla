------------------------------ MODULE MpmcQueue ------------------------------
(* queue<T, Lockless::MPMC> of include/ptl/mpmc_queue.hpp.                   *)
(*                                                                           *)
(* One action per access to shared memory: a ticket is taken from head_ or   *)
(* tail_, the slot's sequence_ is awaited, the object is built or moved out  *)
(* in storage that is not atomic, and sequence_ is stored. The acquire and   *)
(* release orders on sequence_ order the storage accesses of two threads     *)
(* that hand the slot over, so an interleaving of these steps is enough.     *)
EXTENDS Naturals, Sequences

CONSTANTS Threads, Values,
          Capacity,   \* slots_.size()
          MaxTicket,  \* bound on head_ and tail_ (2^64 in the code)
          Raw,        \* storage that holds no object
          Moved,      \* an object that was moved from
          NoValue     \* a thread that carries no value

ASSUME CapacityAssumption == Capacity \in Nat \ {0}
ASSUME MaxTicketAssumption == MaxTicket \in Nat
ASSUME ValuesAssumption ==
    /\ Raw \notin Values /\ Moved \notin Values /\ NoValue \notin Values
    /\ Raw # Moved /\ Raw # NoValue /\ Moved # NoValue

VARIABLES
    head, tail,  \* head_, tail_
    sequence,    \* sequence_ of each slot
    data,        \* data_ of each slot
    alive,       \* the destructor has not run
    pc,          \* where a thread is inside emplace, pop or try_pop
    ticket,      \* its local ticket
    v,           \* what it pushes, or what its pop has moved out
    pushed,      \* history: pushed[k + 1] is the value of push ticket k
    poppers      \* history: poppers[k + 1] is the thread with pop ticket k

vars == <<head, tail, sequence, data, alive, pc, ticket, v, pushed, poppers>>

Slots == 0 .. Capacity - 1

idx(i) == i % Capacity
turn(i) == i \div Capacity
acquire_turn(i) == 2 * turn(i)

release_turn(i) == 2 * turn(i) + 1

PushPhases == {"push_spin", "construct", "publish"}
PopPhases  == {"pop_spin", "move", "destruct", "release"}
TryPhases  == {"try_check", "try_cas", "try_reload"}
PCs == {"idle"} \cup PushPhases \cup PopPhases \cup TryPhases

TypeOK ==
    /\ head \in 0 .. MaxTicket
    /\ tail \in 0 .. MaxTicket
    /\ sequence \in [Slots -> Nat]
    /\ data \in [Slots -> Values \cup {Raw, Moved}]
    /\ alive \in BOOLEAN
    /\ pc \in [Threads -> PCs]
    /\ ticket \in [Threads -> Nat]
    /\ v \in [Threads -> Values \cup {Raw, Moved, NoValue}]
    /\ pushed \in Seq(Values)
    /\ poppers \in Seq(Threads)
    /\ \A t \in Threads : pc[t] \in PushPhases => v[t] \in Values

Init ==
    /\ head = 0 /\ tail = 0
    /\ sequence = [s \in Slots |-> 0]
    /\ data = [s \in Slots |-> Raw]
    /\ alive = TRUE
    /\ pc = [t \in Threads |-> "idle"]
    /\ ticket = [t \in Threads |-> 0]
    /\ v = [t \in Threads |-> NoValue]
    /\ pushed = <<>>
    /\ poppers = <<>>

-----------------------------------------------------------------------------
(* emplace, push *)

\* const auto ticket = head_.fetch_add(1);
EmplaceTicket(t, x) ==
    /\ alive /\ pc[t] = "idle" /\ head < MaxTicket
    /\ head' = head + 1
    /\ ticket' = [ticket EXCEPT ![t] = head]
    /\ v' = [v EXCEPT ![t] = x]
    /\ pushed' = Append(pushed, x)
    /\ pc' = [pc EXCEPT ![t] = "push_spin"]
    /\ UNCHANGED <<tail, sequence, data, alive, poppers>>

\* Mutant. The loop looks at the parity and not at the turn.
EmplaceSpin_mut(t) ==
    /\ pc[t] = "push_spin"
    /\ sequence[idx(ticket[t])] % 2 = 0
    /\ pc' = [pc EXCEPT ![t] = "construct"]
    /\ UNCHANGED <<head, tail, sequence, data, alive, ticket, v, pushed, poppers>>

\* The loop leaves when the slot is free for this turn. It has no effect on an
\* iteration that fails the test.
EmplaceSpin(t) ==
    /\ pc[t] = "push_spin"
    /\ acquire_turn(ticket[t]) = sequence[idx(ticket[t])]
    /\ pc' = [pc EXCEPT ![t] = "construct"]
    /\ UNCHANGED <<head, tail, sequence, data, alive, ticket, v, pushed, poppers>>

\* slot.construct(std::forward<Args>(args)...)
Construct(t) ==
    /\ pc[t] = "construct"
    /\ data' = [data EXCEPT ![idx(ticket[t])] = v[t]]
    /\ pc' = [pc EXCEPT ![t] = "publish"]
    /\ UNCHANGED <<head, tail, sequence, alive, ticket, v, pushed, poppers>>

\* slot.sequence_.store(release_turn(ticket)), and emplace returns.
Publish(t) ==
    /\ pc[t] = "publish"
    /\ sequence' = [sequence EXCEPT ![idx(ticket[t])] = release_turn(ticket[t])]
    /\ pc' = [pc EXCEPT ![t] = "idle"]
    /\ v' = [v EXCEPT ![t] = NoValue]
    /\ UNCHANGED <<head, tail, data, alive, ticket, pushed, poppers>>

-----------------------------------------------------------------------------
(* pop *)

\* const auto ticket = tail_.fetch_add(1);
PopTicket(t) ==
    /\ alive /\ pc[t] = "idle" /\ tail < MaxTicket
    /\ tail' = tail + 1
    /\ ticket' = [ticket EXCEPT ![t] = tail]
    /\ poppers' = Append(poppers, t)
    /\ pc' = [pc EXCEPT ![t] = "pop_spin"]
    /\ UNCHANGED <<head, sequence, data, alive, v, pushed>>

\* Mutant. The loop looks at the parity and not at the turn.
PopSpin_mut(t) ==
    /\ pc[t] = "pop_spin"
    /\ sequence[idx(ticket[t])] % 2 = 1
    /\ pc' = [pc EXCEPT ![t] = "move"]
    /\ UNCHANGED <<head, tail, sequence, data, alive, ticket, v, pushed, poppers>>

PopSpin(t) ==
    /\ pc[t] = "pop_spin"
    /\ release_turn(ticket[t]) = sequence[idx(ticket[t])]
    /\ pc' = [pc EXCEPT ![t] = "move"]
    /\ UNCHANGED <<head, tail, sequence, data, alive, ticket, v, pushed, poppers>>

\* v = slot.move(); shared by pop and try_pop, as are the next two steps.
Move(t) ==
    /\ pc[t] = "move"
    /\ v' = [v EXCEPT ![t] = data[idx(ticket[t])]]
    /\ data' = [data EXCEPT ![idx(ticket[t])] = Moved]
    /\ pc' = [pc EXCEPT ![t] = "destruct"]
    /\ UNCHANGED <<head, tail, sequence, alive, ticket, pushed, poppers>>

\* Mutant. The call of destruct is forgotten.
Destruct_mut(t) ==
    /\ pc[t] = "destruct"
    /\ pc' = [pc EXCEPT ![t] = "release"]
    /\ UNCHANGED <<head, tail, sequence, data, alive, ticket, v, pushed, poppers>>

\* slot.destruct()
Destruct(t) ==
    /\ pc[t] = "destruct"
    /\ data' = [data EXCEPT ![idx(ticket[t])] = Raw]
    /\ pc' = [pc EXCEPT ![t] = "release"]
    /\ UNCHANGED <<head, tail, sequence, alive, ticket, v, pushed, poppers>>

\* Mutant. The store of sequence_ is forgotten.
Release_mut(t) ==
    /\ pc[t] = "release"
    /\ pc' = [pc EXCEPT ![t] = "idle"]
    /\ v' = [v EXCEPT ![t] = NoValue]
    /\ UNCHANGED <<head, tail, sequence, data, alive, ticket, pushed, poppers>>

\* slot.sequence_.store(release_turn(ticket) + 1), and the pop returns.
Release(t) ==
    /\ pc[t] = "release"
    /\ sequence' = [sequence EXCEPT ![idx(ticket[t])] = release_turn(ticket[t]) + 1]
    /\ pc' = [pc EXCEPT ![t] = "idle"]
    /\ v' = [v EXCEPT ![t] = NoValue]
    /\ UNCHANGED <<head, tail, data, alive, ticket, pushed, poppers>>

-----------------------------------------------------------------------------
(* try_pop *)

\* auto ticket = tail_.load();
TryPop(t) ==
    /\ alive /\ pc[t] = "idle"
    /\ ticket' = [ticket EXCEPT ![t] = tail]
    /\ pc' = [pc EXCEPT ![t] = "try_check"]
    /\ UNCHANGED <<head, tail, sequence, data, alive, v, pushed, poppers>>

\* if (release_turn(ticket) == slot.sequence_.load())
TryCheck(t) ==
    /\ pc[t] = "try_check"
    /\ pc' = [pc EXCEPT ![t] =
                IF release_turn(ticket[t]) = sequence[idx(ticket[t])]
                THEN "try_cas" ELSE "try_reload"]
    /\ UNCHANGED <<head, tail, sequence, data, alive, ticket, v, pushed, poppers>>

\* Mutant. fetch_add instead of compare_exchange_strong.
TryCas_mut(t) ==
    /\ pc[t] = "try_cas"
    /\ tail < MaxTicket
    /\ tail' = tail + 1
    /\ ticket' = [ticket EXCEPT ![t] = tail]
    /\ poppers' = Append(poppers, t)
    /\ pc' = [pc EXCEPT ![t] = "move"]
    /\ UNCHANGED <<head, sequence, data, alive, v, pushed>>

\* tail_.compare_exchange_strong(ticket, ticket + 1); a failure reloads ticket.
TryCas(t) ==
    /\ pc[t] = "try_cas"
    /\ \/ /\ tail = ticket[t] /\ tail < MaxTicket
          /\ tail' = tail + 1
          /\ poppers' = Append(poppers, t)
          /\ pc' = [pc EXCEPT ![t] = "move"]
          /\ UNCHANGED ticket
       \/ /\ tail # ticket[t]
          /\ ticket' = [ticket EXCEPT ![t] = tail]
          /\ pc' = [pc EXCEPT ![t] = "try_check"]
          /\ UNCHANGED <<tail, poppers>>
    /\ UNCHANGED <<head, sequence, data, alive, v, pushed>>

\* ticket = tail_.load(); if (ticket == prev_ticket) return false;
TryReload(t) ==
    /\ pc[t] = "try_reload"
    /\ ticket' = [ticket EXCEPT ![t] = tail]
    /\ pc' = [pc EXCEPT ![t] = IF tail = ticket[t] THEN "idle" ELSE "try_check"]
    /\ UNCHANGED <<head, tail, sequence, data, alive, v, pushed, poppers>>

-----------------------------------------------------------------------------
\* ~queue destroys slots_, and ~slot destructs when sequence_ is odd. The owner
\* lets no other call run.
Destroy ==
    /\ alive /\ \A t \in Threads : pc[t] = "idle"
    /\ alive' = FALSE
    /\ data' = [s \in Slots |-> IF sequence[s] % 2 = 1 THEN Raw ELSE data[s]]
    /\ UNCHANGED <<head, tail, sequence, pc, ticket, v, pushed, poppers>>

\* The steps of a call that has begun.
Step(t) ==
    \/ EmplaceSpin(t) \/ Construct(t) \/ Publish(t)
    \/ PopSpin(t) \/ Move(t) \/ Destruct(t) \/ Release(t)
    \/ TryCheck(t) \/ TryCas(t) \/ TryReload(t)

Call(t) ==
    \/ \E x \in Values : EmplaceTicket(t, x)
    \/ PopTicket(t)
    \/ TryPop(t)

Next == Destroy \/ \E t \in Threads : Call(t) \/ Step(t)

Spec == Init /\ [][Next]_vars

\* A thread inside a call keeps being scheduled.
FairSpec == Spec /\ \A t \in Threads : WF_vars(Step(t))

-----------------------------------------------------------------------------
(* Properties *)

\* The thread owns the storage of its slot.
InSlot(t) == pc[t] \in {"construct", "publish", "move", "destruct", "release"}

\* A slot belongs to one thread at a time: no two calls, whether emplace, pop
\* or try_pop and whatever their turns, are between the test of sequence_ and
\* its store on the same slot (mpmc_queue.hpp:36-41, 96-102, 110-114).
SlotExclusion ==
    \A t, u \in Threads :
        t # u /\ InSlot(t) /\ InSlot(u) => idx(ticket[t]) # idx(ticket[u])

\* The object a pop or a try_pop delivers is the one pushed under the same
\* ticket, so objects leave in the order in which emplace drew its tickets:
\* none is skipped, delivered twice, or read from raw or moved-from storage.
PopDeliversPush ==
    \A t \in Threads :
        pc[t] \in {"destruct", "release"} =>
            /\ ticket[t] < head
            /\ v[t] = pushed[ticket[t] + 1]

\* construct only builds in raw storage, destruct only ends an object's life,
\* and a pop only moves from an object that has not been moved from.
SlotLifetimes ==
    \A t \in Threads :
        /\ pc[t] = "construct" => data[idx(ticket[t])] = Raw
        /\ pc[t] = "move"      => data[idx(ticket[t])] \in Values
        /\ pc[t] = "destruct"  => data[idx(ticket[t])] = Moved

\* The parity of sequence_, which is all that ~slot looks at, tells exactly
\* which slots hold an object once no call is running; after the destructor no
\* slot holds one.
NoLeakAtDestroy ==
    /\ (\A t \in Threads : pc[t] = "idle") /\ alive =>
           \A s \in Slots : sequence[s] % 2 = 1 <=> data[s] \in Values
    /\ ~alive => \A s \in Slots : data[s] = Raw

\* Each object is built once in raw storage, moved from once and destroyed once,
\* by a pop or by the destructor (mpmc_queue.hpp:149-172).
ObjectLifetimes == SlotLifetimes /\ NoLeakAtDestroy

-----------------------------------------------------------------------------
(* Refinement *)

\* A pop is served as soon as the push with its ticket has drawn it. From the
\* move on, what it was handed is what it really read.
gotBar ==
    [t \in Threads |->
        IF pc[t] \in {"destruct", "release"} THEN v[t]
        ELSE IF pc[t] \in {"pop_spin", "move"} /\ ticket[t] < head
             THEN pushed[ticket[t] + 1]
             ELSE NoValue]

itemsBar == IF alive THEN SubSeq(pushed, tail + 1, head) ELSE <<>>

waitingBar == SubSeq(poppers, head + 1, tail)

Fifo == INSTANCE FifoQueue WITH
            items <- itemsBar, waiting <- waitingBar, got <- gotBar

\* The ring of slots with its tickets implements a first-in first-out queue
\* whose pops are served in the order of their tickets.
ImplementsFifo == Fifo!FifoSpec

-----------------------------------------------------------------------------
(* Liveness *)

\* A pop whose push has drawn its ticket returns, and so does a push whose slot
\* was claimed by the pop of the turn before: the slot's turn comes round even
\* though pushes and pops of other turns wait on the same slot
\* (mpmc_queue.hpp:36, 96).
CallsReturn ==
    \A t \in Threads :
        /\ pc[t] = "pop_spin" /\ ticket[t] < head ~> pc[t] = "idle"
        /\ pc[t] = "push_spin" /\ ticket[t] < tail + Capacity ~> pc[t] = "idle"
=============================================================================
