------------------------------ MODULE PackedPtr ------------------------------
(* PackedPtr and AtomicPackedPtr of include/ptl/packed_ptr.hpp: a pointer, a  *)
(* value and a small number in one word, in seven layouts. A word is the set  *)
(* of the numbers of its bits that are 1, so that & and | are intersection    *)
(* and union. A PackedPtr belongs to one thread; threads share an             *)
(* AtomicPackedPtr, and set it in loops around one compare-and-swap.          *)
(*                                                                            *)
(* Members that no type can instantiate have no action: set_small where it is *)
(* const, and get_add; nor do some readers exist (see Holds). The code tests  *)
(* the alignment of the pointer, not of what it points to (packed_ptr.hpp:12, *)
(* 59), so that callers may set any address.                                  *)
EXTENDS Integers

CONSTANTS Threads,
          Counts,    \* values of 16 bits
          Smalls,    \* numbers of 3 bits
          Pointers   \* addresses in user space, of 48 bits

Word == SUBSET (0 .. 63)

ASSUME PackedAssumption ==
    /\ Counts \subseteq SUBSET (0 .. 15)
    /\ Smalls \subseteq SUBSET (0 .. 2)
    /\ Pointers \subseteq SUBSET (0 .. 47)

VARIABLES layout,  \* which form of the templates
          data,    \* data_
          doing    \* where each thread is in a loop of an atomic form

packedVars == <<layout, data, doing>>

Shl(w, n) == {b + n : b \in {c \in w : c + n <= 63}}
Shr(w, n) == {b - n : b \in {c \in w : c >= n}}

Low(n)  == 0 .. (n - 1)  \* uintptr_t(-1) >> (64 - n)
High(n) == n .. 63       \* uintptr_t(-1) << n
Not(w)  == (0 .. 63) \ w

-----------------------------------------------------------------------------
(* The layouts: how far a field is shifted, the mask of what goes in, and of  *)
(* what stays when it is set.                                                 *)

Field(shift, mask, keep) == [shift |-> shift, mask |-> mask, keep |-> keep]
Masked(shift, mask) == Field(shift, mask, Not(mask))

Plain == [value |-> Masked(48, High(48)),
          ptr   |-> Masked(0, Not(Low(3) \cup High(48)))]

PlainBool == [value |-> Masked(63, High(63)),
              ptr   |-> Masked(0, Not(Low(3) \cup High(63)))]

\* For an exception, of which get() cannot be instantiated
Exception == [value |-> Masked(48, High(48)),
              ptr   |-> Masked(0, Not(Low(3) \cup High(48)))]

\* The value is where it is read fastest, and the pointer without its low bits.
Exception16 == [value |-> Masked(0, Low(16)),
                small |-> Masked(61, High(61)),
                ptr   |-> Masked(13, Not(Low(16) \cup High(61)))]

ExceptionBool == [value |-> Field(63, High(63), Low(48)),
                  ptr   |-> Field(0, Low(48), High(63))]

Atomic == [value |-> Field(48, High(48), Low(48)),
           ptr   |-> Field(0, Low(48), High(48))]

AtomicBool == [value |-> Field(63, High(63), Low(48)),
               ptr   |-> Field(0, Low(48), High(63))]

Layouts == [plain |-> Plain, plain_bool |-> PlainBool, exception |-> Exception,
            exception16 |-> Exception16, exception_bool |-> ExceptionBool,
            atomic |-> Atomic, atomic_bool |-> AtomicBool]

IsAtomic == layout \in {"atomic", "atomic_bool"}
IsBool == layout \in {"plain_bool", "exception_bool", "atomic_bool"}

IsException == layout \in {"exception", "exception16", "exception_bool"}

\* What callers put in a field. Exceptions are objects of the C++ runtime, which
\* are aligned.
Inputs(f) == CASE f = "ptr"   -> {p \in Pointers : IsException => p \cap Low(3) = {}}
               [] f = "small" -> Smalls
               [] f = "value" -> IF IsBool THEN {{}, {0}} ELSE Counts

\* The word w with v in the field f
With(w, f, v) ==
    LET g == Layouts[layout][f] IN (Shl(v, g.shift) \cap g.mask) \cup (w \cap g.keep)

\* What w holds in the field f, and its reader returns where there is one. value()
\* of the plain, exception and atomic forms, get() of the exception form and
\* small() of all but exception16 are casts that do not compile (21, 30, 76, 115,
\* 124, 134, 259): there it is the bits of the word that the field has.
Holds(w, f) ==
    LET g == Layouts[layout][f] IN Shr(w \cap g.mask, g.shift)

-----------------------------------------------------------------------------
Idle == [at |-> "idle"]
Loop(f, v, expected) == [at |-> "loop", field |-> f, to |-> v, expected |-> expected]

PackedTypeOK ==
    /\ layout \in DOMAIN Layouts
    /\ data \in Word
    /\ \A t \in Threads :
           \/ doing[t] = Idle
           \/ IsAtomic /\ doing[t].field \in DOMAIN Layouts[layout] /\ doing[t].expected \in Word

PackedInit ==
    /\ layout \in DOMAIN Layouts
    /\ data = {}
    /\ doing = [t \in Threads |-> Idle]

\* set_value, set_small and set of the forms that are not atomic
SetPlain(f, v) ==
    /\ ~IsAtomic
    /\ data' = With(data, f, v)
    /\ UNCHANGED <<layout, doing>>

\* set_value and set of the atomic forms: expected = data_.load()
Load(t, f, v) ==
    /\ IsAtomic /\ doing[t] = Idle
    /\ doing' = [doing EXCEPT ![t] = Loop(f, v, data)]
    /\ UNCHANGED <<layout, data>>

\* Mutant. A store in place of the compare-and-swap.
Exchange_mut(t) ==
    /\ doing[t] # Idle
    /\ data' = With(doing[t].expected, doing[t].field, doing[t].to)
    /\ doing' = [doing EXCEPT ![t] = Idle]
    /\ UNCHANGED layout

\* compare_exchange_weak succeeds,
Exchange(t) ==
    /\ doing[t] # Idle /\ doing[t].expected = data
    /\ data' = With(data, doing[t].field, doing[t].to)
    /\ doing' = [doing EXCEPT ![t] = Idle]
    /\ UNCHANGED layout

\* or fails, as it also may for no reason, and loads anew.
Reload(t) ==
    /\ doing[t] # Idle
    /\ doing' = [doing EXCEPT ![t].expected = data]
    /\ UNCHANGED <<layout, data>>

PackedNext ==
    \/ \E f \in DOMAIN Layouts[layout] : \E v \in Inputs(f) :
           SetPlain(f, v) \/ \E t \in Threads : Load(t, f, v)
    \/ \E t \in Threads : Exchange(t) \/ Reload(t)

PackedSpec == PackedInit /\ [][PackedNext]_packedVars

-----------------------------------------------------------------------------
Registers == INSTANCE PackedFields WITH
    Fields <- {"value", "small", "ptr"},
    fields <- [f \in {"value", "small", "ptr"} |->
                   IF f \in DOMAIN Layouts[layout] THEN Holds(data, f) ELSE {}]

\* What a field holds of v: PackedPtr drops the low bits of a pointer, except that
\* of an exception beside a bool; the atomic forms do not.
Kept(f, v) ==
    IF f = "ptr" /\ ~IsAtomic /\ layout # "exception_bool" THEN v \ Low(3) ELSE v

\* Which member of a packed pointer sets which field
FieldSteps ==
    /\ \A f \in DOMAIN Layouts[layout] : \A v \in Inputs(f) :
           /\ SetPlain(f, v) => Registers!Set(f, Kept(f, v))
           /\ \A t \in Threads : Load(t, f, v) => Registers!Nothing
    /\ \A t \in Threads :
           /\ Exchange(t) => Registers!Set(doing[t].field, Kept(doing[t].field, doing[t].to))
           /\ Reload(t) => Registers!Nothing

\* In every layout a field holds what was last put into it, whatever was put
\* into the others, and no thread undoes what another one sets meanwhile; only a
\* pointer in a PackedPtr is without its three low bits, which an object that is
\* not 8-aligned has, as PackedPtr<int> allows (packed_ptr.hpp:23-45, 165-190,
\* 222-237, 261-282, 315-338; packed_ptr_ut.cpp:9-10). What a field holds is read
\* by the members that exist (see Holds).
ImplementsFields == Registers!FieldsInit /\ [][FieldSteps]_packedVars
=============================================================================
