------------------------ MODULE IndependentPartsProofs ------------------------
(* Packed pointers, expected, the overflow tests, intrusive lists and the     *)
(* addresses of sockets keep what they promise, for any pointers, numbers,    *)
(* values, errors, objects, threads, widths, items, sockets and ports.        *)
EXTENDS IndependentParts, FiniteSetTheorems, WellFoundedInduction, TLAPS

-----------------------------------------------------------------------------
(* packed_ptr                                                                 *)

\* In every layout the mask of a field takes what is to be kept of its inputs,
\* the masks of two fields are apart, and setting one keeps the other.
LayoutFits ==
    \A f \in DOMAIN Layouts[layout] :
        /\ f \in {"value", "small", "ptr"}
        /\ Layouts[layout][f].shift \in Nat
        /\ Layouts[layout][f].mask \subseteq 0 .. 63
        /\ Layouts[layout][f].mask \cap Layouts[layout][f].keep = {}
        /\ \A v \in Inputs(f) :
               /\ Kept(f, v) \subseteq v
               /\ \A b \in v : b \in Nat /\ b + Layouts[layout][f].shift <= 63
               /\ \A b \in v :
                      b \in Kept(f, v) <=> b + Layouts[layout][f].shift \in Layouts[layout][f].mask
        /\ \A g \in DOMAIN Layouts[layout] \ {f} :
               /\ Layouts[layout][g].mask \cap Layouts[layout][f].mask = {}
               /\ Layouts[layout][g].mask \subseteq Layouts[layout][f].keep

\* So it is in the seven layouts.
LEMMA LayoutsFit == layout \in DOMAIN Layouts => LayoutFits
  <1> USE PackedAssumption DEF LayoutFits, Inputs, IsBool, IsException, IsAtomic, Kept, Field, Masked, Low, High, Not
  <1>0. layout \in DOMAIN Layouts =>
            layout \in {"plain", "plain_bool", "exception", "exception16",
                        "exception_bool", "atomic", "atomic_bool"}
    BY DEF Layouts
  <1>1. CASE layout = "plain"
    <2>1. Layouts[layout] = Plain
      BY <1>1 DEF Layouts
    <2> QED
      BY <1>1, <2>1 DEF Plain
  <1>2. CASE layout = "plain_bool"
    <2>1. Layouts[layout] = PlainBool
      BY <1>2 DEF Layouts
    <2> QED
      BY <1>2, <2>1 DEF PlainBool
  <1>3. CASE layout = "exception"
    <2>1. Layouts[layout] = Exception
      BY <1>3 DEF Layouts
    <2> QED
      BY <1>3, <2>1 DEF Exception
  <1>4. CASE layout = "exception16"
    <2>1. Layouts[layout] = Exception16
      BY <1>4 DEF Layouts
    <2> QED
      BY <1>4, <2>1 DEF Exception16
  <1>5. CASE layout = "exception_bool"
    <2>1. Layouts[layout] = ExceptionBool
      BY <1>5 DEF Layouts
    <2> QED
      BY <1>5, <2>1 DEF ExceptionBool
  <1>6. CASE layout = "atomic"
    <2>1. Layouts[layout] = Atomic
      BY <1>6 DEF Layouts
    <2> QED
      BY <1>6, <2>1 DEF Atomic
  <1>7. CASE layout = "atomic_bool"
    <2>1. Layouts[layout] = AtomicBool
      BY <1>7 DEF Layouts
    <2> QED
      BY <1>7, <2>1 DEF AtomicBool
  <1> QED
    BY <1>0, <1>1, <1>2, <1>3, <1>4, <1>5, <1>6, <1>7

\* A field that is set holds its new value, and the others what they did.
LEMMA WithHolds ==
    ASSUME layout \in DOMAIN Layouts, NEW w, NEW f \in DOMAIN Layouts[layout], NEW v \in Inputs(f),
           NEW g \in DOMAIN Layouts[layout]
    PROVE  Holds(With(w, f, v), g) = IF g = f THEN Kept(f, v) ELSE Holds(w, g)
  <1> DEFINE F == Layouts[layout][f]
             G == Layouts[layout][g]
  <1> DEFINE k == Kept(f, v)
             n == F.shift
  <1>1. /\ n \in Nat /\ F.mask \subseteq 0 .. 63 /\ F.mask \cap F.keep = {}
        /\ k \subseteq v
        /\ \A b \in v : b \in Nat /\ b + n <= 63 /\ (b \in k <=> b + n \in F.mask)
        /\ g # f => G.mask \cap F.mask = {} /\ G.mask \subseteq F.keep
    <2>1. LayoutFits
      BY LayoutsFit
    <2>2. n \in Nat /\ F.mask \subseteq 0 .. 63 /\ F.mask \cap F.keep = {}
      BY <2>1 DEF LayoutFits
    <2>3. k \subseteq v
      BY <2>1 DEF LayoutFits
    <2>4. \A b \in v : b \in Nat /\ b + n <= 63 /\ (b \in k <=> b + n \in F.mask)
      BY <2>1 DEF LayoutFits
    <2>5. g # f => G.mask \cap F.mask = {} /\ G.mask \subseteq F.keep
      BY <2>1 DEF LayoutFits
    <2> QED
      BY <2>2, <2>3, <2>4, <2>5
  <1>2. With(w, f, v) = (Shl(v, n) \cap F.mask) \cup (w \cap F.keep)
    BY DEF With
  <1>3. Holds(With(w, f, v), f) = k
    <2> HIDE DEF k
    <2>1. Shl(v, n) = {b + n : b \in v}
      BY <1>1 DEF Shl
    <2>2. With(w, f, v) \cap F.mask = {b + n : b \in k}
      <3>1. ASSUME NEW c \in {b + n : b \in v} \cap F.mask PROVE c \in {b + n : b \in k}
        <4>1. PICK b \in v : c = b + n
          BY <3>1
        <4>2. c \in F.mask
          BY <3>1
        <4>3. b \in k
          BY <1>1, <4>1, <4>2
        <4> QED
          BY <4>1, <4>3
      <3>2. ASSUME NEW c \in {b + n : b \in k} PROVE c \in {b + n : b \in v} \cap F.mask
        <4>1. PICK b \in k : c = b + n
          BY <3>2
        <4>2. b \in v
          BY <1>1
        <4>3. b + n \in F.mask
          BY <1>1, <4>2
        <4> QED
          BY <4>1, <4>2, <4>3
      <3>3. {b + n : b \in v} \cap F.mask = {b + n : b \in k}
        BY <3>1, <3>2
      <3> QED
        BY <1>1, <1>2, <2>1, <3>3
    <2>3. \A b \in k : b \in Nat /\ (b + n) - n = b /\ b + n >= n
      BY <1>1
    <2>4. {c \in {b + n : b \in k} : c >= n} = {b + n : b \in k}
      BY <2>3
    <2>5. {c - n : c \in {b + n : b \in k}} = k
      BY <2>3
    <2> QED
      BY <2>2, <2>4, <2>5 DEF Holds, Shr
  <1>4. ASSUME g # f PROVE Holds(With(w, f, v), g) = Holds(w, g)
    <2>1. With(w, f, v) \cap G.mask = w \cap G.mask
      BY <1>1, <1>2, <1>4
    <2> QED
      BY <2>1 DEF Holds
  <1> QED
    BY <1>3, <1>4

\* A thread inside a loop is to set a field that its layout has.
PackedInv ==
    /\ layout \in DOMAIN Layouts
    /\ doing = [t \in Threads |-> doing[t]]
    /\ \A t \in Threads :
           doing[t] # Idle =>
               /\ doing[t] = Loop(doing[t].field, doing[t].to, doing[t].expected)
               /\ doing[t].field \in DOMAIN Layouts[layout]
               /\ doing[t].to \in Inputs(doing[t].field)

\* The fields of the word, before the step and after it
fieldsOf(w) ==
    [f \in {"value", "small", "ptr"} |->
        IF f \in DOMAIN Layouts[layout] THEN Holds(w, f) ELSE {}]

\* Setting a field of the word sets this field, and no other.
LEMMA WithSets ==
    ASSUME layout \in DOMAIN Layouts, NEW w, NEW f \in DOMAIN Layouts[layout], NEW v \in Inputs(f)
    PROVE  fieldsOf(With(w, f, v)) = [fieldsOf(w) EXCEPT ![f] = Kept(f, v)]
  <1>1. f \in {"value", "small", "ptr"}
    BY LayoutsFit DEF LayoutFits
  <1>2. ASSUME NEW g \in {"value", "small", "ptr"}
        PROVE  fieldsOf(With(w, f, v))[g] = [fieldsOf(w) EXCEPT ![f] = Kept(f, v)][g]
    BY <1>1, WithHolds DEF fieldsOf
  <1> QED
    BY <1>2 DEF fieldsOf

\* Each member that sets a field of a packed pointer does that in one step and
\* nothing else, in every layout and whatever the other threads set meanwhile;
\* for any pointers, of which a PackedPtr drops the three low bits
\* (packed_ptr.hpp:23-45, 165-190, 222-237, 261-282, 315-338).
THEOREM PackedImplementsFields == PackedSpec => ImplementsFields
  <1>1. PackedInit => PackedInv /\ Registers!FieldsInit
    <2> SUFFICES ASSUME PackedInit PROVE PackedInv /\ Registers!FieldsInit
      OBVIOUS
    <2>1. PackedInv
      BY DEF PackedInit, PackedInv
    <2>2. \A f : Holds({}, f) = {}
      BY DEF Holds, Shr
    <2> QED
      BY <2>1, <2>2 DEF PackedInit, Registers!FieldsInit
  <1>2. PackedInv /\ [PackedNext]_packedVars => PackedInv'
    <2> SUFFICES ASSUME PackedInv, [PackedNext]_packedVars PROVE PackedInv'
      OBVIOUS
    <2>0. ASSUME layout' = layout PROVE \A f : Inputs(f)' = Inputs(f)
      BY <2>0 DEF Inputs, IsBool, IsException
    <2>1. ASSUME NEW f \in DOMAIN Layouts[layout], NEW v \in Inputs(f), SetPlain(f, v) PROVE PackedInv'
      BY <2>0, <2>1 DEF SetPlain, PackedInv
    <2>2. ASSUME NEW f \in DOMAIN Layouts[layout], NEW v \in Inputs(f), NEW t \in Threads, Load(t, f, v)
          PROVE  PackedInv'
      <3>1. /\ layout' = layout /\ doing' = [doing EXCEPT ![t] = Loop(f, v, data)]
            /\ \A g : Inputs(g)' = Inputs(g)
        BY <2>0, <2>2 DEF Load
      <3>2. doing'[t] = Loop(f, v, data) /\ \A u \in Threads \ {t} : doing'[u] = doing[u]
        BY <3>1 DEF PackedInv
      <3>3. doing' = [u \in Threads |-> doing'[u]]
        BY <3>1 DEF PackedInv
      <3>4. ASSUME NEW u \in Threads, doing'[u] # Idle
            PROVE  /\ doing'[u] = Loop(doing'[u].field, doing'[u].to, doing'[u].expected)
                   /\ doing'[u].field \in DOMAIN Layouts[layout]
                   /\ doing'[u].to \in Inputs(doing'[u].field)
        <4>1. CASE u = t
          BY <3>2, <4>1 DEF Loop
        <4>2. CASE u # t
          BY <3>2, <3>4, <4>2 DEF PackedInv
        <4> QED
          BY <4>1, <4>2
      <3> QED
        BY <3>1, <3>3, <3>4 DEF PackedInv
    <2>3. ASSUME NEW t \in Threads, Exchange(t) PROVE PackedInv'
      BY <2>0, <2>3 DEF Exchange, PackedInv
    <2>4. ASSUME NEW t \in Threads, Reload(t) PROVE PackedInv'
      <3>1. /\ layout' = layout /\ doing' = [doing EXCEPT ![t].expected = data]
            /\ doing[t] # Idle /\ \A g : Inputs(g)' = Inputs(g)
        BY <2>0, <2>4 DEF Reload
      <3>2. /\ doing'[t] = Loop(doing[t].field, doing[t].to, data)
            /\ \A u \in Threads \ {t} : doing'[u] = doing[u]
        BY <3>1 DEF PackedInv, Loop
      <3>3. doing' = [u \in Threads |-> doing'[u]]
        BY <3>1 DEF PackedInv
      <3>4. ASSUME NEW u \in Threads, doing'[u] # Idle
            PROVE  /\ doing'[u] = Loop(doing'[u].field, doing'[u].to, doing'[u].expected)
                   /\ doing'[u].field \in DOMAIN Layouts[layout]
                   /\ doing'[u].to \in Inputs(doing'[u].field)
        <4>1. CASE u = t
          <5>1. /\ doing'[u].field = doing[t].field /\ doing'[u].to = doing[t].to
                /\ doing'[u].expected = data
            BY <3>2, <4>1 DEF Loop
          <5> QED
            BY <3>1, <3>2, <4>1, <5>1 DEF PackedInv
        <4>2. CASE u # t
          BY <3>2, <3>4, <4>2 DEF PackedInv
        <4> QED
          BY <4>1, <4>2
      <3> QED
        BY <3>1, <3>3, <3>4 DEF PackedInv
    <2>5. CASE UNCHANGED packedVars
      BY <2>0, <2>5 DEF packedVars, PackedInv
    <2> QED
      BY <2>1, <2>2, <2>3, <2>4, <2>5 DEF PackedNext
  <1>3. ASSUME PackedInv, NEW f \in DOMAIN Layouts[layout], NEW v \in Inputs(f), SetPlain(f, v)
        PROVE  Registers!Set(f, Kept(f, v))
    <2>1. data' = With(data, f, v) /\ layout' = layout
      BY <1>3 DEF SetPlain
    <2>2. fieldsOf(data') = [fieldsOf(data) EXCEPT ![f] = Kept(f, v)]
      BY <1>3, <2>1, WithSets DEF PackedInv
    <2> QED
      BY <2>1, <2>2 DEF Registers!Set, fieldsOf, Holds
  <1>4. ASSUME UNCHANGED <<layout, data>> PROVE Registers!Nothing
    BY <1>4 DEF Registers!Nothing, Holds
  <1>5. ASSUME PackedInv, NEW t \in Threads, Exchange(t) PROVE Registers!Set(doing[t].field, Kept(doing[t].field, doing[t].to))
    <2>1. /\ data' = With(data, doing[t].field, doing[t].to) /\ layout' = layout
          /\ doing[t].field \in DOMAIN Layouts[layout] /\ doing[t].to \in Inputs(doing[t].field)
      BY <1>5 DEF Exchange, PackedInv
    <2>2. fieldsOf(data') = [fieldsOf(data) EXCEPT ![doing[t].field] =
                                               Kept(doing[t].field, doing[t].to)]
      BY <1>5, <2>1, WithSets DEF PackedInv
    <2> QED
      BY <2>1, <2>2 DEF Registers!Set, fieldsOf, Holds
  <1>6. /\ \A f, v : \A t \in Threads : Load(t, f, v) => Registers!Nothing
        /\ \A t \in Threads : Reload(t) => Registers!Nothing
    BY <1>4 DEF Load, Reload
  <1>7. PackedInv => FieldSteps
    BY <1>3, <1>5, <1>6 DEF FieldSteps
  <1> QED
    BY <1>1, <1>2, <1>7, PTL DEF PackedSpec, ImplementsFields

-----------------------------------------------------------------------------
(* expected                                                                   *)

\* An object that is, or is not there
States == [contains : Tags \cup {"none"}, storage : Payloads \cup {Raw}]

\* What an access returns or throws
Answers ==
    [kind : {"none", "nothing", "value", "error", "thrown", "logic_error"},
     of : Values \cup Errors \cup {Moved}]

\* The invariant of expected, told by object: one that failed once is one that
\* lives.
ExpectedInv ==
    /\ T \in {"object", "reference", "void"}
    /\ objects \in [Objects -> States]
    /\ \A x \in Objects : IF x \in failed THEN objects[x].contains # "none" ELSE Tells(objects[x])
    /\ failed \subseteq Objects
    /\ got \in Answers
    /\ lost \subseteq {Is("value", Moved)}

\* A value or an error is told by its kind, and stays of it when it is moved from.
LEMMA PayloadFacts ==
    /\ \A p \in Payloads : /\ p = Is(p.kind, p.of) /\ p.kind \in {"value", "error"}
                           /\ p.of \in Values \cup Errors \cup {Moved}
                           /\ p # Raw /\ Is(p.kind, Moved) \in Payloads
    /\ Is("value", Moved) \in Payloads /\ Is("error", Moved) \in Payloads
  <1>1. Is("value", Moved) \in Payloads /\ Is("error", Moved) \in Payloads
    BY DEF Payloads
  <1>2. ASSUME NEW p \in Payloads
        PROVE  /\ p = Is(p.kind, p.of) /\ p.kind \in {"value", "error"}
               /\ p.of \in Values \cup Errors \cup {Moved}
    <2>1. CASE \E v \in Values \cup {Moved} : p = Is("value", v)
      BY <2>1 DEF Is
    <2>2. CASE \E e \in Errors \cup {Moved} : p = Is("error", e)
      BY <2>2 DEF Is
    <2> QED
      BY <2>1, <2>2 DEF Payloads
  <1>3. Raw.kind = "raw"
    BY DEF Raw, Is
  <1> QED
    BY <1>1, <1>2, <1>3

\* What the constructors, the destructor and the assignments make of a union
LEMMA UnionFacts ==
    ASSUME NEW o \in States, o.contains # "none", Tells(o)
    PROVE  /\ destroy(o) \in States
           /\ destroy(o).contains = "NOTHING" /\ Tells(destroy(o))
           /\ Overwritten(destroy(o)) \subseteq {Is("value", Moved)}
           /\ MovedFrom(o) \in States /\ Tells(MovedFrom(o)) /\ MovedFrom(o).contains = o.contains
           /\ o.contains # "NOTHING" => MovedFrom(o).storage \in {o.storage, Is(o.storage.kind, Moved)}
           /\ \A d \in States : d = Dead \/ (d = destroy(d) /\ Tells(d)) =>
                  /\ Filled(d, o) \in States /\ Tells(Filled(d, o))
                  /\ Filled(d, o).contains = o.contains
                  /\ o.contains # "NOTHING" => Filled(d, o).storage = o.storage
  <1> USE PayloadFacts
  <1>1. /\ destroy(o) \in States
        /\ destroy(o).contains = "NOTHING" /\ Tells(destroy(o))
    <2>1. CASE o.contains = "NOTHING" \/ IsPointer(o.storage)
      <3>1. destroy(o) = [contains |-> "NOTHING", storage |-> o.storage]
        BY <2>1 DEF destroy
      <3> QED
        BY <2>1, <3>1 DEF States, Tags, Tells
    <2>2. CASE ~(o.contains = "NOTHING" \/ IsPointer(o.storage))
      <3>1. destroy(o) = [contains |-> "NOTHING", storage |-> Raw]
        BY <2>2 DEF destroy
      <3> QED
        BY <3>1 DEF States, Tags, Tells
    <2> QED
      BY <2>1, <2>2
  <1>2. Overwritten(destroy(o)) \subseteq {Is("value", Moved)}
    BY DEF States, destroy, Tells, Overwritten
  <1>3. /\ MovedFrom(o) \in States /\ Tells(MovedFrom(o)) /\ MovedFrom(o).contains = o.contains
        /\ o.contains # "NOTHING" => MovedFrom(o).storage \in {o.storage, Is(o.storage.kind, Moved)}
    <2>1. CASE o.contains = "NOTHING" \/ IsPointer(o.storage)
      BY <2>1 DEF MovedFrom
    <2>2. CASE ~(o.contains = "NOTHING" \/ IsPointer(o.storage))
      <3>1. o.storage \in Payloads
        BY <2>2 DEF States, Tells, Raw, Is
      <3>2. MovedFrom(o) = [contains |-> o.contains, storage |-> Is(o.storage.kind, Moved)]
        BY <2>2 DEF MovedFrom, States
      <3> QED
        BY <2>2, <3>1, <3>2 DEF States, Tells, Is
    <2> QED
      BY <2>1, <2>2
  <1>4. ASSUME NEW d \in States, d = Dead \/ (d = destroy(d) /\ Tells(d))
        PROVE  /\ Filled(d, o) \in States /\ Tells(Filled(d, o))
               /\ Filled(d, o).contains = o.contains
               /\ o.contains # "NOTHING" => Filled(d, o).storage = o.storage
    <2>1. d.storage = Raw \/ (d.contains = "NOTHING" /\ Tells(d))
      BY <1>4 DEF Dead, destroy
    <2> QED
      BY <2>1 DEF Filled, States, Tells
  <1> QED
    BY <1>1, <1>2, <1>3, <1>4

\* What a step does that gives objects x and y the states o and p
LEMMA StepByObject ==
    ASSUME ExpectedInv, NEW x \in Objects, NEW y \in Objects, NEW o \in States, NEW p \in States,
           objects' = [objects EXCEPT ![x] = o, ![y] = p], T' = T, got' \in Answers,
           lost' \subseteq {Is("value", Moved)},
           failed' = failed, x \notin failed, y \notin failed, Tells(o), Tells(p)
    PROVE  ExpectedInv'
  <1>1. \A z \in Objects : objects'[z] = (IF z = y THEN p ELSE IF z = x THEN o ELSE objects[z])
    BY DEF ExpectedInv
  <1>2. objects' \in [Objects -> States]
    BY DEF ExpectedInv
  <1>3. \A z : Tells(z)' <=> Tells(z)
    BY DEF Tells, IsPointer
  <1>4. ASSUME NEW z \in Objects
        PROVE  IF z \in failed' THEN objects'[z].contains # "none" ELSE Tells(objects'[z])
    BY <1>1 DEF ExpectedInv
  <1>5. \A z \in Objects : IF z \in failed' THEN objects'[z].contains # "none" ELSE Tells(objects[z])'
    <2>1. \A z \in Objects : Tells(objects'[z]) <=> Tells(objects[z])'
      BY DEF Tells, IsPointer
    <2> QED
      BY <1>4, <2>1
  <1> QED
    BY <1>2, <1>5 DEF ExpectedInv

\* A step that gives only x another state
LEMMA StepOfOne ==
    ASSUME ExpectedInv, NEW x \in Objects, NEW o \in States, Tells(o), x \notin failed,
           objects' = [objects EXCEPT ![x] = o], UNCHANGED <<T, failed>>, got' \in Answers,
           lost' \subseteq {Is("value", Moved)}
    PROVE  ExpectedInv'
  <1>1. objects' = [objects EXCEPT ![x] = o, ![x] = o]
    BY DEF ExpectedInv
  <1> QED
    BY <1>1, StepByObject

\* Every operation, of whichever form
LEMMA ExpectedOperations ==
    ExpectedNext =>
        \E x \in Objects :
            \/ Default(x) \/ FromValue(x) \/ FromError(x) \/ Destruct(x) \/ TakeValue(x)
            \/ \E k \in {"EXPECTED", "UNEXPECTED", "NOTHING"} : Get(x, k)
            \/ \E y \in Objects : \/ MoveConstruct(x, y) \/ CopyConstruct(x, y)
                                  \/ MoveAssign(x, y) \/ CopyAssign(x, y)
  BY DEF ExpectedNext, ObjectStep, ReferenceStep, VoidStep

\* An object that is used is there, and its tag tells of it; one that is not
\* there holds nothing.
LEMMA UsedObjects ==
    ASSUME ExpectedInv, NEW x \in Objects
    PROVE  /\ objects[x] \in States
           /\ Usable(x) => objects[x].contains # "none" /\ Tells(objects[x]) /\ x \notin failed
           /\ Unborn(x) => objects[x] = Dead /\ x \notin failed
  <1>1. objects[x] \in States
    BY DEF ExpectedInv
  <1>2. Usable(x) => objects[x].contains # "none" /\ Tells(objects[x]) /\ x \notin failed
    BY DEF ExpectedInv, Usable, Unborn
  <1>3. ASSUME Unborn(x) PROVE objects[x] = Dead /\ x \notin failed
    <2>1. objects[x].contains = "none" /\ objects[x].storage = Raw /\ x \notin failed
      BY <1>3 DEF ExpectedInv, Unborn, Tells
    <2> QED
      BY <1>1, <2>1 DEF States, Dead
  <1> QED
    BY <1>1, <1>2, <1>3

\* The operations that make, destroy or hand out an object
LEMMA AloneKeepsInv ==
    ASSUME ExpectedInv, NEW x \in Objects,
           \/ Default(x) \/ FromValue(x) \/ FromError(x) \/ Destruct(x) \/ TakeValue(x)
           \/ \E k \in {"EXPECTED", "UNEXPECTED", "NOTHING"} : Get(x, k)
    PROVE  ExpectedInv'
  <1>0. Dead \in States /\ Tells(Dead)
    BY DEF Dead, States, Tells
  <1>1. CASE Default(x)
    <2>1. objects[x] = Dead /\ x \notin failed
      BY <1>1, UsedObjects DEF Default
    <2>2. objects' = [objects EXCEPT ![x] = [contains |-> "NOTHING", storage |-> Raw]]
      <3>1. [Dead EXCEPT !.contains = "NOTHING"] = [contains |-> "NOTHING", storage |-> Raw]
        BY DEF Dead
      <3>2. objects' = [objects EXCEPT ![x] = [objects[x] EXCEPT !.contains = "NOTHING"]]
        BY <1>1 DEF Default
      <3> QED
        BY <2>1, <3>1, <3>2
    <2>3. [contains |-> "NOTHING", storage |-> Raw] \in States /\ Tells([contains |-> "NOTHING", storage |-> Raw])
      BY DEF States, Tells, Tags
    <2>4. UNCHANGED <<T, failed>> /\ got' \in Answers /\ lost' \subseteq {Is("value", Moved)}
      BY <1>1 DEF Default, ExpectedInv
    <2> QED
      BY <2>1, <2>2, <2>3, <2>4, StepOfOne
  <1>2. ASSUME NEW c \in Payloads, Construct(x, c) PROVE ExpectedInv'
    <2>1. objects[x] = Dead /\ x \notin failed
      BY <1>2, UsedObjects DEF Construct
    <2>2. objects' = [objects EXCEPT ![x] = [contains |-> Tag(c), storage |-> c]]
      BY <1>2 DEF Construct
    <2>3. [contains |-> Tag(c), storage |-> c] \in States /\ Tells([contains |-> Tag(c), storage |-> c])
      BY PayloadFacts DEF States, Tells, Tags, Tag
    <2>4. UNCHANGED <<T, failed>> /\ got' \in Answers /\ lost' \subseteq {Is("value", Moved)}
      BY <1>2 DEF Construct, ExpectedInv
    <2> QED
      BY <2>1, <2>2, <2>3, <2>4, StepOfOne
  <1>3. CASE FromValue(x) \/ FromError(x)
    <2>1. PICK c \in Payloads : Construct(x, c)
      BY <1>3 DEF FromValue, FromError, Payloads
    <2> QED
      BY <1>2, <2>1
  <1>4. CASE Destruct(x)
    <2>1. objects[x] \in States /\ objects[x].contains # "none" /\ Tells(objects[x]) /\ x \notin failed
      BY <1>4, UsedObjects DEF Destruct
    <2>2. Overwritten(destroy(objects[x])) \subseteq {Is("value", Moved)}
      BY <2>1, UnionFacts
    <2>3. /\ objects' = [objects EXCEPT ![x] = Dead] /\ UNCHANGED <<T, failed>> /\ got' = got
          /\ lost' = lost \cup Overwritten(destroy(objects[x]))
      BY <1>4 DEF Destruct
    <2> QED
      BY <1>0, <2>1, <2>2, <2>3, StepOfOne DEF ExpectedInv
  <1>5. ASSUME NEW k \in {"EXPECTED", "UNEXPECTED", "NOTHING"}, Usable(x)
        PROVE  Enforced(objects[x], k) \in Answers
    <2>1. objects[x] \in States /\ objects[x].contains # "none" /\ Tells(objects[x])
      BY <1>5, UsedObjects
    <2>2. objects[x].contains \in {"EXPECTED", "UNEXPECTED"} =>
              /\ objects[x].storage \in Payloads
              /\ objects[x].storage = Is(objects[x].storage.kind, objects[x].storage.of)
              /\ objects[x].storage.kind \in {"value", "error"}
              /\ objects[x].storage.of \in Values \cup Errors \cup {Moved}
      BY <2>1, PayloadFacts DEF States, Tells, Raw, Is
    <2> QED
      BY <2>2 DEF Enforced, Is, Answers
  <1>6. ASSUME NEW k \in {"EXPECTED", "UNEXPECTED", "NOTHING"}, Get(x, k) PROVE ExpectedInv'
    <2>1. got' = Enforced(objects[x], k) /\ Usable(x) /\ UNCHANGED <<T, objects, failed, lost>>
      BY <1>6 DEF Get
    <2> QED
      BY <1>5, <2>1 DEF ExpectedInv, Tells, IsPointer
  <1>7. CASE TakeValue(x)
    <2>1. /\ got' = Enforced(objects[x], "EXPECTED") /\ Usable(x) /\ UNCHANGED <<T, failed, lost>>
          /\ objects' = [objects EXCEPT ![x] = objects'[x]]
          /\ objects'[x] = IF objects[x].contains # "EXPECTED" THEN objects[x]
                           ELSE [MovedFrom(objects[x]) EXCEPT !.contains = "NOTHING"]
      BY <1>7 DEF TakeValue, ExpectedInv
    <2>2. objects[x] \in States /\ objects[x].contains # "none" /\ Tells(objects[x]) /\ x \notin failed
      BY <2>1, UsedObjects
    <2> DEFINE m == MovedFrom(objects[x])
               o == [contains |-> "NOTHING", storage |-> m.storage]
    <2>3. m \in States /\ Tells(m) /\ m.contains = objects[x].contains
      BY <2>2, UnionFacts
    <2>4. CASE objects[x].contains = "EXPECTED"
      <3>1. IsPointer(m.storage) \/ m.storage = Is("value", Moved)
        BY <2>2, <2>4 DEF MovedFrom, Tells
      <3>2. o \in States /\ Tells(o)
        BY <2>3, <3>1 DEF States, Tells, Tags
      <3>3. [m EXCEPT !.contains = "NOTHING"] = o
        BY <2>3 DEF States
      <3>4. objects' = [objects EXCEPT ![x] = o]
        BY <2>1, <2>4, <3>3
      <3>5. got' \in Answers /\ UNCHANGED <<T, failed>> /\ lost' \subseteq {Is("value", Moved)}
        BY <1>5, <2>1 DEF ExpectedInv
      <3> HIDE DEF o
      <3> QED
        BY <2>2, <3>2, <3>4, <3>5, StepOfOne
    <2>5. CASE objects[x].contains # "EXPECTED"
      <3>1. objects' = [objects EXCEPT ![x] = objects[x]]
        BY <2>1, <2>5
      <3>2. got' \in Answers /\ UNCHANGED <<T, failed>> /\ lost' \subseteq {Is("value", Moved)}
        BY <1>5, <2>1 DEF ExpectedInv
      <3> QED
        BY <2>2, <3>1, <3>2, StepOfOne
    <2> QED
      BY <2>4, <2>5
  <1> QED
    BY <1>1, <1>3, <1>4, <1>6, <1>7

\* What is left of an object that another one is made of, or assigned
LEMMA TakenFrom ==
    ASSUME ExpectedInv, NEW x \in Objects, NEW y \in Objects, Usable(y),
           NEW d \in States,
           \/ Unborn(x) /\ d = Dead
           \/ Usable(x) /\ x # y /\ d = destroy(objects[x])
    PROVE  /\ x # y /\ x \notin failed /\ y \notin failed
           /\ Filled(d, objects[y]) \in States /\ Tells(Filled(d, objects[y]))
           /\ MovedFrom(objects[y]) \in States /\ Tells(MovedFrom(objects[y]))
           /\ objects[y] \in States /\ Tells(objects[y])
  <1>1. /\ objects[y] \in States /\ objects[y].contains # "none" /\ Tells(objects[y]) /\ y \notin failed
        /\ x \notin failed /\ x # y
    BY UsedObjects DEF Usable, Unborn
  <1>2. d = Dead \/ (d = destroy(d) /\ Tells(d))
    <2>1. CASE Usable(x) /\ x # y /\ d = destroy(objects[x])
      <3>1. objects[x] \in States /\ objects[x].contains # "none" /\ Tells(objects[x])
        BY <2>1, UsedObjects
      <3>2. d.contains = "NOTHING" /\ Tells(d)
        BY <2>1, <3>1, UnionFacts
      <3>3. d = [contains |-> d.contains, storage |-> d.storage]
        BY DEF States
      <3>4. destroy(d) = d
        BY <3>2, <3>3 DEF destroy
      <3> QED
        BY <3>2, <3>4
    <2>2. CASE Unborn(x) /\ d = Dead
      BY <2>2
    <2> QED
      BY <2>1, <2>2
  <1>3. /\ Filled(d, objects[y]) \in States /\ Tells(Filled(d, objects[y]))
        /\ MovedFrom(objects[y]) \in States /\ Tells(MovedFrom(objects[y]))
    BY <1>1, <1>2, UnionFacts
  <1> QED
    BY <1>1, <1>3

\* The operations that make an object of another one, or assign it
LEMMA PairKeepsInv ==
    ASSUME ExpectedInv, NEW x \in Objects, NEW y \in Objects,
           MoveConstruct(x, y) \/ CopyConstruct(x, y) \/ MoveAssign(x, y) \/ CopyAssign(x, y)
    PROVE  ExpectedInv'
  <1>1. ASSUME NEW d \in States, Usable(y), T' = T, failed' = failed, got' = got,
               lost' \subseteq {Is("value", Moved)},
               \/ Unborn(x) /\ d = Dead
               \/ Usable(x) /\ x # y /\ d = destroy(objects[x]),
               \/ objects' = [objects EXCEPT ![x] = Filled(d, objects[y]), ![y] = MovedFrom(objects[y])]
               \/ objects' = [objects EXCEPT ![x] = Filled(d, objects[y])]
        PROVE  ExpectedInv'
    <2>1. /\ x # y /\ x \notin failed /\ y \notin failed
          /\ Filled(d, objects[y]) \in States /\ Tells(Filled(d, objects[y]))
          /\ MovedFrom(objects[y]) \in States /\ Tells(MovedFrom(objects[y]))
      BY <1>1, TakenFrom
    <2>2. got' \in Answers
      BY <1>1 DEF ExpectedInv
    <2>3. CASE objects' = [objects EXCEPT ![x] = Filled(d, objects[y]), ![y] = MovedFrom(objects[y])]
      BY <1>1, <2>1, <2>2, <2>3, StepByObject
    <2>4. CASE objects' = [objects EXCEPT ![x] = Filled(d, objects[y])]
      BY <1>1, <2>1, <2>2, <2>4, StepOfOne
    <2> QED
      BY <1>1, <2>3, <2>4
  <1>2. Dead \in States
    BY DEF Dead, States
  <1>3. ASSUME Usable(x)
        PROVE  /\ destroy(objects[x]) \in States
               /\ Overwritten(destroy(objects[x])) \subseteq {Is("value", Moved)}
    <2>1. objects[x] \in States /\ objects[x].contains # "none" /\ Tells(objects[x])
      BY <1>3, UsedObjects
    <2> QED
      BY <2>1, UnionFacts
  <1>4. ASSUME Usable(x), Replaces(x, y) PROVE lost' \subseteq {Is("value", Moved)}
    BY <1>3, <1>4 DEF Replaces, ExpectedInv
  <1>5. CASE MoveConstruct(x, y)
    <2>1. /\ Unborn(x) /\ Usable(y) /\ UNCHANGED <<T, failed, got, lost>>
          /\ objects' = [objects EXCEPT ![x] = Filled(Dead, objects[y]), ![y] = MovedFrom(objects[y])]
      BY <1>5, UsedObjects DEF MoveConstruct, Usable
    <2> QED
      BY <1>1, <1>2, <2>1 DEF ExpectedInv
  <1>6. CASE CopyConstruct(x, y)
    BY <1>1, <1>2, <1>6 DEF CopyConstruct, ExpectedInv
  <1>7. ASSUME x = y, UNCHANGED expectedVars PROVE ExpectedInv'
    BY <1>7 DEF expectedVars, ExpectedInv, Tells, IsPointer
  <1>8. ASSUME Usable(x), Usable(y), x # y, Replaces(x, y), Throws(x, y) PROVE ExpectedInv'
    <2> DEFINE o == [contains |-> "EXPECTED", storage |-> Raw]
    <2>1. o \in States /\ o.contains # "none"
      BY DEF States, Tags
    <2>2. /\ objects' = [objects EXCEPT ![x] = o] /\ failed' = failed \cup {x}
          /\ T' = T /\ got' \in Answers
      BY <1>8 DEF Throws, ExpectedInv
    <2> HIDE DEF o
    <2>3. objects' \in [Objects -> States]
      BY <2>1, <2>2 DEF ExpectedInv
    <2>4. \A z \in Objects : IF z \in failed' THEN objects'[z].contains # "none" ELSE Tells(objects[z])'
      BY <2>1, <2>2 DEF ExpectedInv, Tells, IsPointer
    <2>5. lost' \subseteq {Is("value", Moved)}
      BY <1>4, <1>8
    <2> QED
      BY <2>2, <2>3, <2>4, <2>5 DEF ExpectedInv
  <1>9. CASE MoveAssign(x, y)
    <2>1. CASE /\ Usable(x) /\ Usable(y) /\ x # y /\ Replaces(x, y) /\ UNCHANGED <<T, failed, got>>
               /\ objects' = [objects EXCEPT ![x] = Filled(destroy(objects[x]), objects[y]),
                                            ![y] = MovedFrom(objects[y])]
      BY <1>1, <1>3, <1>4, <2>1
    <2> QED
      BY <1>7, <1>8, <1>9, <2>1 DEF MoveAssign
  <1>10. CASE CopyAssign(x, y)
    <2>1. CASE /\ Usable(x) /\ Usable(y) /\ x # y /\ Replaces(x, y) /\ UNCHANGED <<T, failed, got>>
               /\ objects' = [objects EXCEPT ![x] = Filled(destroy(objects[x]), objects[y])]
      BY <1>1, <1>3, <1>4, <2>1
    <2> QED
      BY <1>7, <1>8, <1>10, <2>1 DEF CopyAssign
  <1> QED
    BY <1>5, <1>6, <1>9, <1>10

\* Before the first object there is none, and nothing to lose.
THEOREM ExpectedInvHolds == ExpectedSpec => []ExpectedInv
  <1>1. ExpectedInit => ExpectedInv
    <2>1. Dead \in States /\ Tells(Dead)
      BY DEF Dead, States, Tells
    <2> QED
      BY <2>1 DEF ExpectedInit, ExpectedInv, Answers, Is
  <1>2. ExpectedInv /\ [ExpectedNext]_expectedVars => ExpectedInv'
    <2> SUFFICES ASSUME ExpectedInv, [ExpectedNext]_expectedVars PROVE ExpectedInv'
      OBVIOUS
    <2>1. CASE UNCHANGED expectedVars
      BY <2>1 DEF expectedVars, ExpectedInv, Tells, IsPointer
    <2>2. CASE ExpectedNext
      BY <2>2, ExpectedOperations, AloneKeepsInv, PairKeepsInv
    <2> QED
      BY <2>1, <2>2
  <1> QED
    BY <1>1, <1>2, PTL DEF ExpectedSpec

\* The tag of an expected tells what is in its union, through every sequence of
\* operations on any objects (expected.hpp:74-126, 143-148).
THEOREM TagTellsHolds == ExpectedSpec => []TagTells
  <1>1. ExpectedInv => TagTells
    BY DEF ExpectedInv, TagTells
  <1> QED
    BY <1>1, ExpectedInvHolds, PTL

\* What an object that is there means: its payload, or nothing
LEMMA MeaningFacts ==
    ASSUME ExpectedInv, NEW x \in Objects
    PROVE  /\ Unborn(x) => contentBar[x] = Meaning!NoObject
           /\ Usable(x) =>
                  /\ objects[x].contains = "NOTHING" => contentBar[x] = Meaning!Nothing
                  /\ objects[x].contains # "NOTHING" =>
                         /\ contentBar[x] = objects[x].storage
                         /\ contentBar[x] \in Payloads
                         /\ objects[x].contains = Tag(objects[x].storage)
                         /\ objects[x].contains \in {"EXPECTED", "UNEXPECTED"}
                  /\ Meaning!Usable(x)
  <1>1. /\ objects[x] \in States
        /\ Usable(x) => objects[x].contains # "none" /\ Tells(objects[x]) /\ x \notin failed
        /\ Unborn(x) => x \notin failed /\ objects[x].contains = "none"
    BY UsedObjects DEF Unborn
  <1>2. Unborn(x) => contentBar[x] = Meaning!NoObject
    BY <1>1 DEF contentBar, MeaningOf, Meaning!NoObject, Meaning!Is, Is
  <1>3. ASSUME Usable(x), objects[x].contains = "NOTHING"
        PROVE  contentBar[x] = Meaning!Nothing /\ Meaning!Usable(x)
    <2>1. contentBar[x] = Meaning!Nothing
      BY <1>1, <1>3 DEF contentBar, MeaningOf, Meaning!Nothing, Meaning!Is, Is
    <2> QED
      BY <2>1 DEF Meaning!Usable, Meaning!Nothing, Meaning!NoObject, Meaning!Indeterminate, Meaning!Is
  <1>4. ASSUME Usable(x), objects[x].contains # "NOTHING"
        PROVE  /\ contentBar[x] = objects[x].storage /\ contentBar[x] \in Payloads
               /\ objects[x].contains = Tag(objects[x].storage)
               /\ objects[x].contains \in {"EXPECTED", "UNEXPECTED"}
               /\ Meaning!Usable(x)
    <2>1. contentBar[x] = objects[x].storage
      BY <1>1, <1>4 DEF contentBar, MeaningOf
    <2>2. \/ objects[x].contains = "EXPECTED" /\ objects[x].storage.kind = "value"
          \/ objects[x].contains = "UNEXPECTED" /\ objects[x].storage.kind = "error"
      BY <1>1, <1>4 DEF Tells
    <2>3. objects[x].storage \in Payloads
      BY <1>1, <2>2 DEF States, Raw, Is
    <2>4. Meaning!Usable(x)
      BY <2>1, <2>2 DEF Meaning!Usable, Meaning!NoObject, Meaning!Indeterminate, Meaning!Is
    <2> QED
      BY <2>1, <2>2, <2>3, <2>4 DEF Tag
  <1> QED
    BY <1>2, <1>3, <1>4

\* A step that gives objects new states gives them their meanings.
LEMMA MeaningOfStep ==
    ASSUME ExpectedInv, NEW x \in Objects, NEW y \in Objects, NEW o \in States, NEW p \in States,
           \A z \in Objects : objects'[z] = IF z = y THEN p ELSE IF z = x THEN o ELSE objects[z],
           failed' = failed, x \notin failed, y \notin failed
    PROVE  contentBar' = [z \in Objects |-> IF z = y THEN MeaningOf(p)
                                            ELSE IF z = x THEN MeaningOf(o) ELSE contentBar[z]]
  <1>1. \A z \in Objects : objects'[z] = (IF z = y THEN p ELSE IF z = x THEN o ELSE objects[z])
    OBVIOUS
  <1>2. contentBar' = [z \in Objects |-> IF z \in failed THEN Is("indeterminate", Moved)
                                         ELSE MeaningOf(objects'[z])]
    BY DEF contentBar, MeaningOf
  <1>3. ASSUME NEW z \in Objects
        PROVE  contentBar'[z] = IF z = y THEN MeaningOf(p) ELSE IF z = x THEN MeaningOf(o) ELSE contentBar[z]
    <2>1. CASE z = x \/ z = y
      <3>1. contentBar'[z] = MeaningOf(objects'[z])
        BY <1>2, <2>1
      <3>2. objects'[z] = IF z = y THEN p ELSE o
        BY <1>1, <2>1
      <3> QED
        BY <2>1, <3>1, <3>2
    <2>2. CASE z # x /\ z # y
      <3>1. objects'[z] = objects[z]
        BY <1>1, <2>2
      <3> QED
        BY <1>2, <2>2, <3>1 DEF contentBar
    <2> QED
      BY <2>1, <2>2
  <1>4. contentBar' = [z \in Objects |-> contentBar'[z]]
    BY <1>2
  <1> QED
    BY <1>3, <1>4 DEF contentBar

\* The same, when only x gets a new state
LEMMA MeaningOfOne ==
    ASSUME ExpectedInv, NEW x \in Objects, NEW o \in States,
           objects' = [objects EXCEPT ![x] = o], failed' = failed, x \notin failed
    PROVE  contentBar' = [contentBar EXCEPT ![x] = MeaningOf(o)]
  <1>1. \A z \in Objects : objects'[z] = (IF z = x THEN o ELSE objects[z])
    BY DEF ExpectedInv
  <1>2. contentBar' = [z \in Objects |-> IF z \in failed THEN Is("indeterminate", Moved)
                                         ELSE MeaningOf(objects'[z])]
    BY DEF contentBar, MeaningOf
  <1> QED
    BY <1>1, <1>2 DEF contentBar

\* What is made of an object, or assigned from it, means what it meant, and what
\* is left of it too, or a husk.
LEMMA MeaningOfTaken ==
    ASSUME ExpectedInv, NEW x \in Objects, NEW y \in Objects, Usable(y), NEW d \in States
    PROVE  /\ MeaningOf(Filled(d, objects[y])) = contentBar[y]
           /\ \E c \in {contentBar[y].of, Moved} :
                  MeaningOf(MovedFrom(objects[y])) = [contentBar[y] EXCEPT !.of = c]
  <1>1. objects[y] \in States /\ objects[y].contains # "none" /\ Tells(objects[y])
    BY UsedObjects
  <1>2. CASE objects[y].contains = "NOTHING"
    <2>1. contentBar[y] = Is("nothing", Moved)
      BY <1>2, MeaningFacts DEF Meaning!Nothing, Meaning!Is, Is
    <2>2. MovedFrom(objects[y]) = objects[y] /\ MeaningOf(objects[y]) = Is("nothing", Moved)
      BY <1>1, <1>2 DEF MovedFrom, MeaningOf
    <2>3. MeaningOf(Filled(d, objects[y])) = Is("nothing", Moved)
      BY <1>2 DEF Filled, MeaningOf
    <2>4. Is("nothing", Moved) = [Is("nothing", Moved) EXCEPT !.of = Moved]
      BY DEF Is
    <2> QED
      BY <2>1, <2>2, <2>3, <2>4
  <1>3. CASE objects[y].contains # "NOTHING"
    <2>1. /\ contentBar[y] = objects[y].storage /\ contentBar[y] \in Payloads
          /\ contentBar[y] = Is(contentBar[y].kind, contentBar[y].of)
      BY <1>3, MeaningFacts, PayloadFacts
    <2>2. MeaningOf(Filled(d, objects[y])) = contentBar[y]
      BY <1>1, <1>3, <2>1 DEF Filled, MeaningOf
    <2>3. MeaningOf(MovedFrom(objects[y])) \in {contentBar[y], Is(contentBar[y].kind, Moved)}
      BY <1>1, <1>3, <2>1, UnionFacts DEF MeaningOf
    <2>4. ASSUME NEW k, NEW v, NEW c PROVE [Is(k, v) EXCEPT !.of = c] = Is(k, c)
      BY DEF Is
    <2>5. \A c : [contentBar[y] EXCEPT !.of = c] = Is(contentBar[y].kind, c)
      BY <2>1, <2>4
    <2> QED
      BY <2>1, <2>2, <2>3, <2>5
  <1> QED
    BY <1>2, <1>3

\* An access returns or throws what the object means.
LEMMA AccessIsMeant ==
    ASSUME ExpectedInv, NEW x \in Objects, Usable(x)
    PROVE  /\ Enforced(objects[x], "EXPECTED") = Meaning!Access(contentBar[x], "value")
           /\ Enforced(objects[x], "UNEXPECTED") = Meaning!Access(contentBar[x], "error")
           /\ Enforced(objects[x], "NOTHING") = Meaning!Access(contentBar[x], "nothing")
  <1>1. CASE objects[x].contains = "NOTHING"
    <2>1. contentBar[x] = Is("nothing", Moved)
      BY <1>1, MeaningFacts DEF Meaning!Nothing, Meaning!Is, Is
    <2> QED
      BY <1>1, <2>1 DEF Enforced, Meaning!Access, Meaning!Is, Is
  <1>2. CASE objects[x].contains # "NOTHING"
    <2>1. /\ contentBar[x] = objects[x].storage /\ objects[x].storage.kind \in {"value", "error"}
          /\ objects[x].contains = Tag(objects[x].storage)
      BY <1>2, MeaningFacts, PayloadFacts
    <2>2. CASE objects[x].storage.kind = "value"
      <3>1. objects[x].contains = "EXPECTED"
        BY <2>1, <2>2 DEF Tag
      <3> QED
        BY <2>1, <2>2, <3>1 DEF Enforced, Meaning!Access, Meaning!Is, Is
    <2>3. CASE objects[x].storage.kind = "error"
      <3>1. objects[x].contains = "UNEXPECTED"
        BY <2>1, <2>3 DEF Tag
      <3> QED
        BY <2>1, <2>3, <3>1 DEF Enforced, Meaning!Access, Meaning!Is, Is
    <2> QED
      BY <2>1, <2>2, <2>3
  <1> QED
    BY <1>1, <1>2

\* What the operations of one object mean
LEMMA AloneIsMeant ==
    ASSUME ExpectedInv, NEW x \in Objects,
           \/ Default(x) \/ FromValue(x) \/ FromError(x) \/ Destruct(x) \/ TakeValue(x)
           \/ \E k \in {"EXPECTED", "UNEXPECTED", "NOTHING"} : Get(x, k)
    PROVE  Meaning!VariantNext
  <1>1. ASSUME NEW o \in States, Unborn(x), UNCHANGED <<failed, got>>,
               objects' = [objects EXCEPT ![x] = o], MeaningOf(o) \in Meaning!Contents
        PROVE  Meaning!Create(x)
    <2>1. contentBar' = [contentBar EXCEPT ![x] = MeaningOf(o)]
      BY <1>1, UsedObjects, MeaningOfOne
    <2>2. contentBar[x] = Meaning!NoObject
      BY <1>1, MeaningFacts
    <2> QED
      BY <1>1, <2>1, <2>2 DEF Meaning!Create
  <1>2. CASE Default(x)
    <2> DEFINE o == [contains |-> "NOTHING", storage |-> Raw]
    <2>1. o \in States /\ MeaningOf(o) = Is("nothing", Moved)
      BY DEF States, Tags, MeaningOf
    <2>2. Is("nothing", Moved) \in Meaning!Contents
      BY DEF Meaning!Contents, Meaning!Nothing, Meaning!Is, Is
    <2>3. objects[x] = Dead /\ Unborn(x) /\ UNCHANGED <<failed, got>>
      BY <1>2, UsedObjects DEF Default
    <2>4. objects' = [objects EXCEPT ![x] = o]
      <3>1. [Dead EXCEPT !.contains = "NOTHING"] = o
        BY DEF Dead
      <3>2. objects' = [objects EXCEPT ![x] = [objects[x] EXCEPT !.contains = "NOTHING"]]
        BY <1>2 DEF Default
      <3> QED
        BY <2>3, <3>1, <3>2
    <2> HIDE DEF o
    <2>5. Meaning!Create(x)
      BY <1>1, <2>1, <2>2, <2>3, <2>4
    <2> QED
      BY <2>5 DEF Meaning!VariantNext
  <1>3. CASE FromValue(x) \/ FromError(x)
    <2>1. PICK c \in Payloads : Construct(x, c) /\ c \in Meaning!Contents
      BY <1>3 DEF FromValue, FromError, Payloads, Meaning!Contents, Meaning!Is, Is
    <2> DEFINE o == [contains |-> Tag(c), storage |-> c]
    <2>2. o \in States /\ MeaningOf(o) = c
      BY DEF States, Tags, Tag, MeaningOf
    <2>3. Unborn(x) /\ UNCHANGED <<failed, got>> /\ objects' = [objects EXCEPT ![x] = o]
      BY <2>1 DEF Construct
    <2> HIDE DEF o
    <2>4. Meaning!Create(x)
      BY <1>1, <2>1, <2>2, <2>3
    <2> QED
      BY <2>4 DEF Meaning!VariantNext
  <1>4. CASE Destruct(x)
    <2>1. /\ Usable(x) /\ objects' = [objects EXCEPT ![x] = Dead] /\ UNCHANGED <<failed, got>>
          /\ x \notin failed
      BY <1>4, UsedObjects DEF Destruct
    <2>2. Dead \in States /\ MeaningOf(Dead) = Meaning!NoObject
      BY DEF Dead, States, MeaningOf, Meaning!NoObject, Meaning!Is, Is
    <2>3. contentBar' = [contentBar EXCEPT ![x] = Meaning!NoObject]
      BY <2>1, <2>2, MeaningOfOne
    <2>4. Meaning!End(x)
      BY <2>1, <2>3, MeaningFacts DEF Meaning!End
    <2> QED
      BY <2>4 DEF Meaning!VariantNext
  <1>5. ASSUME NEW k \in {"EXPECTED", "UNEXPECTED", "NOTHING"}, Get(x, k) PROVE Meaning!VariantNext
    <2>1. Usable(x) /\ got' = Enforced(objects[x], k) /\ UNCHANGED <<objects, failed>>
      BY <1>5 DEF Get
    <2>2. contentBar' = contentBar
      BY <2>1 DEF contentBar, MeaningOf
    <2>3. \E want \in {"nothing", "value", "error"} : got' = Meaning!Access(contentBar[x], want)
      BY <2>1, AccessIsMeant
    <2>4. \E want \in {"nothing", "value", "error"} : Meaning!Read(x, want)
      BY <2>1, <2>2, <2>3, MeaningFacts DEF Meaning!Read
    <2> QED
      BY <2>4 DEF Meaning!VariantNext
  <1>6. CASE TakeValue(x)
    <2>1. /\ Usable(x) /\ got' = Enforced(objects[x], "EXPECTED") /\ failed' = failed
          /\ objects' = [objects EXCEPT ![x] = IF objects[x].contains # "EXPECTED" THEN objects[x]
                              ELSE [MovedFrom(objects[x]) EXCEPT !.contains = "NOTHING"]]
      BY <1>6 DEF TakeValue
    <2>2. objects[x] \in States /\ objects[x].contains # "none" /\ Tells(objects[x]) /\ x \notin failed
      BY <2>1, UsedObjects
    <2>3. got' = Meaning!Access(contentBar[x], "value") /\ Meaning!Usable(x)
      BY <2>1, AccessIsMeant, MeaningFacts
    <2>4. CASE objects[x].contains = "EXPECTED"
      <3> DEFINE o == [MovedFrom(objects[x]) EXCEPT !.contains = "NOTHING"]
      <3>1. MovedFrom(objects[x]) \in States
        BY <2>2, UnionFacts
      <3>2. o \in States /\ MeaningOf(o) = Meaning!Nothing
        BY <3>1 DEF States, Tags, MeaningOf, Meaning!Nothing, Meaning!Is, Is
      <3>3. objects' = [objects EXCEPT ![x] = o]
        BY <2>1, <2>4
      <3> HIDE DEF o
      <3>4. contentBar' = [contentBar EXCEPT ![x] = Meaning!Nothing]
        BY <2>1, <2>2, <3>2, <3>3, MeaningOfOne
      <3>5. contentBar[x].kind = "value"
        BY <2>1, <2>2, <2>4, MeaningFacts DEF Tells
      <3>6. Meaning!TakeOut(x)
        BY <2>3, <3>4, <3>5 DEF Meaning!TakeOut
      <3> QED
        BY <3>6 DEF Meaning!VariantNext
    <2>5. CASE objects[x].contains # "EXPECTED"
      <3>1. objects' = objects
        BY <2>1, <2>5 DEF ExpectedInv
      <3>2. contentBar' = contentBar
        BY <2>1, <3>1 DEF contentBar, MeaningOf
      <3>3. Meaning!Read(x, "value")
        BY <2>3, <3>2 DEF Meaning!Read
      <3> QED
        BY <3>3 DEF Meaning!VariantNext
    <2> QED
      BY <2>4, <2>5
  <1> QED
    BY <1>2, <1>3, <1>4, <1>5, <1>6

\* What the operations of two objects mean
LEMMA PairIsMeant ==
    ASSUME ExpectedInv, NEW x \in Objects, NEW y \in Objects,
           MoveConstruct(x, y) \/ CopyConstruct(x, y) \/ MoveAssign(x, y) \/ CopyAssign(x, y)
    PROVE  Meaning!VariantNext \/ UNCHANGED Meaning!variantVars
  <1>1. ASSUME NEW d \in States, Usable(y), failed' = failed, got' = got,
               \/ Unborn(x) /\ d = Dead
               \/ Usable(x) /\ x # y /\ d = destroy(objects[x])
        PROVE  /\ contentBar[x] # Meaning!Indeterminate /\ Meaning!Usable(y) /\ x # y
               /\ objects' = [objects EXCEPT ![x] = Filled(d, objects[y]), ![y] = MovedFrom(objects[y])] =>
                      Meaning!MoveTo(x, y)
               /\ objects' = [objects EXCEPT ![x] = Filled(d, objects[y])] => Meaning!Copy(x, y)
    <2>1. /\ x # y /\ x \notin failed /\ y \notin failed
          /\ Filled(d, objects[y]) \in States /\ MovedFrom(objects[y]) \in States
      BY <1>1, TakenFrom
    <2>2. contentBar[x] # Meaning!Indeterminate /\ Meaning!Usable(y)
      <3>1. Unborn(x) \/ Meaning!Usable(x)
        BY <1>1, MeaningFacts
      <3>2. Unborn(x) => contentBar[x] = Meaning!NoObject
        BY MeaningFacts
      <3> QED
        BY <1>1, <3>1, <3>2, MeaningFacts
           DEF Meaning!Usable, Meaning!NoObject, Meaning!Indeterminate, Meaning!Is
    <2>3. /\ MeaningOf(Filled(d, objects[y])) = contentBar[y]
          /\ \E c \in {contentBar[y].of, Moved} :
                 MeaningOf(MovedFrom(objects[y])) = [contentBar[y] EXCEPT !.of = c]
      BY <1>1, MeaningOfTaken
    <2>4. ASSUME objects' = [objects EXCEPT ![x] = Filled(d, objects[y]), ![y] = MovedFrom(objects[y])]
          PROVE  Meaning!MoveTo(x, y)
      <3>1. contentBar' = [contentBar EXCEPT ![x] = MeaningOf(Filled(d, objects[y])),
                                             ![y] = MeaningOf(MovedFrom(objects[y]))]
        <4> DEFINE o == Filled(d, objects[y])
                   p == MovedFrom(objects[y])
        <4>1. o \in States /\ p \in States
          BY <2>1
        <4>2. \A z \in Objects : objects'[z] = IF z = y THEN p ELSE IF z = x THEN o ELSE objects[z]
          BY <2>4 DEF ExpectedInv
        <4>3. failed' = failed /\ x \notin failed /\ y \notin failed
          BY <1>1, <2>1
        <4> HIDE DEF o, p
        <4>4. contentBar' = [z \in Objects |-> IF z = y THEN MeaningOf(p)
                                              ELSE IF z = x THEN MeaningOf(o) ELSE contentBar[z]]
          BY <4>1, <4>2, <4>3, MeaningOfStep
        <4>5. contentBar' = [contentBar EXCEPT ![x] = MeaningOf(o), ![y] = MeaningOf(p)]
          BY <4>4 DEF contentBar
        <4> QED
          BY <4>5 DEF o, p
      <3>2. PICK c \in {contentBar[y].of, Moved} :
                MeaningOf(MovedFrom(objects[y])) = [contentBar[y] EXCEPT !.of = c]
        BY <2>3
      <3>3. contentBar' = [contentBar EXCEPT ![x] = contentBar[y], ![y] = [contentBar[y] EXCEPT !.of = c]]
        BY <2>3, <3>1, <3>2
      <3>4. contentBar' = [contentBar EXCEPT ![x] = contentBar[y], ![y].of = c]
        BY <2>1, <3>3
      <3> QED
        BY <1>1, <2>1, <2>2, <3>4 DEF Meaning!MoveTo
    <2>5. ASSUME objects' = [objects EXCEPT ![x] = Filled(d, objects[y])]
          PROVE  Meaning!Copy(x, y)
      <3>1. contentBar' = [contentBar EXCEPT ![x] = contentBar[y]]
        BY <1>1, <2>1, <2>3, <2>5, MeaningOfOne
      <3> QED
        BY <1>1, <2>2, <3>1 DEF Meaning!Copy
    <2> QED
      BY <2>1, <2>2, <2>4, <2>5
  <1>2. Dead \in States
    BY DEF Dead, States
  <1>3. ASSUME Usable(x) PROVE destroy(objects[x]) \in States
    <2>1. objects[x] \in States /\ objects[x].contains # "none" /\ Tells(objects[x])
      BY <1>3, UsedObjects
    <2> QED
      BY <2>1, UnionFacts
  <1>4. ASSUME UNCHANGED expectedVars PROVE UNCHANGED Meaning!variantVars
    BY <1>4 DEF expectedVars, Meaning!variantVars, contentBar, MeaningOf
  <1>5. ASSUME Usable(x), Throws(x, y) PROVE Meaning!Fail(x)
    <2>1. \A z \in Objects : z # x => objects'[z] = objects[z]
      BY <1>5 DEF Throws, ExpectedInv
    <2>2. failed' = failed \cup {x} /\ got' = got
      BY <1>5 DEF Throws
    <2>3. contentBar' = [contentBar EXCEPT ![x] = Meaning!Indeterminate]
      BY <2>1, <2>2 DEF contentBar, MeaningOf, Meaning!Indeterminate, Meaning!Is, Is
    <2> QED
      BY <1>5, <2>2, <2>3, MeaningFacts DEF Meaning!Fail
  <1>6. CASE MoveConstruct(x, y)
    <2>1. /\ Unborn(x) /\ Usable(y) /\ UNCHANGED <<failed, got>>
          /\ objects' = [objects EXCEPT ![x] = Filled(Dead, objects[y]), ![y] = MovedFrom(objects[y])]
      BY <1>6, UsedObjects DEF MoveConstruct, Usable
    <2>2. Meaning!MoveTo(x, y)
      BY <1>1, <1>2, <2>1
    <2> QED
      BY <2>2 DEF Meaning!VariantNext
  <1>7. CASE CopyConstruct(x, y)
    <2>1. Meaning!Copy(x, y)
      BY <1>1, <1>2, <1>7 DEF CopyConstruct
    <2> QED
      BY <2>1 DEF Meaning!VariantNext
  <1>8. CASE MoveAssign(x, y)
    <2>1. CASE /\ Usable(x) /\ Usable(y) /\ x # y /\ UNCHANGED <<failed, got>>
               /\ objects' = [objects EXCEPT ![x] = Filled(destroy(objects[x]), objects[y]),
                                            ![y] = MovedFrom(objects[y])]
      <3>1. Meaning!MoveTo(x, y)
        BY <1>1, <1>3, <2>1
      <3> QED
        BY <3>1 DEF Meaning!VariantNext
    <2> QED
      BY <1>4, <1>5, <1>8, <2>1 DEF MoveAssign, Meaning!VariantNext
  <1>9. CASE CopyAssign(x, y)
    <2>1. CASE /\ Usable(x) /\ Usable(y) /\ x # y /\ UNCHANGED <<failed, got>>
               /\ objects' = [objects EXCEPT ![x] = Filled(destroy(objects[x]), objects[y])]
      <3>1. Meaning!Copy(x, y)
        BY <1>1, <1>3, <2>1
      <3> QED
        BY <3>1 DEF Meaning!VariantNext
    <2> QED
      BY <1>4, <1>5, <1>9, <2>1 DEF CopyAssign, Meaning!VariantNext
  <1> QED
    BY <1>6, <1>7, <1>8, <1>9

\* An expected is nothing, a value or an error, whatever is done to it, and an
\* access returns or throws what it is (expected.hpp:64-166).
THEOREM ExpectedImplementsVariant == ExpectedSpec => ImplementsVariant
  <1>1. ExpectedInit => Meaning!VariantInit
    BY DEF ExpectedInit, Meaning!VariantInit, contentBar, MeaningOf, Dead, Meaning!NoObject, Meaning!Is, Is
  <1>2. ExpectedInv /\ [ExpectedNext]_expectedVars => [Meaning!VariantNext]_(Meaning!variantVars)
    <2> SUFFICES ASSUME ExpectedInv, [ExpectedNext]_expectedVars
                 PROVE  Meaning!VariantNext \/ UNCHANGED Meaning!variantVars
      OBVIOUS
    <2>1. CASE UNCHANGED expectedVars
      BY <2>1 DEF expectedVars, Meaning!variantVars, contentBar, MeaningOf
    <2>2. CASE ExpectedNext
      BY <2>2, ExpectedOperations, AloneIsMeant, PairIsMeant
    <2> QED
      BY <2>1, <2>2
  <1> QED
    BY <1>1, <1>2, ExpectedInvHolds, PTL DEF ExpectedSpec, ImplementsVariant, Meaning!VariantSpec

-----------------------------------------------------------------------------
(* The addresses of sockets                                                   *)

PortNumbers == Seq(Nat) \ {U16(0)}
Addresses == {Wildcard, Loopback}
Names == [address : Addresses, port : PortNumbers]

\* A socket of IPv6 is bound to every address, and no two names are in each
\* other's way.
NamesApart ==
    /\ name \in [Sockets -> {Unbound} \cup Names]
    /\ \A s \in SocketsV6 : name[s] # Unbound => name[s].address = Wildcard
    /\ \A s, t \in Sockets :
           s # t /\ name[s] # Unbound /\ name[t] # Unbound /\ name[s].port = name[t].port
               => ~Overlap(name[s].address, name[t].address)

\* A listener tells its name, or nothing.
TellsName ==
    /\ local = [s \in Sockets |-> local[s]]
    /\ listens \subseteq {s \in Sockets : name[s] # Unbound}
    /\ \A l \in listens :
           \/ local[l] = NoEndpoint
           \/ local[l].family = "v6"
           \/ local[l] = Ipv4(name[l].address, name[l].port)

AddressInv == NamesApart /\ TellsName

\* Converted twice, an integer of two or four bytes is what it was.
LEMMA ReverseTwice == ASSUME NEW S, NEW n \in Seq(S) PROVE Seqs!Reverse(Seqs!Reverse(n)) = n
  <1> DEFINE r == Seqs!Reverse(n)
  <1>1. r = [i \in 1 .. Len(n) |-> n[Len(n) - i + 1]]
    BY DEF Seqs!Reverse
  <1>2. Len(n) \in Nat /\ Len(r) = Len(n)
    BY <1>1
  <1>3. \A i \in 1 .. Len(n) : r[Len(n) - i + 1] = n[i]
    BY <1>1, <1>2
  <1>4. n = [i \in 1 .. Len(n) |-> n[i]]
    OBVIOUS
  <1> HIDE DEF r
  <1>5. Seqs!Reverse(r) = [i \in 1 .. Len(r) |-> r[Len(r) - i + 1]]
    BY DEF Seqs!Reverse
  <1> QED
    BY <1>2, <1>3, <1>4, <1>5 DEF r

\* Ports are numbers other than 0, which asks the kernel for one.
LEMMA PortRange == \A p \in Ports \cup Ephemeral : p \in Nat /\ p # 0
  <1> DEFINE R == 1 .. 65535
  <1>1. ASSUME NEW p \in Ports \cup Ephemeral PROVE p \in R
    BY PortAssumption, SMTT(30)
  <1>2. ASSUME NEW p \in R PROVE p \in Nat /\ p # 0
    OBVIOUS
  <1> HIDE DEF R
  <1> QED
    BY <1>1, <1>2

\* A port that is not 0 is one that a name can have.
LEMMA PortFacts ==
    ASSUME NEW p \in Nat
    PROVE  U16(p) \in Seq(Nat) /\ (p # 0 => U16(p) \in PortNumbers)
  <1>a. p \div 256 \in Nat
    OBVIOUS
  <1>b. p % 256 \in Nat
    OBVIOUS
  <1>1. p # 0 => p \div 256 # 0 \/ p % 256 # 0
    OBVIOUS
  <1>2. U16(p) \in Seq(Nat)
    BY <1>a, <1>b DEF U16
  <1>3. U16(p)[1] = p \div 256 /\ U16(p)[2] = p % 256
    BY DEF U16
  <1>4. U16(0)[1] = 0 /\ U16(0)[2] = 0
    BY DEF U16
  <1> QED
    BY <1>1, <1>2, <1>3, <1>4 DEF PortNumbers

\* Addresses and ports survive their conversions, and a name has both.
LEMMA NameFacts ==
    /\ \A a \in Addresses : Seqs!Reverse(Seqs!Reverse(a)) = a
    /\ Wildcard # Loopback
    /\ \A n \in Names : /\ n # Unbound /\ n.address \in Addresses /\ n.port \in PortNumbers
                        /\ Seqs!Reverse(Seqs!Reverse(n.port)) = n.port /\ n.port # U16(0)
  <1>1. \A a \in Addresses : a \in Seq(Nat)
    <2>1. Wildcard \in Seq(Nat)
      BY DEF Wildcard
    <2>2. Loopback \in Seq(Nat)
      BY DEF Loopback
    <2> QED
      BY <2>1, <2>2 DEF Addresses
  <1>2. \A a \in Addresses : Seqs!Reverse(Seqs!Reverse(a)) = a
    BY <1>1, ReverseTwice
  <1>3. ASSUME NEW n \in Names
        PROVE  /\ n # Unbound /\ n.address \in Addresses /\ n.port \in PortNumbers
               /\ Seqs!Reverse(Seqs!Reverse(n.port)) = n.port /\ n.port # U16(0)
    <2>1. n.address \in Addresses /\ n.port \in PortNumbers
      BY DEF Names
    <2>2. n # Unbound
      <3>1. "port" \in DOMAIN n
        BY DEF Names
      <3>2. DOMAIN Unbound = {}
        BY DEF Unbound
      <3> QED
        BY <3>1, <3>2
    <2> QED
      BY <2>1, <2>2, ReverseTwice DEF PortNumbers
  <1> QED
    BY <1>2, <1>3 DEF Wildcard, Loopback

\* A socket that gets a name where no other is in its way keeps names apart.
LEMMA NamingKeepsApart ==
    ASSUME NamesApart, NEW s \in Sockets, name[s] = Unbound,
           NEW a \in Addresses, NEW p \in PortNumbers, ~InUse(a, p),
           s \in SocketsV6 => a = Wildcard, Named(s, a, p)
    PROVE  /\ NamesApart'
           /\ name'[s] = [address |-> a, port |-> p]
           /\ \A t \in Sockets \ {s} : name'[t] = name[t]
  <1>1. [address |-> a, port |-> p] \in Names
    BY DEF Names
  <1>2. /\ name' \in [Sockets -> {Unbound} \cup Names]
        /\ name'[s] = [address |-> a, port |-> p]
        /\ \A t \in Sockets \ {s} : name'[t] = name[t]
    BY <1>1 DEF NamesApart, Named
  <1>3. name'[s].address = a /\ name'[s].port = p
    BY <1>2
  <1>4. \A t \in SocketsV6 : name'[t] # Unbound => name'[t].address = Wildcard
    BY <1>2, <1>3 DEF NamesApart, Sockets
  <1>5. \A t \in Sockets : name[t] # Unbound /\ name[t].port = p
                              => ~Overlap(name[t].address, a) /\ ~Overlap(a, name[t].address)
    BY DEF InUse, Overlap
  <1>6. ASSUME NEW t \in Sockets, NEW u \in Sockets, t # u, name'[t] # Unbound,
               name'[u] # Unbound, name'[t].port = name'[u].port
        PROVE  ~Overlap(name'[t].address, name'[u].address)
    <2>1. CASE t = s
      <3>1. name'[u] = name[u]
        BY <1>2, <1>6, <2>1
      <3> QED
        BY <1>3, <1>5, <1>6, <2>1, <3>1
    <2>2. CASE u = s
      <3>1. name'[t] = name[t]
        BY <1>2, <1>6, <2>2
      <3> QED
        BY <1>3, <1>5, <1>6, <2>2, <3>1
    <2>3. CASE t # s /\ u # s
      <3>1. name'[t] = name[t] /\ name'[u] = name[u]
        BY <1>2, <2>3
      <3> QED
        BY <1>6, <3>1 DEF NamesApart
    <2> QED
      BY <2>1, <2>2, <2>3
  <1> QED
    BY <1>2, <1>4, <1>6 DEF NamesApart, Overlap

\* The kernel chooses a port that a name can have and that is free.
LEMMA FreePortFacts ==
    ASSUME NEW a, NEW p \in FreePorts(a)
    PROVE  p \in PortNumbers /\ ~InUse(a, p)
  <1>1. PICK q \in Ephemeral : p = U16(q) /\ ~InUse(a, p)
    BY DEF FreePorts
  <1>2. q \in Nat /\ q # 0
    BY PortRange
  <1>3. U16(q) \in PortNumbers
    BY <1>2, PortFacts
  <1> QED
    BY <1>1, <1>3

\* A bind that fails leaves the names, one that succeeds keeps them apart.
LEMMA BindKeepsApart ==
    ASSUME NamesApart, NEW s \in Sockets, NEW sa, KernelBind(s, sa),
           sa.family # "v6" => sa.address \in Addresses /\ sa.port \in Seq(Nat)
    PROVE  NamesApart' /\ \A t \in Sockets \ {s} : name'[t] = name[t]
  <1>1. CASE UNCHANGED name
    BY <1>1 DEF NamesApart, Overlap
  <1>2. CASE s \in SocketsV6 \/ sa.family = "v6" \/ name[s] # Unbound \/ InUse(sa.address, sa.port)
    BY <1>1, <1>2 DEF KernelBind
  <1>3. CASE ~(s \in SocketsV6 \/ sa.family = "v6" \/ name[s] # Unbound \/ InUse(sa.address, sa.port))
    <2>1. CASE sa.port # U16(0)
      <3>1. Named(s, sa.address, sa.port) /\ sa.port \in PortNumbers
        BY <1>3, <2>1 DEF KernelBind, PortNumbers
      <3> QED
        BY <1>3, <3>1, NamingKeepsApart
    <2>2. CASE sa.port = U16(0) /\ FreePorts(sa.address) = {}
      BY <1>1, <1>3, <2>2 DEF KernelBind
    <2>3. CASE sa.port = U16(0) /\ FreePorts(sa.address) # {}
      <3>1. PICK p \in FreePorts(sa.address) : Named(s, sa.address, p)
        BY <1>3, <2>3 DEF KernelBind
      <3>2. p \in PortNumbers /\ ~InUse(sa.address, p)
        BY FreePortFacts
      <3> QED
        BY <1>3, <3>1, <3>2, NamingKeepsApart
    <2> QED
      BY <2>1, <2>2, <2>3
  <1> QED
    BY <1>2, <1>3

\* What bind hands to the kernel is what its caller gave.
LEMMA EndpointFacts ==
    ASSUME NEW ep \in Endpoints
    PROVE  LET sa == ToSockaddr(ep)
           IN  sa.family # "v6" => sa.address \in Addresses /\ sa.port \in Seq(Nat)
  <1>1. CASE \E a \in {Wildcard, Loopback}, p \in Ports \cup {0} : ep = Ipv4(a, U16(p))
    <2>1. PICK a \in Addresses, p \in Ports \cup {0} : ep = Ipv4(a, U16(p))
      BY <1>1 DEF Addresses
    <2>2. p \in Nat
      BY <2>1, PortRange
    <2>3. U16(p) \in Seq(Nat)
      BY <2>2, PortFacts
    <2>4. Seqs!Reverse(Seqs!Reverse(U16(p))) = U16(p)
      BY <2>3, ReverseTwice
    <2> QED
      BY <2>1, <2>3, <2>4 DEF ToSockaddr, Sockaddr, InMemory, hton, Ipv4
  <1>2. CASE \E p \in Ports : ep = Ipv6(<<"::1">>, U16(p))
    BY <1>2 DEF ToSockaddr, Sockaddr, Ipv6
  <1> QED
    BY <1>1, <1>2 DEF Endpoints

\* get_local tells the name of its socket, unless it takes it for one of IPv6.
LEMMA GetLocalTells ==
    ASSUME NEW s \in Sockets, NEW n \in Names, s \in SocketsV6 => n.address = Wildcard
    PROVE  get_local(s, n).family = "v6" \/ get_local(s, n) = Ipv4(n.address, n.port)
  <1>1. CASE local[s].family # "v4"
    BY <1>1 DEF get_local, Ipv6
  <1>2. CASE local[s].family = "v4"
    <2> DEFINE sa == Written(s, n, local[s].family)
    <2>1. sa = [address |-> n.address, port |-> n.port]
      <3>1. CASE s \in SocketsV4
        BY <1>2, <3>1, FamilyAssumption DEF Written
      <3>2. CASE s \in SocketsV6
        BY <1>2, <3>2, FamilyAssumption DEF Written
      <3> QED
        BY <3>1, <3>2 DEF Sockets
    <2>2. get_local(s, n) = Ipv4(Seqs!Reverse(Seqs!Reverse(sa.address)), Seqs!Reverse(Seqs!Reverse(sa.port)))
      BY <1>2 DEF get_local, ntoh, Loaded
    <2>3. sa.address = n.address /\ sa.port = n.port
      BY <2>1
    <2> HIDE DEF sa
    <2> QED
      BY <2>2, <2>3, NameFacts
  <1> QED
    BY <1>1, <1>2

\* Names that stay keep what listeners tell, if that stays, too.
LEMMA TellsNameStays ==
    ASSUME TellsName, local' = [s \in Sockets |-> local'[s]], listens' = listens,
           \A l \in listens : name'[l] = name[l],
           \A l \in listens : local'[l] \in {local[l], NoEndpoint}
    PROVE  TellsName'
  <1>1. \A l \in listens : l \in Sockets /\ name'[l] # Unbound
    BY DEF TellsName
  <1>2. \A l \in listens : \/ local'[l] = NoEndpoint
                           \/ local'[l].family = "v6"
                           \/ local'[l] = Ipv4(name'[l].address, name'[l].port)
    BY DEF TellsName
  <1> QED
    BY <1>1, <1>2 DEF TellsName

\* Listeners tell their names, and names are apart, whatever is called, and
\* whether it fails (socket.cpp:25-87, 123-137).
THEOREM AddressInvHolds == AddressSpec => []AddressInv
  <1>1. AddressInit => AddressInv
    <2> SUFFICES ASSUME AddressInit PROVE AddressInv
      OBVIOUS
    <2>1. \A s \in Sockets : name[s] = Unbound
      BY DEF AddressInit
    <2>2. NamesApart
      BY <2>1 DEF AddressInit, NamesApart, Sockets
    <2>3. TellsName
      BY DEF AddressInit, TellsName
    <2> QED
      BY <2>2, <2>3 DEF AddressInv
  <1>2. AddressInv /\ [AddressNext]_addressVars => AddressInv'
    <2> SUFFICES ASSUME AddressInv, [AddressNext]_addressVars PROVE AddressInv'
      OBVIOUS
    <2>1. NamesApart /\ TellsName
      BY DEF AddressInv
    <2>2. local = [s \in Sockets |-> local[s]] /\ listens \subseteq Sockets
      BY <2>1 DEF TellsName
    <2>3. \A l \in listens : name[l] # Unbound /\ name[l] \in Names
      BY <2>1 DEF TellsName, NamesApart
    <2>4. ASSUME NEW s \in Sockets, NEW ep \in Endpoints, Bind(s, ep) PROVE AddressInv'
      <3> DEFINE sa == ToSockaddr(ep)
      <3>1. sa.family # "v6" => sa.address \in Addresses /\ sa.port \in Seq(Nat)
        BY EndpointFacts
      <3> HIDE DEF sa
      <3>2. KernelBind(s, sa)
        BY <2>4 DEF Bind, sa
      <3>3. NamesApart' /\ \A t \in Sockets \ {s} : name'[t] = name[t]
        BY <2>1, <3>1, <3>2, BindKeepsApart
      <3>4. s \notin listens /\ listens' = listens /\ local' = [local EXCEPT ![s] = ep]
        BY <2>4 DEF Bind
      <3>5. local' = [t \in Sockets |-> local'[t]] /\ \A l \in listens : local'[l] = local[l]
        BY <2>2, <3>4
      <3>6. TellsName'
        BY <2>1, <2>2, <3>3, <3>4, <3>5, TellsNameStays
      <3> QED
        BY <3>3, <3>6 DEF AddressInv
    <2>5. ASSUME NEW s \in Sockets, Listen(s) PROVE AddressInv'
      <3>1. /\ NamesApart' /\ name'[s] \in Names
            /\ s \in SocketsV6 => name'[s].address = Wildcard
            /\ \A t \in Sockets \ {s} : name'[t] = name[t]
        <4>1. CASE name[s] # Unbound /\ UNCHANGED name
          BY <2>1, <4>1 DEF NamesApart, Overlap
        <4>2. CASE name[s] = Unbound /\ \E p \in FreePorts(Wildcard) : Named(s, Wildcard, p)
          <5>1. PICK p \in FreePorts(Wildcard) : Named(s, Wildcard, p)
            BY <4>2
          <5>2. p \in PortNumbers /\ ~InUse(Wildcard, p) /\ Wildcard \in Addresses
            BY FreePortFacts DEF Addresses
          <5>3. /\ NamesApart' /\ name'[s] = [address |-> Wildcard, port |-> p]
                /\ \A t \in Sockets \ {s} : name'[t] = name[t]
            BY <2>1, <4>2, <5>1, <5>2, NamingKeepsApart
          <5> QED
            BY <5>2, <5>3 DEF Names
        <4> QED
          BY <2>5, <4>1, <4>2 DEF Listen
      <3>2. listens' = listens \cup {s} /\ local' = [local EXCEPT ![s] = get_local(s, name'[s])]
        BY <2>5 DEF Listen
      <3>3. PICK n \in Names : n = name'[s]
        BY <3>1
      <3>4. get_local(s, n).family = "v6" \/ get_local(s, n) = Ipv4(n.address, n.port)
        BY <3>1, <3>3, GetLocalTells
      <3>5. local'[s].family = "v6" \/ local'[s] = Ipv4(name'[s].address, name'[s].port)
        BY <2>2, <3>2, <3>3, <3>4
      <3>6. name'[s] # Unbound
        BY <3>3, NameFacts
      <3>7. /\ local' = [t \in Sockets |-> local'[t]]
            /\ \A l \in listens \ {s} : local'[l] = local[l] /\ name'[l] = name[l]
        BY <2>2, <3>1, <3>2
      <3>8. TellsName'
        <4>1. listens' \subseteq {t \in Sockets : name'[t] # Unbound}
          BY <2>2, <2>3, <3>2, <3>6, <3>7
        <4>2. \A l \in listens' : \/ local'[l] = NoEndpoint
                                  \/ local'[l].family = "v6"
                                  \/ local'[l] = Ipv4(name'[l].address, name'[l].port)
          BY <2>1, <3>2, <3>5, <3>7 DEF TellsName
        <4> QED
          BY <3>7, <4>1, <4>2 DEF TellsName
      <3> QED
        BY <3>1, <3>8 DEF AddressInv
    <2>6. ASSUME NEW s \in Sockets, NEW ep, Connect(s, ep) PROVE AddressInv'
      <3>1. NamesApart' /\ \A l \in listens : name'[l] = name[l]
        <4>1. CASE UNCHANGED name
          BY <2>1, <4>1 DEF NamesApart, Overlap
        <4>2. CASE name[s] = Unbound /\ \E p \in FreePorts(Loopback) : Named(s, Loopback, p)
          <5>1. PICK p \in FreePorts(Loopback) : Named(s, Loopback, p)
            BY <4>2
          <5>2. /\ p \in PortNumbers /\ ~InUse(Loopback, p) /\ Loopback \in Addresses
                /\ s \notin SocketsV6
            BY <2>6, FreePortFacts, FamilyAssumption DEF Addresses, Connect
          <5>3. NamesApart' /\ \A t \in Sockets \ {s} : name'[t] = name[t]
            BY <2>1, <4>2, <5>1, <5>2, NamingKeepsApart
          <5> QED
            BY <2>2, <2>3, <4>2, <5>3
        <4> QED
          BY <2>6, <4>1, <4>2 DEF Connect
      <3>2. UNCHANGED <<local, listens>>
        BY <2>6 DEF Connect
      <3>3. TellsName'
        BY <2>1, <2>2, <3>1, <3>2, TellsNameStays
      <3> QED
        BY <3>1, <3>3 DEF AddressInv
    <2>7. ASSUME NEW s \in Sockets, Accept(s) PROVE AddressInv'
      <3>1. UNCHANGED <<local, name, listens>>
        BY <2>7 DEF Accept
      <3> QED
        BY <2>1, <3>1 DEF AddressInv, NamesApart, TellsName, Overlap
    <2>8. ASSUME NEW s \in Sockets, MoveSocket(s) PROVE AddressInv'
      <3>1. UNCHANGED <<name, listens>> /\ local' = [local EXCEPT ![s] = NoEndpoint]
        BY <2>8 DEF MoveSocket
      <3>2. /\ local' = [t \in Sockets |-> local'[t]]
            /\ \A l \in listens : local'[l] \in {local[l], NoEndpoint}
        BY <2>2, <3>1
      <3>3. TellsName'
        BY <2>1, <2>2, <3>1, <3>2, TellsNameStays
      <3> QED
        BY <2>1, <3>1, <3>3 DEF AddressInv, NamesApart, Overlap
    <2>9. CASE UNCHANGED addressVars
      BY <2>1, <2>9 DEF AddressInv, NamesApart, TellsName, Overlap, addressVars
    <2> QED
      BY <2>4, <2>5, <2>6, <2>7, <2>8, <2>9 DEF AddressNext
  <1> QED
    BY <1>1, <1>2, PTL DEF AddressSpec

\* Clients that wait have names, and remote_ tells one that was accepted.
ClientsInv ==
    /\ peer = [s \in Sockets |-> peer[s]]
    /\ remote = [s \in Sockets |-> remote[s]]
    /\ \A c \in waiting : c \in SocketsV4 /\ name[c] # Unbound
    /\ \A l \in Sockets : remote[l] = NoEndpoint \/ TellsClient(l)

\* A socket keeps the name that it has and the listener that it is connected to.
LEMMA NamesStay ==
    ASSUME AddressInv, ClientsInv, [AddressNext]_addressVars
    PROVE  \A c \in Sockets : /\ name[c] # Unbound => name'[c] = name[c]
                              /\ peer[c] # Nowhere => peer'[c] = peer[c]
  <1>0. name = [s \in Sockets |-> name[s]]
    BY DEF AddressInv, NamesApart
  <1>1. ASSUME NEW s \in Sockets, NEW a, NEW p, Named(s, a, p)
        PROVE  \A c \in Sockets \ {s} : name'[c] = name[c]
    BY <1>0, <1>1 DEF Named
  <1>2. ASSUME NEW s \in Sockets, NEW ep \in Endpoints, Bind(s, ep)
        PROVE  /\ \A c \in Sockets : name[c] # Unbound => name'[c] = name[c]
               /\ peer' = peer
    <2> DEFINE sa == ToSockaddr(ep)
    <2>1. KernelBind(s, sa) /\ peer' = peer
      BY <1>2 DEF Bind
    <2> HIDE DEF sa
    <2>2. name' = name \/ (name[s] = Unbound /\ \E p : Named(s, sa.address, p))
      BY <2>1 DEF KernelBind
    <2> QED
      BY <1>1, <2>1, <2>2
  <1>3. ASSUME NEW s \in Sockets, Listen(s)
        PROVE  /\ \A c \in Sockets : name[c] # Unbound => name'[c] = name[c]
               /\ peer' = peer
    BY <1>1, <1>3 DEF Listen
  <1>4. ASSUME NEW s \in Sockets, NEW ep, Connect(s, ep)
        PROVE  \A c \in Sockets : /\ name[c] # Unbound => name'[c] = name[c]
                                  /\ peer[c] # Nowhere => peer'[c] = peer[c]
    BY <1>1, <1>4 DEF Connect, ClientsInv
  <1>5. ASSUME NEW s \in Sockets, Accept(s) \/ MoveSocket(s) PROVE UNCHANGED <<name, peer>>
    BY <1>5 DEF Accept, MoveSocket
  <1>6. CASE UNCHANGED addressVars
    BY <1>6 DEF addressVars
  <1> QED
    BY <1>2, <1>3, <1>4, <1>5, <1>6 DEF AddressNext

\* What remote_ tells stays true while it stays.
LEMMA TellsClientStays ==
    ASSUME AddressInv, ClientsInv, [AddressNext]_addressVars, NEW l \in Sockets,
           remote'[l] = remote[l], TellsClient(l)
    PROVE  TellsClient(l)'
  <1>1. PICK c \in SocketsV4 :
            /\ peer[c] = {l} /\ name[c] # Unbound /\ remote[l].port = name[c].port
            /\ l \in SocketsV4 /\ remote[l].family = "v4" => remote[l].address = Loaded(Loopback)
    BY DEF TellsClient
  <1>2. c \in Sockets /\ peer[c] # Nowhere
    BY <1>1 DEF Sockets, Nowhere
  <1>3. name'[c] = name[c] /\ peer'[c] = peer[c]
    BY <1>1, <1>2, NamesStay
  <1> QED
    BY <1>1, <1>3 DEF TellsClient

\* The kernel tells a listener its client, and remote_ takes the port as it is.
LEMMA AcceptTells ==
    ASSUME AddressInv, ClientsInv, NEW s \in Sockets, Accept(s)
    PROVE  /\ \E ep : remote' = [remote EXCEPT ![s] = ep]
           /\ waiting' \subseteq waiting
           /\ TellsClient(s)'
  <1>1. UNCHANGED <<name, peer>> /\ s \in listens
    BY DEF Accept
  <1>2. PICK c \in waiting :
            /\ peer[c] = {s} /\ waiting' = waiting \ {c}
            /\ LET sa == Written(s, Source(c), local[s].family)
               IN  remote' = [remote EXCEPT ![s] =
                                  IF local[s].family = "v4"
                                  THEN Ipv4(Loaded(sa.address), ntoh(Loaded(sa.port)))
                                  ELSE Ipv6(sa.address, ntoh(Loaded(sa.port)))]
    BY DEF Accept
  <1>3. c \in SocketsV4 /\ name[c] # Unbound /\ name[c] \in Names
    BY DEF ClientsInv, AddressInv, NamesApart, Sockets
  <1> DEFINE sa == Written(s, Source(c), local[s].family)
             port == Seqs!Reverse(Seqs!Reverse(sa.port))
  <1>4. local[s].family \in {"v4", "v6"}
    <2>1. \/ local[s] = NoEndpoint
          \/ local[s].family = "v6"
          \/ local[s] = Ipv4(name[s].address, name[s].port)
      BY <1>1 DEF AddressInv, TellsName
    <2>2. NoEndpoint.family = "v4" /\ Ipv4(name[s].address, name[s].port).family = "v4"
      BY DEF NoEndpoint, Ipv4
    <2> QED
      BY <2>1, <2>2
  <1>5. sa.port = name[c].port
    BY <1>4, FamilyAssumption DEF Written, Source, Sockets
  <1>6. s \in SocketsV4 /\ local[s].family = "v4" => sa.address = Loopback
    BY FamilyAssumption DEF Written, Source
  <1>7. port = name[c].port
    BY <1>3, <1>5, NameFacts
  <1>8. remote'[s] = IF local[s].family = "v4" THEN Ipv4(Loaded(sa.address), port) ELSE Ipv6(sa.address, port)
    BY <1>2 DEF ClientsInv, ntoh, Loaded
  <1> HIDE DEF sa, port
  <1>9. /\ remote'[s].port = name[c].port
        /\ s \in SocketsV4 /\ remote'[s].family = "v4" => remote'[s].address = Loaded(Loopback)
    BY <1>4, <1>6, <1>7, <1>8 DEF Ipv4, Ipv6
  <1> QED
    BY <1>1, <1>2, <1>3, <1>9 DEF TellsClient, sa

\* remote_ of a listener tells a client of its own (socket.cpp:89-121).
THEOREM ClientsInvHolds == AddressSpec => []ClientsInv
  <1>1. AddressInit => ClientsInv
    BY DEF AddressInit, ClientsInv
  <1>2. AddressInv /\ AddressInv' /\ ClientsInv /\ [AddressNext]_addressVars => ClientsInv'
    <2> SUFFICES ASSUME AddressInv, AddressInv', ClientsInv, [AddressNext]_addressVars
                 PROVE  ClientsInv'
      OBVIOUS
    <2>1. ASSUME UNCHANGED remote, peer' = [s \in Sockets |-> peer'[s]],
                 \A c \in waiting' \ waiting : c \in SocketsV4 /\ name'[c] # Unbound
          PROVE  ClientsInv'
      <3>1. \A l \in Sockets : remote'[l] = NoEndpoint \/ TellsClient(l)'
        BY <2>1, TellsClientStays DEF ClientsInv
      <3>2. \A c \in waiting' : c \in SocketsV4 /\ name'[c] # Unbound
        BY <2>1, NamesStay DEF ClientsInv, Sockets
      <3>3. remote' = [s \in Sockets |-> remote'[s]]
        BY <2>1 DEF ClientsInv
      <3> QED
        BY <2>1, <3>1, <3>2, <3>3 DEF ClientsInv
    <2>2. ASSUME NEW s \in Sockets, NEW ep \in Endpoints, Bind(s, ep) PROVE ClientsInv'
      BY <2>1, <2>2 DEF Bind, ClientsInv
    <2>3. ASSUME NEW s \in Sockets, Listen(s) PROVE ClientsInv'
      BY <2>1, <2>3 DEF Listen, ClientsInv
    <2>4. ASSUME NEW s \in Sockets, NEW ep, Connect(s, ep) PROVE ClientsInv'
      <3>1. /\ UNCHANGED remote /\ waiting' = waiting \cup {s} /\ s \in SocketsV4
            /\ peer' = [peer EXCEPT ![s] = Reached(ToSockaddr(ep))]
        BY <2>4 DEF Connect
      <3>2. name'[s] # Unbound
        <4>1. CASE name[s] # Unbound /\ UNCHANGED name
          BY <4>1
        <4>2. CASE \E p \in FreePorts(Loopback) : Named(s, Loopback, p)
          <5>1. PICK p \in FreePorts(Loopback) : Named(s, Loopback, p)
            BY <4>2
          <5>2. [address |-> Loopback, port |-> p] \in Names
            BY FreePortFacts DEF Names, Addresses
          <5>3. name'[s] = [address |-> Loopback, port |-> p]
            BY <5>1 DEF Named, AddressInv, NamesApart
          <5> QED
            BY <5>2, <5>3, NameFacts
        <4> QED
          BY <2>4, <4>1, <4>2 DEF Connect
      <3>3. peer' = [c \in Sockets |-> peer'[c]]
        BY <3>1 DEF ClientsInv
      <3> QED
        BY <2>1, <3>1, <3>2, <3>3
    <2>5. ASSUME NEW s \in Sockets, Accept(s) PROVE ClientsInv'
      <3>1. UNCHANGED <<name, peer>>
        BY <2>5 DEF Accept
      <3>2. /\ \E ep : remote' = [remote EXCEPT ![s] = ep]
            /\ waiting' \subseteq waiting /\ TellsClient(s)'
        BY <2>5, AcceptTells
      <3>3. /\ remote' = [l \in Sockets |-> remote'[l]]
            /\ \A l \in Sockets \ {s} : remote'[l] = remote[l]
        BY <3>2 DEF ClientsInv
      <3>4. \A l \in Sockets : remote'[l] = NoEndpoint \/ TellsClient(l)'
        BY <3>2, <3>3, TellsClientStays DEF ClientsInv
      <3> QED
        BY <3>1, <3>2, <3>3, <3>4 DEF ClientsInv
    <2>6. ASSUME NEW s \in Sockets, MoveSocket(s) PROVE ClientsInv'
      <3>1. UNCHANGED <<name, peer, waiting>> /\ remote' = [remote EXCEPT ![s] = NoEndpoint]
        BY <2>6 DEF MoveSocket
      <3>2. /\ remote' = [l \in Sockets |-> remote'[l]]
            /\ \A l \in Sockets : remote'[l] = IF l = s THEN NoEndpoint ELSE remote[l]
        BY <3>1 DEF ClientsInv
      <3>3. \A l \in Sockets : remote'[l] = NoEndpoint \/ TellsClient(l)'
        BY <3>2, TellsClientStays DEF ClientsInv
      <3> QED
        BY <3>1, <3>2, <3>3 DEF ClientsInv
    <2>7. CASE UNCHANGED addressVars
      BY <2>1, <2>7 DEF addressVars, ClientsInv
    <2> QED
      BY <2>2, <2>3, <2>4, <2>5, <2>6, <2>7 DEF AddressNext
  <1> QED
    BY <1>1, <1>2, AddressInvHolds, PTL DEF AddressSpec

\* Who connects to the address that a listener tells reaches it and no other,
\* or nobody if it was moved or tells an address of IPv6, and the listener tells
\* a client of its own, for any sockets and ports (socket.cpp:25-137).
THEOREM ConnectReachesListenerHolds == AddressSpec => []ConnectReachesListener
  <1>1. AddressInv /\ ClientsInv => ConnectReachesListener
    <2> SUFFICES ASSUME AddressInv, ClientsInv, NEW l \in listens
                 PROVE  /\ Reached(ToSockaddr(local[l])) = IF TellsItself(l) THEN {l} ELSE {}
                        /\ remote[l] = NoEndpoint \/ TellsClient(l)
      BY DEF ConnectReachesListener
    <2>1. l \in Sockets /\ name[l] \in Names
      BY DEF AddressInv, NamesApart, TellsName
    <2> DEFINE sa == ToSockaddr(local[l])
    <2>2. CASE TellsItself(l)
      <3>1. local[l] = Ipv4(name[l].address, name[l].port)
        BY <2>2 DEF AddressInv, TellsName, TellsItself
      <3>2. sa.family = "v4" /\ sa.address = name[l].address /\ sa.port = name[l].port
        BY <2>1, <3>1, NameFacts DEF ToSockaddr, Sockaddr, InMemory, hton, Ipv4
      <3>3. name[l].address \in {Wildcard, Loopback} /\ Wildcard # Loopback
        BY <2>1, NameFacts DEF Addresses
      <3> HIDE DEF sa
      <3>4. l \in Reached(sa)
        BY <3>2, <3>3 DEF Reached
      <3>5. ASSUME NEW k \in Reached(sa) PROVE k = l
        <4>1. k \in listens /\ name[k].port = name[l].port
          BY <3>2 DEF Reached
        <4>2. k \in Sockets /\ name[k] # Unbound /\ name[l] # Unbound
          BY <4>1 DEF AddressInv, TellsName
        <4>3. Overlap(name[k].address, name[l].address)
          BY <3>2, <3>3 DEF Reached, Overlap
        <4> QED
          BY <2>1, <4>1, <4>2, <4>3 DEF AddressInv, NamesApart
      <3>6. Reached(sa) = {l}
        BY <3>4, <3>5
      <3> QED
        BY <2>1, <2>2, <3>6 DEF ClientsInv, sa
    <2>3. CASE ~TellsItself(l)
      <3>1. local[l].family = "v4" => local[l] = NoEndpoint
        BY <2>3 DEF TellsItself
      <3>2. sa.family = local[l].family /\ sa.port = Seqs!Reverse(Seqs!Reverse(local[l].port))
        BY DEF ToSockaddr, Sockaddr, InMemory, hton
      <3>3. local[l].family = "v4" => sa.port = U16(0)
        <4>1. Seqs!Reverse(Seqs!Reverse(U16(0))) = U16(0)
          BY PortFacts, ReverseTwice
        <4> QED
          BY <3>1, <3>2, <4>1 DEF NoEndpoint, Ipv4
      <3> HIDE DEF sa
      <3>4. ASSUME NEW k \in Reached(sa) PROVE FALSE
        <4>1. k \in listens /\ sa.family = "v4" /\ name[k].port = sa.port
          BY DEF Reached
        <4>2. name[k] \in Names
          BY <4>1 DEF AddressInv, NamesApart, TellsName
        <4> QED
          BY <3>2, <3>3, <4>1, <4>2, NameFacts
      <3>5. Reached(sa) = {}
        BY <3>4
      <3> QED
        BY <2>1, <2>3, <3>5 DEF ClientsInv, sa
    <2> QED
      BY <2>2, <2>3
  <1> QED
    BY <1>1, AddressInvHolds, ClientsInvHolds, PTL

-----------------------------------------------------------------------------
(* Overflow tests                                                             *)

\* Half of what T can hold
Half == 2 ^ (Width - 1)

\* What T can hold, signed and unsigned
LEMMA LimitsOfT ==
    /\ Half \in Nat \ {0, 1}
    /\ Limits("signed") = [min |-> -Half, max |-> Half - 1]
    /\ Limits("unsigned") = [min |-> 0, max |-> 2 * Half - 1]
    /\ Representable("signed") = -Half .. Half - 1
    /\ Representable("unsigned") = 0 .. 2 * Half - 1
  BY PowerAssumption DEF Half, Limits, Representable

\* A computation whose result T can hold leaves it.
LEMMA WrapKeeps ==
    ASSUME NEW tag \in {"signed", "unsigned"}, NEW x \in Representable(tag)
    PROVE  Wrap(tag, x) = x
  <1>1. 2 ^ Width = 2 * Half
    BY PowerAssumption DEF Half
  <1>2. Limits(tag).min \in Int /\ x \in Int /\ x - Limits(tag).min \in 0 .. 2 * Half - 1
    BY LimitsOfT
  <1>3. ASSUME NEW y \in Nat, NEW m \in Nat, y < m PROVE y % m = y
    BY <1>3
  <1>4. (x - Limits(tag).min) % (2 * Half) = x - Limits(tag).min
    <2> DEFINE y == x - Limits(tag).min
    <2>1. y \in Nat /\ 2 * Half \in Nat /\ y < 2 * Half
      BY <1>2, LimitsOfT
    <2> HIDE DEF y
    <2>2. y % (2 * Half) = y
      BY <1>3, <2>1
    <2> QED
      BY <2>2 DEF y
  <1> QED
    BY <1>1, <1>2, <1>4 DEF Wrap

\* Products of numbers that are not negative grow with either.
LEMMA ProductGrows ==
    ASSUME NEW x \in Nat, NEW y \in Nat, NEW b \in Nat, x <= y
    PROVE  x * b \in Nat /\ y * b \in Nat /\ x * b <= y * b
  OBVIOUS

\* A product is too large exactly when one number is above the limit by the other.
LEMMA DivTells ==
    ASSUME NEW M \in Nat, NEW b \in Nat \ {0}, NEW x \in Nat
    PROVE  /\ M \div b \in 0 .. M
           /\ x > M \div b <=> x * b > M
           /\ x * b \in Nat
  <1> DEFINE q == M \div b
  <1>1. q \in Int /\ b * q <= M /\ M < b * q + b
    OBVIOUS
  <1> HIDE DEF q
  <1>2. q >= 0
    <2>1. SUFFICES ASSUME -q - 1 \in Nat PROVE FALSE
      BY <1>1
    <2>2. (-q - 1) * b >= 0
      BY <2>1, ProductGrows
    <2>3. (-q - 1) * b = -(b * q) - b
      BY <1>1
    <2> QED
      BY <1>1, <2>2, <2>3
  <1>3. q <= M
    <2>1. 1 * q <= b * q
      BY <1>1, <1>2, ProductGrows
    <2> QED
      BY <1>1, <2>1
  <1>4. ASSUME x > q PROVE x * b > M
    <2>1. (q + 1) * b <= x * b
      BY <1>1, <1>2, <1>4, ProductGrows
    <2>2. (q + 1) * b = b * q + b
      BY <1>1
    <2> QED
      BY <1>1, <2>1, <2>2
  <1>5. ASSUME x <= q PROVE x * b <= M
    <2>1. x * b <= q * b
      BY <1>1, <1>2, <1>5, ProductGrows
    <2>2. q * b = b * q
      BY <1>1
    <2> QED
      BY <1>1, <2>1, <2>2
  <1>6. x * b \in Nat
    BY ProductGrows
  <1> QED
    BY <1>1, <1>2, <1>3, <1>4, <1>5, <1>6 DEF q

\* Addition tests against the distance to the limit, which T can hold.
LEMMA AdditionExact ==
    ASSUME NEW tag \in {"signed", "unsigned"},
           NEW a \in Representable(tag), NEW b \in Representable(tag)
    PROVE  is_addition_undefined(tag, a, b) <=> a + b \notin Representable(tag)
  <1>1. CASE tag = "signed" /\ b < 0
    <2>1. Limits(tag).min - b \in Representable(tag)
      BY <1>1, LimitsOfT
    <2>2. Wrap(tag, Limits(tag).min - b) = Limits(tag).min - b
      BY <2>1, WrapKeeps
    <2> QED
      BY <1>1, <2>2, LimitsOfT DEF is_addition_undefined
  <1>2. CASE ~(tag = "signed" /\ b < 0)
    <2>1. Limits(tag).max - b \in Representable(tag)
      BY <1>2, LimitsOfT
    <2>2. Wrap(tag, Limits(tag).max - b) = Limits(tag).max - b
      BY <2>1, WrapKeeps
    <2> QED
      BY <1>2, <2>2, LimitsOfT DEF is_addition_undefined
  <1> QED
    BY <1>1, <1>2

\* Multiplication of unsigned integers tests against the limit divided by b.
LEMMA UnsignedMultiplicationExact ==
    ASSUME NEW a \in Representable("unsigned"), NEW b \in Representable("unsigned")
    PROVE  is_multiplication_undefined("unsigned", a, b) <=> a * b \notin Representable("unsigned")
  <1> DEFINE M == Limits("unsigned").max
  <1>1. M \in Nat /\ a \in Nat /\ b \in Nat /\ Representable("unsigned") = 0 .. M
    BY LimitsOfT
  <1>2. CASE b = 0
    BY <1>1, <1>2 DEF is_multiplication_undefined
  <1>3. CASE b # 0
    <2>1. Quotient(M, b) = M \div b
      BY <1>1, <1>3 DEF Quotient, Abs
    <2>2. M \div b \in 0 .. M /\ (a > M \div b <=> a * b > M) /\ a * b \in Nat
      BY <1>1, <1>3, DivTells
    <2>3. Wrap("unsigned", Quotient(M, b)) = M \div b
      BY <1>1, <2>1, <2>2, WrapKeeps
    <2> QED
      BY <1>1, <1>3, <2>2, <2>3 DEF is_multiplication_undefined
  <1> QED
    BY <1>2, <1>3

\* Multiplication of signed integers tests against the limit on the side of the
\* product, divided by one operand.
LEMMA SignedMultiplicationExact ==
    ASSUME NEW a \in Representable("signed"), NEW b \in Representable("signed")
    PROVE  is_multiplication_undefined("signed", a, b) <=> a * b \notin Representable("signed")
  <1> DEFINE min == Limits("signed").min
             max == Limits("signed").max
             over(x, y) == Wrap("signed", Quotient(x, y))
             R == Representable("signed")
  <1>0. /\ Half \in Nat \ {0, 1} /\ min = -Half /\ max = Half - 1 /\ R = -Half .. Half - 1
        /\ a \in Int /\ b \in Int
    BY LimitsOfT
  <1>1. CASE a <= 0 /\ b <= 0
    <2>1. is_multiplication_undefined("signed", a, b) <=> a # 0 /\ b < over(max, a)
      BY <1>0, <1>1 DEF is_multiplication_undefined
    <2>2. CASE a = 0
      BY <1>0, <2>1, <2>2
    <2>3. CASE a # 0
      <3>1. Quotient(max, a) = -(max \div (-a))
        <4>1. ~(max < 0) /\ a < 0 /\ Abs(max) = max /\ Abs(a) = -a
          BY <1>0, <1>1, <2>3 DEF Abs
        <4> QED
          BY <4>1 DEF Quotient
      <3>2. max \div (-a) \in 0 .. max /\ (-b > max \div (-a) <=> (-b) * (-a) > max) /\ (-b) * (-a) \in Nat
        BY <1>0, <1>1, <2>3, DivTells
      <3>3. over(max, a) = -(max \div (-a))
        BY <1>0, <3>1, <3>2, WrapKeeps
      <3>4. (-b) * (-a) = a * b
        BY <1>0
      <3> HIDE DEF over, R
      <3> QED
        BY <1>0, <2>1, <2>3, <3>2, <3>3, <3>4 DEF R
    <2> QED
      BY <2>2, <2>3
  <1>2. CASE a <= 0 /\ b > 0
    <2>1. is_multiplication_undefined("signed", a, b) <=> a < over(min, b)
      BY <1>0, <1>2 DEF is_multiplication_undefined
    <2>2. Quotient(min, b) = -(Half \div b)
      BY <1>0, <1>2 DEF Quotient, Abs
    <2>3. Half \div b \in 0 .. Half /\ (-a > Half \div b <=> (-a) * b > Half) /\ (-a) * b \in Nat
      BY <1>0, <1>2, DivTells
    <2>4. over(min, b) = -(Half \div b)
      BY <1>0, <2>2, <2>3, WrapKeeps
    <2>5. (-a) * b = -(a * b) /\ a * b \in Int
      BY <1>0
    <2> HIDE DEF over
    <2> QED
      BY <1>0, <2>1, <2>3, <2>4, <2>5
  <1>3. CASE a > 0 /\ b <= 0
    <2>1. is_multiplication_undefined("signed", a, b) <=> b < over(min, a)
      BY <1>0, <1>3 DEF is_multiplication_undefined
    <2>2. Quotient(min, a) = -(Half \div a)
      BY <1>0, <1>3 DEF Quotient, Abs
    <2>3. Half \div a \in 0 .. Half /\ (-b > Half \div a <=> (-b) * a > Half) /\ (-b) * a \in Nat
      BY <1>0, <1>3, DivTells
    <2>4. over(min, a) = -(Half \div a)
      BY <1>0, <2>2, <2>3, WrapKeeps
    <2>5. (-b) * a = -(a * b) /\ a * b \in Int
      BY <1>0
    <2> HIDE DEF over
    <2> QED
      BY <1>0, <2>1, <2>3, <2>4, <2>5
  <1>4. CASE a > 0 /\ b > 0
    <2>1. is_multiplication_undefined("signed", a, b) <=> a > over(max, b)
      BY <1>0, <1>4 DEF is_multiplication_undefined
    <2>2. Quotient(max, b) = max \div b
      BY <1>0, <1>4 DEF Quotient, Abs
    <2>3. max \div b \in 0 .. max /\ (a > max \div b <=> a * b > max) /\ a * b \in Nat
      BY <1>0, <1>4, DivTells
    <2>4. over(max, b) = max \div b
      BY <1>0, <2>2, <2>3, WrapKeeps
    <2> HIDE DEF over
    <2> QED
      BY <1>0, <2>1, <2>3, <2>4
  <1> QED
    BY <1>0, <1>1, <1>2, <1>3, <1>4

\* Only the least number divided by -1 is more than T can hold.
LEMMA DivisionExact ==
    ASSUME NEW tag \in {"signed", "unsigned"},
           NEW a \in Representable(tag), NEW b \in Representable(tag)
    PROVE  is_division_undefined(tag, a, b) <=> ~(b # 0 /\ Quotient(a, b) \in Representable(tag))
  <1> SUFFICES ASSUME b # 0
               PROVE  Quotient(a, b) \notin Representable(tag)
                      <=> tag = "signed" /\ b = -1 /\ a = Limits(tag).min
    BY DEF is_division_undefined
  <1>0. a \in Int /\ b \in Int /\ Abs(a) \in Nat /\ Abs(b) \in Nat \ {0} /\ Half \in Nat \ {0, 1}
    BY LimitsOfT DEF Abs
  <1>1. Abs(a) \div Abs(b) \in 0 .. Abs(a)
    BY <1>0, DivTells
  <1>2. Abs(b) = 1 => Abs(a) \div Abs(b) = Abs(a)
    BY <1>0
  <1>3. Abs(b) # 1 /\ a # 0 => Abs(a) \div Abs(b) < Abs(a)
    <2> SUFFICES ASSUME Abs(b) # 1, a # 0 PROVE Abs(a) \div Abs(b) < Abs(a)
      OBVIOUS
    <2>1. Abs(a) > Abs(a) \div Abs(b) <=> Abs(a) * Abs(b) > Abs(a)
      BY <1>0, DivTells
    <2>2. 2 * Abs(a) <= Abs(b) * Abs(a)
      BY <1>0, ProductGrows
    <2>3. Abs(a) > 0 /\ Abs(b) * Abs(a) = Abs(a) * Abs(b) /\ Abs(a) * Abs(b) \in Nat
      BY <1>0 DEF Abs
    <2> QED
      BY <1>0, <2>1, <2>2, <2>3
  <1> DEFINE q == Abs(a) \div Abs(b)
  <1>4. q \in Nat /\ Quotient(a, b) = IF (a < 0) = (b < 0) THEN q ELSE -q
    BY <1>0, <1>1 DEF Quotient
  <1> HIDE DEF q
  <1>5. CASE tag = "unsigned"
    <2>1. Quotient(a, b) = q /\ q <= a
      BY <1>0, <1>1, <1>4, <1>5, LimitsOfT DEF q, Abs
    <2> QED
      BY <1>4, <1>5, <2>1, LimitsOfT
  <1>6. CASE tag = "signed"
    BY <1>0, <1>1, <1>2, <1>3, <1>4, <1>6, LimitsOfT DEF q, Abs
  <1> QED
    BY <1>5, <1>6

\* A test tells exactly when the operation has no result that T can hold, for
\* integers of every width (integer_checking.hpp:51-136).
THEOREM TestsExactHolds == IntegerSpec => []TestsExact
  <1>1. IntegerInit => TestsExact
    BY DEF IntegerInit, TestsExact
  <1>2. TestsExact /\ [IntegerNext]_asked => TestsExact'
    <2> SUFFICES ASSUME TestsExact, [IntegerNext]_asked PROVE TestsExact'
      OBVIOUS
    <2>1. CASE UNCHANGED asked
      BY <2>1 DEF TestsExact
    <2>2. ASSUME NEW tag \in {"signed", "unsigned"},
                 NEW a \in Representable(tag), NEW b \in Representable(tag),
                 \/ Asks("addition", tag, a, b, is_addition_undefined(tag, a, b))
                 \/ tag = "unsigned" /\ Asks("subtraction", tag, a, b, is_subtraction_undefined(tag, a, b))
                 \/ Asks("multiplication", tag, a, b, is_multiplication_undefined(tag, a, b))
                 \/ Asks("division", tag, a, b, is_division_undefined(tag, a, b))
                 \/ Asks("modulo", tag, a, b, is_modulo_undefined(tag, a, b))
          PROVE  TestsExact'
      <3>1. CASE Asks("addition", tag, a, b, is_addition_undefined(tag, a, b))
        BY <3>1, AdditionExact DEF Asks, TestsExact, HasResult
      <3>2. CASE tag = "unsigned" /\ Asks("subtraction", tag, a, b, is_subtraction_undefined(tag, a, b))
        <4>1. is_subtraction_undefined(tag, a, b) <=> a - b \notin Representable(tag)
          BY <3>2, LimitsOfT DEF is_subtraction_undefined
        <4> QED
          BY <3>2, <4>1 DEF Asks, TestsExact, HasResult
      <3>3. CASE Asks("multiplication", tag, a, b, is_multiplication_undefined(tag, a, b))
        BY <3>3, UnsignedMultiplicationExact, SignedMultiplicationExact DEF Asks, TestsExact, HasResult
      <3>4. CASE Asks("division", tag, a, b, is_division_undefined(tag, a, b))
        BY <3>4, DivisionExact DEF Asks, TestsExact, HasResult
      <3>5. CASE Asks("modulo", tag, a, b, is_modulo_undefined(tag, a, b))
        BY <3>5 DEF Asks, TestsExact, HasResult, is_modulo_undefined
      <3> QED
        BY <2>2, <3>1, <3>2, <3>3, <3>4, <3>5
    <2> QED
      BY <2>1, <2>2 DEF IntegerNext
  <1> QED
    BY <1>1, <1>2, PTL DEF IntegerSpec

-----------------------------------------------------------------------------
(* Lists                                                                      *)

\* The n-th node of the ring of l, when its items are c[l]
At(c, l, n) == Node(l, c[l], n)

\* An item is at most once in the lists of an entry.
Apart(c) ==
    \A l, m \in Lists : \A n \in DOMAIN c[l], k \in DOMAIN c[m] :
        Entry(l) = Entry(m) /\ c[l][n] = c[m][k] => l = m /\ n = k

\* Item i is in no list of entry e.
Unlisted(c, i, e) == \A l \in Lists : \A n \in DOMAIN c[l] : ~(Entry(l) = e /\ c[l][n] = i)

\* nx and pv link each list to a ring through its items, and an entry that is
\* in no list to itself.
Rings(nx, pv, c) ==
    /\ Apart(c)
    /\ \A l \in Lists : \A n \in 0 .. Len(c[l]) :
           nx[At(c, l, n)] = At(c, l, n + 1) /\ pv[At(c, l, n + 1)] = At(c, l, n)
    /\ \A i \in Items, e \in Entries :
           Unlisted(c, i, e) => nx[to_entry(i, e)] = to_entry(i, e) /\ pv[to_entry(i, e)] = to_entry(i, e)

\* Heads and entries are apart, and an entry is told by its item and its name.
LEMMA NodeFacts ==
    /\ \A l \in Lists : Entry(l) \in Entries /\ l \in Nodes
    /\ \A i \in Items, e \in Entries :
           to_entry(i, e) \in Nodes /\ to_entry(i, e) \notin Lists /\ from_entry(to_entry(i, e)) = i
    /\ \A i, j \in Items, e, f \in Entries : to_entry(i, e) = to_entry(j, f) => i = j /\ e = f
    /\ \A n \in Nodes : n \in Lists \/ \E i \in Items, e \in Entries : n = to_entry(i, e)
  BY ItemsAssumption DEF Nodes, Lists, Entry, to_entry, from_entry

\* Which nodes are in the ring of l
LEMMA AtFacts ==
    ASSUME NEW c \in [Lists -> Seq(Items)], NEW l \in Lists
    PROVE  /\ Len(c[l]) \in Nat /\ c[l] \in Seq(Items)
           /\ At(c, l, 0) = l /\ At(c, l, Len(c[l]) + 1) = l
           /\ \A n \in 1 .. Len(c[l]) :
                  c[l][n] \in Items /\ At(c, l, n) = to_entry(c[l][n], Entry(l)) /\ At(c, l, n) \notin Lists
           /\ \A n \in 0 .. Len(c[l]) + 1 : At(c, l, n) \in Nodes
  <1>1. Len(c[l]) \in Nat /\ c[l] \in Seq(Items) /\ DOMAIN c[l] = 1 .. Len(c[l])
    OBVIOUS
  <1>2. /\ At(c, l, 0) = l /\ At(c, l, Len(c[l]) + 1) = l
        /\ \A n \in 1 .. Len(c[l]) : c[l][n] \in Items /\ At(c, l, n) = to_entry(c[l][n], Entry(l))
    BY <1>1 DEF At, Node
  <1>3. \A n \in 1 .. Len(c[l]) : At(c, l, n) \notin Lists /\ At(c, l, n) \in Nodes
    BY <1>2, NodeFacts
  <1>4. ASSUME NEW n \in 0 .. Len(c[l]) + 1 PROVE At(c, l, n) \in Nodes
    <2>1. n = 0 \/ n = Len(c[l]) + 1 \/ n \in 1 .. Len(c[l])
      BY <1>1
    <2> QED
      BY <1>2, <1>3, <2>1, NodeFacts
  <1> QED
    BY <1>1, <1>2, <1>3, <1>4

\* A node is at one place of one ring; its head counts as its beginning or as
\* its end.
LEMMA OneNodeOnePlace ==
    ASSUME NEW c \in [Lists -> Seq(Items)], Apart(c), NEW l \in Lists, NEW m \in Lists
    PROVE  /\ \A n \in 0 .. Len(c[l]), k \in 0 .. Len(c[m]) :
                  At(c, l, n) = At(c, m, k) => l = m /\ n = k
           /\ \A n \in 1 .. Len(c[l]) + 1, k \in 1 .. Len(c[m]) + 1 :
                  At(c, l, n) = At(c, m, k) => l = m /\ n = k
  <1>0. Len(c[l]) \in Nat /\ Len(c[m]) \in Nat /\ DOMAIN c[l] = 1 .. Len(c[l]) /\ DOMAIN c[m] = 1 .. Len(c[m])
    OBVIOUS
  <1>1. ASSUME NEW n \in 1 .. Len(c[l]), NEW k \in 1 .. Len(c[m]), At(c, l, n) = At(c, m, k)
        PROVE  l = m /\ n = k
    <2>1. to_entry(c[l][n], Entry(l)) = to_entry(c[m][k], Entry(m)) /\ c[l][n] \in Items /\ c[m][k] \in Items
      BY <1>1, AtFacts
    <2>2. c[l][n] = c[m][k] /\ Entry(l) = Entry(m)
      BY <2>1, NodeFacts
    <2> QED
      BY <1>0, <2>2 DEF Apart
  <1>2. \A n \in 1 .. Len(c[l]) : At(c, l, n) # m
    BY AtFacts
  <1>3. \A k \in 1 .. Len(c[m]) : At(c, m, k) # l
    BY AtFacts
  <1>4. At(c, l, 0) = l /\ At(c, l, Len(c[l]) + 1) = l /\ At(c, m, 0) = m /\ At(c, m, Len(c[m]) + 1) = m
    BY AtFacts
  <1>5. ASSUME NEW n \in 0 .. Len(c[l]), NEW k \in 0 .. Len(c[m]), At(c, l, n) = At(c, m, k)
        PROVE  l = m /\ n = k
    <2>1. (n = 0 \/ n \in 1 .. Len(c[l])) /\ (k = 0 \/ k \in 1 .. Len(c[m]))
      BY <1>0
    <2> QED
      BY <1>1, <1>2, <1>3, <1>4, <1>5, <2>1
  <1>6. ASSUME NEW n \in 1 .. Len(c[l]) + 1, NEW k \in 1 .. Len(c[m]) + 1, At(c, l, n) = At(c, m, k)
        PROVE  l = m /\ n = k
    <2>1. (n = Len(c[l]) + 1 \/ n \in 1 .. Len(c[l])) /\ (k = Len(c[m]) + 1 \/ k \in 1 .. Len(c[m]))
      BY <1>0
    <2> QED
      BY <1>1, <1>2, <1>3, <1>4, <1>6, <2>1
  <1> QED
    BY <1>5, <1>6

-----------------------------------------------------------------------------
(* The contents of rings                                                      *)

\* Some number of a set is the least one.
LEMMA LeastOf ==
    ASSUME NEW S \in SUBSET Nat, S # {}
    PROVE  \E x \in S : \A y \in S : x <= y
  <1>1. PICK x \in S : \A y \in S : ~(<<y, x>> \in OpToRel(<, Nat))
    BY WFMin, NatLessThanWellFounded, Zenon
  <1>2. \A y \in S : ~(y < x)
    <2> SUFFICES ASSUME NEW y \in S, y < x PROVE FALSE
      OBVIOUS
    <2>1. x \in Nat /\ y \in Nat
      OBVIOUS
    <2> QED
      BY <1>1, <2>1, Zenon DEF OpToRel
  <1> QED
    BY <1>2

\* A sequence without repetitions is one of the orders.
LEMMA OrdersHold ==
    ASSUME NEW s \in Seq(Items), \A n, k \in DOMAIN s : s[n] = s[k] => n = k
    PROVE  s \in Orders
  <1> DEFINE N == Cardinality(Items)
  <1>1. N \in Nat /\ Len(s) \in Nat /\ IsFiniteSet(Items)
    BY ItemsAssumption, FS_CardinalityType
  <1>2. Len(s) <= N
    <2> SUFFICES ASSUME N < Len(s) PROVE FALSE
      BY <1>1
    <2> DEFINE places == 1 .. Len(s)
    <2>1. IsFiniteSet(places) /\ Cardinality(places) = Len(s)
      <3>1. 1 \in Int /\ Len(s) \in Int /\ ~(1 > Len(s)) /\ Len(s) - 1 + 1 = Len(s)
        BY <1>1
      <3> QED
        BY <3>1, FS_Interval
    <2>2. s \in [places -> Items]
      OBVIOUS
    <2>3. IsFiniteSet(Items) /\ Cardinality(Items) < Cardinality(places)
      BY <1>1, <2>1
    <2> HIDE DEF places
    <2>4. \E n, k \in places : n # k /\ s[n] = s[k]
      BY <2>1, <2>2, <2>3, FS_PigeonHole, Zenon
    <2> QED
      BY <2>4 DEF places
  <1> DEFINE order == [m \in 1 .. N |-> IF m <= Len(s) THEN s[m] ELSE CHOOSE x \in Items : TRUE]
  <1>3. order \in [1 .. N -> Items]
    <2> SUFFICES ASSUME NEW m \in 1 .. N
                 PROVE  (IF m <= Len(s) THEN s[m] ELSE CHOOSE x \in Items : TRUE) \in Items
      OBVIOUS
    <2>1. Items # {}
      BY <1>1, FS_EmptySet
    <2> QED
      BY <1>1, <2>1
  <1>4. s = Beginning(order, Len(s))
    <2>1. order \in Seq(Items) /\ Len(order) = N
      BY <1>1, <1>3
    <2> QED
      BY <1>1, <1>2, <2>1 DEF Beginning
  <1> HIDE DEF order
  <1>5. Len(s) \in 0 .. N
    BY <1>1, <1>2
  <1> QED
    BY <1>3, <1>4, <1>5 DEF Orders

\* What contentsBar says of any links
Bar(nx) ==
    [l \in Lists |->
        CHOOSE s \in Orders : \A n \in 0 .. Len(s) : nx[Node(l, s, n)] = Node(l, s, n + 1)]

\* The orders are sequences of items.
LEMMA OrdersAreSequences == Orders \subseteq Seq(Items)
  <1>1. Cardinality(Items) \in Nat
    BY ItemsAssumption, FS_CardinalityType
  <1> SUFFICES ASSUME NEW n \in 0 .. Cardinality(Items),
                      NEW s \in [1 .. Cardinality(Items) -> Items]
               PROVE  Beginning(s, n) \in Seq(Items)
    BY DEF Orders
  <1>2. s \in Seq(Items) /\ Len(s) = Cardinality(Items)
    BY <1>1
  <1> QED
    BY <1>1, <1>2 DEF Beginning

\* The links of a ring tell its items.
LEMMA RingsTell ==
    ASSUME NEW nx \in [Nodes -> Nodes], NEW pv \in [Nodes -> Nodes],
           NEW c \in [Lists -> Seq(Items)], Rings(nx, pv, c)
    PROVE  Bar(nx) = c
  <1> SUFFICES ASSUME NEW l \in Lists
               PROVE  c[l] = CHOOSE s \in Orders : \A n \in 0 .. Len(s) : nx[Node(l, s, n)] = Node(l, s, n + 1)
    BY DEF Bar
  <1> DEFINE IsOne(s) == \A n \in 0 .. Len(s) : nx[Node(l, s, n)] = Node(l, s, n + 1)
  <1>1. c[l] \in Orders /\ IsOne(c[l])
    <2>1. \A n, k \in DOMAIN c[l] : c[l][n] = c[l][k] => n = k
      BY DEF Rings, Apart
    <2> QED
      BY <2>1, OrdersHold DEF Rings, At
  <1>2. ASSUME NEW s \in Orders, IsOne(s), NEW t \in Orders, IsOne(t), Len(s) <= Len(t) PROVE s = t
    <2>1. s \in Seq(Items) /\ t \in Seq(Items) /\ Len(s) \in Nat /\ Len(t) \in Nat
      BY OrdersAreSequences
    <2>2. /\ Node(l, s, 0) = l /\ Node(l, t, 0) = l
          /\ Node(l, s, Len(s) + 1) = l /\ Node(l, t, Len(t) + 1) = l
          /\ \A n \in 1 .. Len(s) : Node(l, s, n) = to_entry(s[n], Entry(l)) /\ s[n] \in Items
          /\ \A n \in 1 .. Len(t) : Node(l, t, n) = to_entry(t[n], Entry(l)) /\ t[n] \in Items
      BY <2>1 DEF Node
    <2> DEFINE bad == {n \in 0 .. Len(s) + 1 : Node(l, s, n) # Node(l, t, n)}
    <2>3. bad = {}
      <3> SUFFICES ASSUME bad # {} PROVE FALSE
        OBVIOUS
      <3>1. bad \in SUBSET Nat
        OBVIOUS
      <3>2. PICK b \in bad : \A n \in bad : b <= n
        BY <3>1, LeastOf
      <3>3. b \in 1 .. Len(s) + 1 /\ b - 1 \in 0 .. Len(s) /\ b - 1 \in 0 .. Len(t) /\ b - 1 \notin bad
        BY <1>2, <2>1, <2>2, <3>2
      <3>4. Node(l, s, b - 1) = Node(l, t, b - 1)
        BY <2>1, <3>3
      <3>5. Node(l, s, (b - 1) + 1) = Node(l, t, (b - 1) + 1)
        BY <1>2, <3>3, <3>4
      <3>6. (b - 1) + 1 = b
        BY <3>3
      <3> QED
        BY <3>2, <3>5, <3>6
    <2>4. \A n \in 0 .. Len(s) + 1 : Node(l, s, n) = Node(l, t, n)
      BY <2>3
    <2>5. Len(s) = Len(t)
      <3> SUFFICES ASSUME Len(s) < Len(t) PROVE FALSE
        BY <1>2, <2>1
      <3>1. Len(s) + 1 \in 1 .. Len(t) /\ Len(s) + 1 \in 0 .. Len(s) + 1
        BY <2>1
      <3>2. l = to_entry(t[Len(s) + 1], Entry(l)) /\ t[Len(s) + 1] \in Items
        BY <2>2, <2>4, <3>1
      <3> QED
        BY <3>2, NodeFacts
    <2>6. ASSUME NEW n \in 1 .. Len(s) PROVE s[n] = t[n]
      <3>1. n \in 0 .. Len(s) + 1 /\ n \in 1 .. Len(t)
        BY <2>1, <2>5
      <3>2. to_entry(s[n], Entry(l)) = to_entry(t[n], Entry(l)) /\ s[n] \in Items /\ t[n] \in Items
        BY <2>2, <2>4, <3>1
      <3> QED
        BY <3>2, NodeFacts
    <2> QED
      BY <2>1, <2>5, <2>6
  <1>3. ASSUME NEW s \in Orders, IsOne(s) PROVE s = c[l]
    <2>1. Len(s) \in Nat /\ Len(c[l]) \in Nat
      BY OrdersAreSequences
    <2>2. Len(s) <= Len(c[l]) \/ Len(c[l]) <= Len(s)
      BY <2>1
    <2> HIDE DEF IsOne
    <2> QED
      BY <1>1, <1>2, <1>3, <2>2
  <1> HIDE DEF IsOne
  <1>4. c[l] = CHOOSE s \in Orders : IsOne(s)
    BY <1>1, <1>3
  <1> QED
    BY <1>4 DEF IsOne
-----------------------------------------------------------------------------
(* Insertion                                                                  *)

\* What stands where after an insertion
LEMMA InsertAtFacts ==
    ASSUME NEW s \in Seq(Items), NEW p \in 1 .. Len(s) + 1, NEW i \in Items
    PROVE  /\ Contents!InsertAt(s, p, i) \in Seq(Items)
           /\ Len(Contents!InsertAt(s, p, i)) = Len(s) + 1
           /\ \A k \in 1 .. Len(s) + 1 :
                  Contents!InsertAt(s, p, i)[k] = IF k < p THEN s[k] ELSE IF k = p THEN i ELSE s[k - 1]
  <1> DEFINE a == SubSeq(s, 1, p - 1)
             b == SubSeq(s, p, Len(s))
  <1>1. Len(s) \in Nat /\ p \in Nat
    OBVIOUS
  <1>2. a \in Seq(Items) /\ Len(a) = p - 1 /\ \A k \in 1 .. p - 1 : a[k] = s[k]
    BY <1>1
  <1>3. b \in Seq(Items) /\ Len(b) = Len(s) - p + 1 /\ \A k \in 1 .. Len(s) - p + 1 : b[k] = s[p + k - 1]
    BY <1>1
  <1>4. Contents!InsertAt(s, p, i) = (a \o <<i>>) \o b
    BY DEF Contents!InsertAt
  <1> HIDE DEF a, b
  <1> DEFINE ai == a \o <<i>>
  <1>5. /\ ai \in Seq(Items) /\ Len(ai) = p /\ ai[p] = i
        /\ \A k \in 1 .. p - 1 : ai[k] = s[k]
    BY <1>1, <1>2
  <1> HIDE DEF ai
  <1> DEFINE t == ai \o b
  <1>6. /\ t \in Seq(Items) /\ Len(t) = Len(s) + 1
        /\ \A k \in 1 .. p : t[k] = ai[k]
        /\ \A k \in p + 1 .. Len(s) + 1 : t[k] = b[k - p]
    BY <1>1, <1>3, <1>5
  <1> HIDE DEF t
  <1>7. ASSUME NEW k \in 1 .. Len(s) + 1
        PROVE  t[k] = IF k < p THEN s[k] ELSE IF k = p THEN i ELSE s[k - 1]
    <2>1. CASE k < p
      BY <1>1, <1>5, <1>6, <2>1
    <2>2. CASE k = p
      BY <1>1, <1>5, <1>6, <2>2
    <2>3. CASE k > p
      <3>1. k - p \in 1 .. Len(s) - p + 1 /\ k \in p + 1 .. Len(s) + 1 /\ p + (k - p) - 1 = k - 1
        BY <1>1, <2>3
      <3> QED
        BY <1>1, <1>3, <1>6, <2>3, <3>1
    <2> QED
      BY <1>1, <2>1, <2>2, <2>3
  <1>8. Contents!InsertAt(s, p, i) = t
    BY <1>4 DEF t, ai
  <1> QED
    BY <1>6, <1>7, <1>8

\* d is c with i inserted into l, before what was at p.
Inserted(c, d, l, p, i) ==
    /\ Len(d[l]) = Len(c[l]) + 1
    /\ \A k \in 1 .. Len(c[l]) + 1 : d[l][k] = IF k < p THEN c[l][k] ELSE IF k = p THEN i ELSE c[l][k - 1]
    /\ \A m \in Lists \ {l} : d[m] = c[m]

\* InsertAt makes of one list what Inserted says.
LEMMA InsertAtInserts ==
    ASSUME NEW c \in [Lists -> Seq(Items)], NEW l \in Lists,
           NEW p \in 1 .. Len(c[l]) + 1, NEW i \in Items
    PROVE  LET d == [c EXCEPT ![l] = Contents!InsertAt(c[l], p, i)]
           IN  d \in [Lists -> Seq(Items)] /\ Inserted(c, d, l, p, i)
  <1> DEFINE t == Contents!InsertAt(c[l], p, i)
  <1>1. c[l] \in Seq(Items)
    OBVIOUS
  <1>2. /\ t \in Seq(Items) /\ Len(t) = Len(c[l]) + 1
        /\ \A k \in 1 .. Len(c[l]) + 1 : t[k] = IF k < p THEN c[l][k] ELSE IF k = p THEN i ELSE c[l][k - 1]
    BY <1>1, InsertAtFacts
  <1> HIDE DEF t
  <1> DEFINE d == [c EXCEPT ![l] = t]
  <1>3. d \in [Lists -> Seq(Items)] /\ d[l] = t /\ \A m \in Lists \ {l} : d[m] = c[m]
    BY <1>2
  <1> HIDE DEF d
  <1>4. d \in [Lists -> Seq(Items)] /\ Inserted(c, d, l, p, i)
    BY <1>2, <1>3 DEF Inserted
  <1> QED
    BY <1>4 DEF d, t

\* Where the nodes of the rings are after an insertion
NodesMoved(c, d, l, p, i) ==
    /\ \A m \in Lists \ {l} : \A n \in 0 .. Len(c[m]) + 1 : At(d, m, n) = At(c, m, n)
    /\ \A k \in 0 .. Len(c[l]) + 2 :
           At(d, l, k) = IF k < p THEN At(c, l, k)
                         ELSE IF k = p THEN to_entry(i, Entry(l)) ELSE At(c, l, k - 1)

\* So they are when an item has been inserted.
LEMMA InsertMovesNodes ==
    ASSUME NEW c \in [Lists -> Seq(Items)], NEW d \in [Lists -> Seq(Items)], NEW l \in Lists,
           NEW p \in 1 .. Len(c[l]) + 1, NEW i \in Items, Inserted(c, d, l, p, i)
    PROVE  NodesMoved(c, d, l, p, i)
  <1>0. /\ c[l] \in Seq(Items) /\ Len(c[l]) \in Nat /\ DOMAIN c[l] = 1 .. Len(c[l])
        /\ d[l] \in Seq(Items) /\ DOMAIN d[l] = 1 .. Len(c[l]) + 1 /\ p \in Nat
    BY DEF Inserted
  <1>3. \A m \in Lists \ {l} : \A n \in 0 .. Len(c[m]) + 1 : At(d, m, n) = At(c, m, n)
    BY DEF At, Inserted
  <1>4. ASSUME NEW k \in 0 .. Len(c[l]) + 2
        PROVE  At(d, l, k) = IF k < p THEN At(c, l, k)
                             ELSE IF k = p THEN to_entry(i, Entry(l)) ELSE At(c, l, k - 1)
    <2>1. CASE k < p
      <3>1. k \in DOMAIN c[l] <=> k \in DOMAIN d[l]
        BY <1>0, <2>1
      <3>2. k \in DOMAIN d[l] => d[l][k] = c[l][k]
        BY <1>0, <2>1 DEF Inserted
      <3> QED
        BY <2>1, <3>1, <3>2 DEF At, Node
    <2>2. CASE k = p
      <3>1. k \in DOMAIN d[l] /\ d[l][k] = i
        BY <1>0, <2>2 DEF Inserted
      <3> QED
        BY <1>0, <2>2, <3>1 DEF At, Node
    <2>3. CASE k > p
      <3>1. k \in DOMAIN d[l] <=> k - 1 \in DOMAIN c[l]
        BY <1>0, <2>3
      <3>2. k \in DOMAIN d[l] => d[l][k] = c[l][k - 1]
        BY <1>0, <2>3 DEF Inserted
      <3>3. ~(k < p) /\ k # p
        BY <1>0, <2>3
      <3> QED
        BY <3>1, <3>2, <3>3 DEF At, Node
    <2> QED
      BY <1>0, <2>1, <2>2, <2>3
  <1> QED
    BY <1>3, <1>4 DEF NodesMoved

\* The entry of an item that is unlisted by it is in no ring.
LEMMA NotInRing ==
    ASSUME NEW c \in [Lists -> Seq(Items)], NEW i \in Items, NEW e \in Entries, Unlisted(c, i, e),
           NEW m \in Lists, NEW n \in 0 .. Len(c[m]) + 1
    PROVE  At(c, m, n) # to_entry(i, e)
  <1> SUFFICES ASSUME At(c, m, n) = to_entry(i, e) PROVE FALSE
    OBVIOUS
  <1>1. /\ At(c, m, 0) = m /\ At(c, m, Len(c[m]) + 1) = m
        /\ \A k \in 1 .. Len(c[m]) :
               c[m][k] \in Items /\ At(c, m, k) = to_entry(c[m][k], Entry(m)) /\ At(c, m, k) \notin Lists
    BY AtFacts
  <1>2. n # 0 /\ n # Len(c[m]) + 1
    BY <1>1, NodeFacts
  <1>3. n \in 1 .. Len(c[m]) /\ n \in DOMAIN c[m]
    BY <1>2
  <1>4. c[m][n] = i /\ Entry(m) = e
    BY <1>1, <1>3, NodeFacts
  <1> QED
    BY <1>3, <1>4 DEF Unlisted

\* n2 and p2 are nx and pv with a node put between two.
PutBetween(nx, pv, n2, p2, new, before, after) ==
    /\ n2[new] = after /\ n2[before] = new /\ \A x \in Nodes \ {new, before} : n2[x] = nx[x]
    /\ p2[new] = before /\ p2[after] = new /\ \A x \in Nodes \ {new, after} : p2[x] = pv[x]

\* insert_before and insert_after put a node between two that follow each other.
LEMMA InsertKeepsRings ==
    ASSUME NEW nx \in [Nodes -> Nodes], NEW pv \in [Nodes -> Nodes],
           NEW c \in [Lists -> Seq(Items)], Rings(nx, pv, c),
           NEW d \in [Lists -> Seq(Items)], NEW l \in Lists, NEW p \in 1 .. Len(c[l]) + 1,
           NEW i \in Items, Unlisted(c, i, Entry(l)), Inserted(c, d, l, p, i),
           NEW n2 \in [Nodes -> Nodes], NEW p2 \in [Nodes -> Nodes],
           PutBetween(nx, pv, n2, p2, to_entry(i, Entry(l)), At(c, l, p - 1), At(c, l, p))
    PROVE  Rings(n2, p2, d)
  <1> DEFINE new == to_entry(i, Entry(l))
             before == At(c, l, p - 1)
             after == At(c, l, p)
  <1>a. /\ n2[new] = after /\ n2[before] = new /\ \A x \in Nodes \ {new, before} : n2[x] = nx[x]
        /\ p2[new] = before /\ p2[after] = new /\ \A x \in Nodes \ {new, after} : p2[x] = pv[x]
    BY DEF PutBetween
  <1>0. /\ Len(c[l]) \in Nat /\ p \in Nat /\ p - 1 \in 0 .. Len(c[l]) /\ p \in 0 .. Len(c[l]) + 1
        /\ p - 1 \in 0 .. Len(c[l]) + 1 /\ Entry(l) \in Entries
    BY NodeFacts
  <1>b. \A m \in Lists : Len(c[m]) \in Nat /\ DOMAIN c[m] = 1 .. Len(c[m]) /\ DOMAIN d[m] = 1 .. Len(d[m])
    OBVIOUS
  <1>c. /\ Len(d[l]) = Len(c[l]) + 1
        /\ \A k \in 1 .. Len(d[l]) : d[l][k] = IF k < p THEN c[l][k] ELSE IF k = p THEN i ELSE c[l][k - 1]
        /\ \A m \in Lists \ {l} : d[m] = c[m]
    BY DEF Inserted
  <1>d. /\ \A m \in Lists \ {l} : \A n \in 0 .. Len(c[m]) + 1 : At(d, m, n) = At(c, m, n)
        /\ \A k \in 0 .. Len(c[l]) + 2 :
               At(d, l, k) = IF k < p THEN At(c, l, k) ELSE IF k = p THEN new ELSE At(c, l, k - 1)
    <2>1. NodesMoved(c, d, l, p, i)
      BY InsertMovesNodes
    <2> QED
      BY <2>1 DEF NodesMoved
  <1>e. \A m \in Lists : \A n \in 0 .. Len(c[m]) + 1 : At(c, m, n) \in Nodes
    BY AtFacts
  <1>2. new \in Nodes /\ before \in Nodes /\ after \in Nodes
    BY <1>0, <1>e, NodeFacts
  <1>3. ASSUME NEW m \in Lists, NEW n \in 0 .. Len(c[m]) + 1 PROVE At(c, m, n) # new
    BY <1>0, NotInRing
  <1>4. new # before /\ new # after
    BY <1>0, <1>3
  <1>r. /\ Apart(c)
        /\ \A m \in Lists : \A n \in 0 .. Len(c[m]) :
               nx[At(c, m, n)] = At(c, m, n + 1) /\ pv[At(c, m, n + 1)] = At(c, m, n)
    BY DEF Rings
  <1>5. ASSUME NEW m \in Lists, NEW n \in 0 .. Len(c[m]), ~(m = l /\ n = p - 1)
        PROVE  n2[At(c, m, n)] = At(c, m, n + 1) /\ p2[At(c, m, n + 1)] = At(c, m, n)
    <2>0. n \in 0 .. Len(c[m]) + 1 /\ n + 1 \in 0 .. Len(c[m]) + 1 /\ n + 1 \in 1 .. Len(c[m]) + 1
      BY <1>b
    <2>1. At(c, m, n) # new /\ At(c, m, n + 1) # new /\ At(c, m, n) \in Nodes /\ At(c, m, n + 1) \in Nodes
      BY <1>3, <1>e, <2>0
    <2>2. At(c, m, n) # before
      BY <1>0, <1>5, <1>r, OneNodeOnePlace
    <2>3. At(c, m, n + 1) # after
      <3>1. m = l => n + 1 # p
        BY <1>0, <1>5
      <3> QED
        BY <3>1, <2>0, <1>r, OneNodeOnePlace
    <2> QED
      BY <1>a, <1>r, <2>1, <2>2, <2>3
  <1> HIDE DEF new, before, after
  <1>6. ASSUME NEW m \in Lists, NEW n \in 0 .. Len(d[m])
        PROVE  n2[At(d, m, n)] = At(d, m, n + 1) /\ p2[At(d, m, n + 1)] = At(d, m, n)
    <2>1. CASE m # l
      <3>1. n \in 0 .. Len(c[m]) /\ n \in 0 .. Len(c[m]) + 1 /\ n + 1 \in 0 .. Len(c[m]) + 1
        BY <1>b, <1>c, <2>1
      <3>2. At(d, m, n) = At(c, m, n) /\ At(d, m, n + 1) = At(c, m, n + 1)
        BY <1>d, <2>1, <3>1
      <3> QED
        BY <1>5, <2>1, <3>1, <3>2
    <2>2. CASE m = l
      <3>1. n \in 0 .. Len(c[l]) + 1 /\ n \in 0 .. Len(c[l]) + 2 /\ n + 1 \in 0 .. Len(c[l]) + 2
        BY <1>0, <1>c, <2>2
      <3>2. CASE n < p - 1
        <4>1. /\ At(d, l, n) = At(c, l, n) /\ At(d, l, n + 1) = At(c, l, n + 1)
              /\ n \in 0 .. Len(c[l]) /\ n # p - 1
          BY <1>0, <1>d, <3>1, <3>2
        <4> QED
          BY <1>5, <2>2, <4>1
      <3>3. CASE n = p - 1
        <4>1. At(d, l, n) = before /\ At(d, l, n + 1) = new
          BY <1>0, <1>d, <3>1, <3>3 DEF before
        <4> QED
          BY <1>a, <2>2, <4>1
      <3>4. CASE n = p
        <4>1. At(d, l, n) = new /\ At(d, l, n + 1) = At(c, l, (n + 1) - 1) /\ (n + 1) - 1 = p
          BY <1>0, <1>d, <3>1, <3>4
        <4> QED
          BY <1>a, <2>2, <4>1 DEF after
      <3>5. CASE n > p
        <4>1. At(d, l, n) = At(c, l, n - 1) /\ At(d, l, n + 1) = At(c, l, (n + 1) - 1)
          BY <1>0, <1>d, <3>1, <3>5
        <4>2. (n + 1) - 1 = (n - 1) + 1 /\ n - 1 \in 0 .. Len(c[l]) /\ n - 1 # p - 1
          BY <1>0, <3>1, <3>5
        <4> QED
          BY <1>5, <2>2, <4>1, <4>2
      <3> QED
        BY <1>0, <3>1, <3>2, <3>3, <3>4, <3>5
    <2> QED
      BY <2>1, <2>2
  <1>7. Apart(d)
    <2> SUFFICES ASSUME NEW a \in Lists, NEW b \in Lists, NEW n \in DOMAIN d[a], NEW k \in DOMAIN d[b],
                        Entry(a) = Entry(b), d[a][n] = d[b][k]
                 PROVE  a = b /\ n = k
      BY DEF Apart
    <2> DEFINE place(m, q) == IF m = l /\ q > p THEN q - 1 ELSE q
    <2>1. ASSUME NEW m \in Lists, NEW q \in DOMAIN d[m]
          PROVE  \/ m = l /\ q = p /\ d[m][q] = i
                 \/ /\ ~(m = l /\ q = p)
                    /\ place(m, q) \in DOMAIN c[m] /\ d[m][q] = c[m][place(m, q)]
      <3>1. q \in 1 .. Len(d[m]) /\ Len(c[m]) \in Nat /\ DOMAIN c[m] = 1 .. Len(c[m])
        BY <1>b
      <3>2. CASE m # l
        BY <1>b, <1>c, <3>1, <3>2
      <3>3. CASE m = l
        <4>1. q \in 1 .. Len(c[l]) + 1 /\ q \in Nat
          BY <1>0, <1>c, <3>1, <3>3
        <4>2. CASE q < p
          BY <1>0, <1>b, <1>c, <3>1, <3>3, <4>1, <4>2
        <4>3. CASE q = p
          BY <1>0, <1>b, <1>c, <3>1, <3>3, <4>1, <4>3
        <4>4. CASE q > p
          <5>1. q - 1 \in 1 .. Len(c[l]) /\ ~(q < p) /\ q # p
            BY <1>0, <4>1, <4>4
          <5>2. d[l][q] = c[l][q - 1]
            BY <1>c, <3>1, <3>3, <5>1
          <5> QED
            BY <1>b, <3>3, <4>4, <5>1, <5>2
        <4> QED
          BY <1>0, <4>1, <4>2, <4>3, <4>4
      <3> QED
        BY <3>2, <3>3
    <2>2. place(a, n) = place(b, k) /\ a = b /\ ~(a = l /\ n = p) /\ ~(b = l /\ k = p) => n = k
      <3>1. n \in Nat /\ k \in Nat
        BY <1>b
      <3> QED
        BY <1>0, <3>1
    <2> HIDE DEF place
    <2>3. CASE a = l /\ n = p
      <3>1. d[b][k] = i /\ Entry(b) = Entry(l)
        BY <2>1, <2>3
      <3>2. ~(~(b = l /\ k = p) /\ place(b, k) \in DOMAIN c[b] /\ d[b][k] = c[b][place(b, k)])
        BY <3>1 DEF Unlisted
      <3> QED
        BY <2>1, <2>3, <3>2
    <2>4. CASE b = l /\ k = p
      <3>1. d[a][n] = i /\ Entry(a) = Entry(l)
        BY <2>1, <2>4
      <3>2. ~(~(a = l /\ n = p) /\ place(a, n) \in DOMAIN c[a] /\ d[a][n] = c[a][place(a, n)])
        BY <3>1 DEF Unlisted
      <3> QED
        BY <2>1, <2>4, <3>2
    <2>5. CASE ~(a = l /\ n = p) /\ ~(b = l /\ k = p)
      <3>1. /\ place(a, n) \in DOMAIN c[a] /\ d[a][n] = c[a][place(a, n)]
            /\ place(b, k) \in DOMAIN c[b] /\ d[b][k] = c[b][place(b, k)]
        BY <2>1, <2>5
      <3>2. c[a][place(a, n)] = c[b][place(b, k)] /\ Entry(a) = Entry(b)
        BY <3>1
      <3>3. a = b /\ place(a, n) = place(b, k)
        BY <1>r, <3>1, <3>2, Zenon DEF Apart
      <3> QED
        BY <2>2, <2>5, <3>3
    <2> QED
      BY <2>3, <2>4, <2>5
  <1>8. ASSUME NEW j \in Items, NEW e \in Entries, Unlisted(d, j, e)
        PROVE  n2[to_entry(j, e)] = to_entry(j, e) /\ p2[to_entry(j, e)] = to_entry(j, e)
    <2>1. ~(j = i /\ e = Entry(l))
      <3>1. p \in DOMAIN d[l] /\ d[l][p] = i
        BY <1>0, <1>b, <1>c
      <3> QED
        BY <1>8, <3>1 DEF Unlisted
    <2>2. Unlisted(c, j, e)
      <3> SUFFICES ASSUME NEW m \in Lists, NEW n \in DOMAIN c[m], Entry(m) = e, c[m][n] = j PROVE FALSE
        BY DEF Unlisted
      <3>1. CASE m # l
        BY <1>c, <1>8, <3>1 DEF Unlisted
      <3>2. CASE m = l
        <4>1. n \in 1 .. Len(c[l]) /\ DOMAIN d[l] = 1 .. Len(c[l]) + 1
          BY <1>b, <1>c, <3>2
        <4>2. CASE n < p
          BY <1>0, <1>c, <1>8, <3>2, <4>1, <4>2 DEF Unlisted
        <4>3. CASE n >= p
          <5>1. n + 1 \in 1 .. Len(d[l]) /\ ~(n + 1 < p) /\ n + 1 # p /\ (n + 1) - 1 = n
            BY <1>0, <1>c, <4>1, <4>3
          <5>2. n + 1 \in DOMAIN d[l] /\ d[l][n + 1] = c[l][n]
            BY <1>b, <1>c, <5>1
          <5> QED
            BY <1>8, <3>2, <5>2 DEF Unlisted
        <4> QED
          BY <1>0, <4>1, <4>2, <4>3
      <3> QED
        BY <3>1, <3>2
    <2>3. to_entry(j, e) # new /\ to_entry(j, e) \in Nodes
      BY <1>0, <2>1, NodeFacts DEF new
    <2>4. \A n \in 0 .. Len(c[l]) + 1 : At(c, l, n) # to_entry(j, e)
      BY <2>2, NotInRing
    <2>5. to_entry(j, e) # before /\ to_entry(j, e) # after
      BY <1>0, <2>4 DEF before, after
    <2>6. nx[to_entry(j, e)] = to_entry(j, e) /\ pv[to_entry(j, e)] = to_entry(j, e)
      BY <2>2 DEF Rings
    <2> QED
      BY <1>a, <2>3, <2>5, <2>6
  <1> QED
    BY <1>6, <1>7, <1>8 DEF Rings

-----------------------------------------------------------------------------
(* Removal                                                                    *)

\* t is s without what was at q.
RemovedAt(s, t, q) ==
    /\ Len(t) = Len(s) - 1
    /\ \A k \in 1 .. Len(s) - 1 : t[k] = IF k < q THEN s[k] ELSE s[k + 1]

\* t is s without the item i, which is at most once in s.
WithoutItem(s, t, i) ==
    \/ t = s /\ \A n \in DOMAIN s : s[n] # i
    \/ \E q \in DOMAIN s : s[q] = i /\ RemovedAt(s, t, q)

\* RemoveAt leaves what RemovedAt says.
LEMMA RemoveAtRemoves ==
    ASSUME NEW s \in Seq(Items), NEW q \in 1 .. Len(s)
    PROVE  Contents!RemoveAt(s, q) \in Seq(Items) /\ RemovedAt(s, Contents!RemoveAt(s, q), q)
  <1> DEFINE a == SubSeq(s, 1, q - 1)
             b == SubSeq(s, q + 1, Len(s))
  <1>1. Len(s) \in Nat /\ q \in Nat
    OBVIOUS
  <1>2. a \in Seq(Items) /\ Len(a) = q - 1 /\ \A k \in 1 .. q - 1 : a[k] = s[k]
    BY <1>1
  <1>3. b \in Seq(Items) /\ Len(b) = Len(s) - q /\ \A k \in 1 .. Len(s) - q : b[k] = s[q + k]
    BY <1>1
  <1>4. Contents!RemoveAt(s, q) = a \o b
    BY DEF Contents!RemoveAt
  <1> HIDE DEF a, b
  <1> DEFINE t == a \o b
  <1>5. /\ t \in Seq(Items) /\ Len(t) = Len(s) - 1
        /\ \A k \in 1 .. q - 1 : t[k] = a[k]
        /\ \A k \in q .. Len(s) - 1 : t[k] = b[k - (q - 1)]
    <2>0. a \in Seq(Items) /\ b \in Seq(Items) /\ Len(a) \in Nat /\ Len(b) \in Nat
      BY <1>2, <1>3
    <2>a. t \in Seq(Items) /\ Len(t) = Len(a) + Len(b)
      BY <2>0
    <2>b. ASSUME NEW k \in 1 .. Len(a) + Len(b)
          PROVE  t[k] = IF k <= Len(a) THEN a[k] ELSE b[k - Len(a)]
      BY <2>0
    <2>1. /\ t \in Seq(Items) /\ Len(t) = Len(a) + Len(b)
          /\ \A k \in 1 .. Len(a) : t[k] = a[k]
          /\ \A k \in Len(a) + 1 .. Len(a) + Len(b) : t[k] = b[k - Len(a)]
      <3> HIDE DEF t
      <3> QED
        BY <2>0, <2>a, <2>b
    <2>2. Len(a) = q - 1 /\ Len(a) + Len(b) = Len(s) - 1 /\ Len(a) + 1 = q
      BY <1>1, <1>2, <1>3
    <2> HIDE DEF t
    <2> QED
      BY <2>1, <2>2
  <1> HIDE DEF t
  <1>6. ASSUME NEW k \in 1 .. Len(s) - 1 PROVE t[k] = IF k < q THEN s[k] ELSE s[k + 1]
    <2>1. CASE k < q
      BY <1>1, <1>2, <1>5, <2>1
    <2>2. CASE k >= q
      <3>1. k - (q - 1) \in 1 .. Len(s) - q /\ k \in q .. Len(s) - 1 /\ q + (k - (q - 1)) = k + 1
        BY <1>1, <2>2
      <3> QED
        BY <1>1, <1>3, <1>5, <2>2, <3>1
    <2> QED
      BY <1>1, <2>1, <2>2
  <1>7. Contents!RemoveAt(s, q) = t
    BY <1>4 DEF t
  <1> QED
    BY <1>5, <1>6, <1>7 DEF RemovedAt

\* Without leaves what WithoutItem says.
LEMMA WithoutRemoves ==
    ASSUME NEW s \in Seq(Items), NEW i \in Items
    PROVE  Contents!Without(s, i) \in Seq(Items) /\ WithoutItem(s, Contents!Without(s, i), i)
  <1>1. CASE i \in Contents!ToSet(s)
    <2>1. \E n \in DOMAIN s : s[n] = i
      BY <1>1 DEF Contents!ToSet
    <2> DEFINE q == CHOOSE n \in DOMAIN s : s[n] = i
    <2>2. q \in DOMAIN s /\ s[q] = i
      BY <2>1
    <2>3. Contents!Without(s, i) = Contents!RemoveAt(s, q)
      BY <1>1 DEF Contents!Without
    <2> HIDE DEF q
    <2>4. Contents!RemoveAt(s, q) \in Seq(Items) /\ RemovedAt(s, Contents!RemoveAt(s, q), q)
      BY <2>2, RemoveAtRemoves
    <2> QED
      BY <2>2, <2>3, <2>4 DEF WithoutItem
  <1>2. CASE i \notin Contents!ToSet(s)
    BY <1>2 DEF Contents!ToSet, Contents!Without, WithoutItem
  <1> QED
    BY <1>1, <1>2

\* d is c without i in the lists of the entries E.
Removed(c, d, E, i) ==
    \A l \in Lists : IF Entry(l) \in E THEN WithoutItem(c[l], d[l], i) ELSE d[l] = c[l]

\* Where the nodes of a ring are after a removal
LEMMA RemoveMovesNodes ==
    ASSUME NEW c \in [Lists -> Seq(Items)], NEW d \in [Lists -> Seq(Items)], NEW l \in Lists,
           NEW q \in 1 .. Len(c[l]), Len(d[l]) = Len(c[l]) - 1,
           \A k \in 1 .. Len(c[l]) - 1 : d[l][k] = IF k < q THEN c[l][k] ELSE c[l][k + 1]
    PROVE  \A k \in 0 .. Len(c[l]) : At(d, l, k) = IF k < q THEN At(c, l, k) ELSE At(c, l, k + 1)
  <1>0. /\ Len(c[l]) \in Nat /\ DOMAIN c[l] = 1 .. Len(c[l]) /\ DOMAIN d[l] = 1 .. Len(c[l]) - 1
        /\ q \in Nat
    OBVIOUS
  <1> SUFFICES ASSUME NEW k \in 0 .. Len(c[l])
               PROVE  At(d, l, k) = IF k < q THEN At(c, l, k) ELSE At(c, l, k + 1)
    OBVIOUS
  <1>1. CASE k < q
    <2>1. k \in DOMAIN c[l] <=> k \in DOMAIN d[l]
      BY <1>0, <1>1
    <2>2. k \in DOMAIN d[l] => d[l][k] = c[l][k]
      BY <1>0, <1>1
    <2> QED
      BY <1>1, <2>1, <2>2 DEF At, Node
  <1>2. CASE ~(k < q)
    <2>1. k + 1 \in DOMAIN c[l] <=> k \in DOMAIN d[l]
      BY <1>0, <1>2
    <2>2. k \in DOMAIN d[l] => d[l][k] = c[l][k + 1]
      BY <1>0, <1>2
    <2> QED
      BY <1>2, <2>1, <2>2 DEF At, Node
  <1> QED
    BY <1>1, <1>2

\* n2 and p2 are nx and pv without the nodes of N.
TakenOut(nx, pv, n2, p2, N) ==
    \A x \in Nodes :
        /\ n2[x] = IF x \in N THEN x ELSE IF nx[x] \in N THEN nx[nx[x]] ELSE nx[x]
        /\ p2[x] = IF x \in N THEN x ELSE IF pv[x] \in N THEN pv[pv[x]] ELSE pv[x]

\* unlink takes a node out of its ring (list.hpp:63-73).
LEMMA UnlinkKeepsRings ==
    ASSUME NEW nx \in [Nodes -> Nodes], NEW pv \in [Nodes -> Nodes],
           NEW c \in [Lists -> Seq(Items)], Rings(nx, pv, c), NEW d \in [Lists -> Seq(Items)],
           NEW E \in SUBSET Entries, NEW i \in Items, Removed(c, d, E, i),
           NEW N, N = {to_entry(i, e) : e \in E},
           NEW n2 \in [Nodes -> Nodes], NEW p2 \in [Nodes -> Nodes],
           TakenOut(nx, pv, n2, p2, N)
    PROVE  Rings(n2, p2, d)
  <1>a. \A x \in Nodes :
            /\ n2[x] = IF x \in N THEN x ELSE IF nx[x] \in N THEN nx[nx[x]] ELSE nx[x]
            /\ p2[x] = IF x \in N THEN x ELSE IF pv[x] \in N THEN pv[pv[x]] ELSE pv[x]
    BY DEF TakenOut
  <1>b. \A m \in Lists : /\ Len(c[m]) \in Nat /\ DOMAIN c[m] = 1 .. Len(c[m])
                         /\ Len(d[m]) \in Nat /\ DOMAIN d[m] = 1 .. Len(d[m])
    OBVIOUS
  <1>c. /\ Apart(c)
        /\ \A m \in Lists : \A n \in 0 .. Len(c[m]) :
               nx[At(c, m, n)] = At(c, m, n + 1) /\ pv[At(c, m, n + 1)] = At(c, m, n)
    BY DEF Rings
  <1>d. ASSUME NEW m \in Lists
        PROVE  \/ d[m] = c[m] /\ \A n \in 1 .. Len(c[m]) : ~(Entry(m) \in E /\ c[m][n] = i)
               \/ \E q \in 1 .. Len(c[m]) :
                      /\ Entry(m) \in E /\ c[m][q] = i /\ Len(d[m]) = Len(c[m]) - 1
                      /\ \A k \in 1 .. Len(c[m]) - 1 : d[m][k] = IF k < q THEN c[m][k] ELSE c[m][k + 1]
    <2>1. CASE Entry(m) \in E
      <3>1. WithoutItem(c[m], d[m], i)
        BY <2>1 DEF Removed
      <3> QED
        BY <1>b, <2>1, <3>1 DEF WithoutItem, RemovedAt
    <2>2. CASE Entry(m) \notin E
      BY <2>2 DEF Removed
    <2> QED
      BY <2>1, <2>2
  <1>e. \A m \in Lists : \A n \in 0 .. Len(c[m]) + 1 : At(c, m, n) \in Nodes
    BY AtFacts
  \* The places of a ring that the nodes of N have
  <1>f. ASSUME NEW m \in Lists, NEW n \in 0 .. Len(c[m]) + 1
        PROVE  At(c, m, n) \in N => n \in 1 .. Len(c[m]) /\ Entry(m) \in E /\ c[m][n] = i
    <2> SUFFICES ASSUME At(c, m, n) \in N PROVE n \in 1 .. Len(c[m]) /\ Entry(m) \in E /\ c[m][n] = i
      OBVIOUS
    <2>0. /\ At(c, m, 0) = m /\ At(c, m, Len(c[m]) + 1) = m
          /\ \A k \in 1 .. Len(c[m]) :
                 c[m][k] \in Items /\ At(c, m, k) = to_entry(c[m][k], Entry(m)) /\ At(c, m, k) \notin Lists
      BY AtFacts
    <2>1. PICK e \in E : At(c, m, n) = to_entry(i, e)
      OBVIOUS
    <2>2. e \in Entries /\ to_entry(i, e) \notin Lists /\ Entry(m) \in Entries
      BY NodeFacts
    <2>3. n \in 1 .. Len(c[m])
      <3>1. n # 0 /\ n # Len(c[m]) + 1
        BY <2>0, <2>1, <2>2
      <3> QED
        BY <1>b, <3>1
    <2>4. to_entry(c[m][n], Entry(m)) = to_entry(i, e) /\ c[m][n] \in Items
      BY <2>0, <2>1, <2>3
    <2>5. c[m][n] = i /\ Entry(m) = e
      BY <2>2, <2>4, NodeFacts
    <2> QED
      BY <2>3, <2>5
  <1>g. ASSUME NEW m \in Lists, NEW n \in 1 .. Len(c[m]), Entry(m) \in E, c[m][n] = i
        PROVE  At(c, m, n) \in N
    <2>1. \A k \in 1 .. Len(c[m]) :
              c[m][k] \in Items /\ At(c, m, k) = to_entry(c[m][k], Entry(m)) /\ At(c, m, k) \notin Lists
      BY AtFacts
    <2> QED
      BY <1>g, <2>1
  <1>6. ASSUME NEW m \in Lists, NEW n \in 0 .. Len(d[m])
        PROVE  n2[At(d, m, n)] = At(d, m, n + 1) /\ p2[At(d, m, n + 1)] = At(d, m, n)
    <2>1. CASE d[m] = c[m] /\ \A k \in 1 .. Len(c[m]) : ~(Entry(m) \in E /\ c[m][k] = i)
      <3>1. n \in 0 .. Len(c[m]) + 1 /\ n + 1 \in 0 .. Len(c[m]) + 1 /\ n \in 0 .. Len(c[m])
        BY <1>b, <2>1
      <3>2. At(c, m, n) \notin N /\ At(c, m, n + 1) \notin N
        BY <1>f, <2>1, <3>1
      <3>3. At(d, m, n) = At(c, m, n) /\ At(d, m, n + 1) = At(c, m, n + 1)
        BY <2>1 DEF At
      <3> QED
        BY <1>a, <1>c, <1>e, <3>1, <3>2, <3>3
    <2>2. ASSUME NEW q \in 1 .. Len(c[m]),
                 Entry(m) \in E, c[m][q] = i, Len(d[m]) = Len(c[m]) - 1,
                 \A k \in 1 .. Len(c[m]) - 1 : d[m][k] = IF k < q THEN c[m][k] ELSE c[m][k + 1]
          PROVE  n2[At(d, m, n)] = At(d, m, n + 1) /\ p2[At(d, m, n + 1)] = At(d, m, n)
      <3>0. q \in Nat /\ Len(c[m]) \in Nat /\ n \in Nat
        BY <1>b
      <3>1. n \in 0 .. Len(c[m]) /\ n + 1 \in 0 .. Len(c[m]) /\ n + 1 <= Len(c[m])
        BY <2>2, <3>0
      <3>2. \A k \in 0 .. Len(c[m]) : At(d, m, k) = IF k < q THEN At(c, m, k) ELSE At(c, m, k + 1)
        BY <2>2, RemoveMovesNodes
      <3>3. ASSUME NEW k \in 0 .. Len(c[m]) + 1, k # q PROVE At(c, m, k) \notin N
        <4> SUFFICES ASSUME At(c, m, k) \in N PROVE FALSE
          OBVIOUS
        <4>1. k \in 1 .. Len(c[m]) /\ c[m][k] = i
          BY <1>f
        <4>2. k \in DOMAIN c[m] /\ q \in DOMAIN c[m] /\ c[m][k] = c[m][q]
          BY <1>b, <2>2, <4>1
        <4> QED
          BY <1>c, <3>3, <4>2 DEF Apart
      <3>4. At(c, m, q) \in N
        BY <1>g, <2>2
      <3>5. CASE n + 1 < q
        <4>1. At(d, m, n) = At(c, m, n) /\ At(d, m, n + 1) = At(c, m, n + 1)
          BY <3>0, <3>1, <3>2, <3>5
        <4>2. /\ At(c, m, n) \notin N /\ At(c, m, n + 1) \notin N
              /\ At(c, m, n) \in Nodes /\ At(c, m, n + 1) \in Nodes
          BY <1>e, <3>0, <3>1, <3>3, <3>5
        <4>3. nx[At(c, m, n)] = At(c, m, n + 1) /\ pv[At(c, m, n + 1)] = At(c, m, n)
          BY <1>c, <3>1
        <4> QED
          BY <1>a, <4>1, <4>2, <4>3
      <3>6. CASE n + 1 = q
        <4>1. At(d, m, n) = At(c, m, n) /\ At(d, m, n + 1) = At(c, m, q + 1)
          BY <3>0, <3>1, <3>2, <3>6
        <4>2. /\ At(c, m, n) \notin N /\ At(c, m, q + 1) \notin N
              /\ At(c, m, n) \in Nodes /\ At(c, m, q + 1) \in Nodes
          BY <1>e, <3>0, <3>1, <3>3, <3>6
        <4>3. /\ nx[At(c, m, n)] = At(c, m, q) /\ pv[At(c, m, q)] = At(c, m, n)
              /\ nx[At(c, m, q)] = At(c, m, q + 1) /\ pv[At(c, m, q + 1)] = At(c, m, q)
          <5>1. q \in 0 .. Len(c[m])
            BY <3>0
          <5> QED
            BY <1>c, <3>1, <3>6, <5>1
        <4> QED
          BY <1>a, <3>4, <4>1, <4>2, <4>3
      <3>7. CASE n >= q
        <4>1. At(d, m, n) = At(c, m, n + 1) /\ At(d, m, n + 1) = At(c, m, (n + 1) + 1)
          BY <3>0, <3>1, <3>2, <3>7
        <4>2. /\ At(c, m, n + 1) \notin N /\ At(c, m, (n + 1) + 1) \notin N
              /\ At(c, m, n + 1) \in Nodes /\ At(c, m, (n + 1) + 1) \in Nodes
          <5>1. /\ n + 1 \in 0 .. Len(c[m]) + 1 /\ (n + 1) + 1 \in 0 .. Len(c[m]) + 1
                /\ n + 1 # q /\ (n + 1) + 1 # q
            BY <3>0, <3>1, <3>7
          <5> QED
            BY <1>e, <3>3, <5>1
        <4>3. nx[At(c, m, n + 1)] = At(c, m, (n + 1) + 1) /\ pv[At(c, m, (n + 1) + 1)] = At(c, m, n + 1)
          BY <1>c, <3>1
        <4> QED
          BY <1>a, <4>1, <4>2, <4>3
      <3> QED
        BY <3>0, <3>5, <3>6, <3>7
    <2> QED
      BY <1>d, <2>1, <2>2
  <1>7. Apart(d)
    <2>1. ASSUME NEW m \in Lists, NEW n \in DOMAIN d[m], NEW k \in DOMAIN d[m]
          PROVE  /\ \E x \in DOMAIN c[m] : d[m][n] = c[m][x]
                 /\ d[m][n] = d[m][k] => n = k
      <3>0. \A x, y \in DOMAIN c[m] : c[m][x] = c[m][y] => x = y
        BY <1>c DEF Apart
      <3>1. CASE d[m] = c[m]
        BY <3>0, <3>1
      <3>2. ASSUME NEW q \in 1 .. Len(c[m]), Len(d[m]) = Len(c[m]) - 1,
                   \A x \in 1 .. Len(c[m]) - 1 : d[m][x] = IF x < q THEN c[m][x] ELSE c[m][x + 1]
            PROVE  /\ \E x \in DOMAIN c[m] : d[m][n] = c[m][x]
                   /\ d[m][n] = d[m][k] => n = k
        <4> DEFINE place(x) == IF x < q THEN x ELSE x + 1
        <4>0. /\ DOMAIN d[m] = 1 .. Len(c[m]) - 1 /\ DOMAIN c[m] = 1 .. Len(c[m])
              /\ Len(c[m]) \in Nat /\ q \in Nat
          BY <1>b, <3>2
        <4>1. /\ place(n) \in DOMAIN c[m] /\ d[m][n] = c[m][place(n)]
              /\ place(k) \in DOMAIN c[m] /\ d[m][k] = c[m][place(k)]
          BY <3>2, <4>0
        <4>2. place(n) = place(k) => n = k
          BY <4>0
        <4> HIDE DEF place
        <4> QED
          BY <3>0, <4>1, <4>2
      <3> QED
        BY <1>d, <3>1, <3>2
    <2> SUFFICES ASSUME NEW a \in Lists, NEW b \in Lists, NEW n \in DOMAIN d[a], NEW k \in DOMAIN d[b],
                        Entry(a) = Entry(b), d[a][n] = d[b][k]
                 PROVE  a = b /\ n = k
      BY DEF Apart
    <2>2. PICK x \in DOMAIN c[a] : d[a][n] = c[a][x]
      BY <2>1
    <2>3. PICK y \in DOMAIN c[b] : d[b][k] = c[b][y]
      BY <2>1
    <2>4. a = b
      BY <1>c, <2>2, <2>3 DEF Apart
    <2> QED
      BY <2>1, <2>4
  <1>8. ASSUME NEW j \in Items, NEW e \in Entries, Unlisted(d, j, e)
        PROVE  n2[to_entry(j, e)] = to_entry(j, e) /\ p2[to_entry(j, e)] = to_entry(j, e)
    <2>1. to_entry(j, e) \in Nodes
      BY NodeFacts
    <2>2. CASE to_entry(j, e) \in N
      BY <1>a, <2>1, <2>2
    <2>3. CASE to_entry(j, e) \notin N
      <3>1. Unlisted(c, j, e)
        <4> SUFFICES ASSUME NEW m \in Lists, NEW n \in DOMAIN c[m], Entry(m) = e, c[m][n] = j PROVE FALSE
          BY DEF Unlisted
        <4>0. n \in 1 .. Len(c[m]) /\ Len(c[m]) \in Nat /\ n \in Nat
          BY <1>b
        <4>1. CASE d[m] = c[m]
          BY <1>8, <4>1 DEF Unlisted
        <4>2. ASSUME NEW q \in 1 .. Len(c[m]), Entry(m) \in E, c[m][q] = i, Len(d[m]) = Len(c[m]) - 1,
                     \A k \in 1 .. Len(c[m]) - 1 : d[m][k] = IF k < q THEN c[m][k] ELSE c[m][k + 1]
              PROVE  FALSE
          <5>1. n # q
            BY <2>3, <4>2
          <5>2. q \in Nat
            BY <4>0
          <5>3. CASE n < q
            <6>1. n \in 1 .. Len(c[m]) - 1 /\ n \in DOMAIN d[m]
              BY <1>b, <4>0, <4>2, <5>2, <5>3
            <6>2. d[m][n] = j
              BY <4>2, <5>3, <6>1
            <6> QED
              BY <1>8, <6>1, <6>2 DEF Unlisted
          <5>4. CASE n > q
            <6>1. /\ n - 1 \in 1 .. Len(c[m]) - 1 /\ n - 1 \in DOMAIN d[m]
                  /\ ~(n - 1 < q) /\ (n - 1) + 1 = n
              BY <1>b, <4>0, <4>2, <5>2, <5>4
            <6>2. d[m][n - 1] = j
              BY <4>2, <6>1
            <6> QED
              BY <1>8, <6>1, <6>2 DEF Unlisted
          <5> QED
            BY <4>0, <5>1, <5>2, <5>3, <5>4
        <4> QED
          BY <1>d, <4>1, <4>2
      <3>2. nx[to_entry(j, e)] = to_entry(j, e) /\ pv[to_entry(j, e)] = to_entry(j, e)
        BY <3>1 DEF Rings
      <3> QED
        BY <1>a, <2>1, <2>3, <3>2
    <2> QED
      BY <2>2, <2>3
  <1> QED
    BY <1>6, <1>7, <1>8 DEF Rings

-----------------------------------------------------------------------------
(* The lists implement the sequences                                          *)

\* An entry that links to another node is in a list, the head of a list that is
\* not empty links to its first and its last item.
LEMMA LinksTell ==
    ASSUME NEW nx \in [Nodes -> Nodes], NEW pv \in [Nodes -> Nodes],
           NEW c \in [Lists -> Seq(Items)], Rings(nx, pv, c)
    PROVE  /\ \A i \in Items, e \in Entries : nx[to_entry(i, e)] = to_entry(i, e) <=> Unlisted(c, i, e)
           /\ \A l \in Lists :
                  /\ nx[l] = l <=> c[l] = <<>>
                  /\ c[l] # <<>> => /\ nx[l] = to_entry(c[l][1], Entry(l)) /\ c[l][1] \in Items
                                    /\ pv[l] = to_entry(c[l][Len(c[l])], Entry(l)) /\ c[l][Len(c[l])] \in Items
  <1>1. /\ Apart(c)
        /\ \A m \in Lists : \A n \in 0 .. Len(c[m]) :
               nx[At(c, m, n)] = At(c, m, n + 1) /\ pv[At(c, m, n + 1)] = At(c, m, n)
    BY DEF Rings
  <1>2. ASSUME NEW i \in Items, NEW e \in Entries, nx[to_entry(i, e)] = to_entry(i, e) PROVE Unlisted(c, i, e)
    <2> SUFFICES ASSUME NEW l \in Lists, NEW n \in DOMAIN c[l], Entry(l) = e, c[l][n] = i PROVE FALSE
      BY DEF Unlisted
    <2>1. /\ Len(c[l]) \in Nat /\ n \in 1 .. Len(c[l]) /\ n \in 0 .. Len(c[l])
          /\ n \in 1 .. Len(c[l]) + 1 /\ n + 1 \in 1 .. Len(c[l]) + 1 /\ n # n + 1
      OBVIOUS
    <2>2. \A k \in 1 .. Len(c[l]) :
              c[l][k] \in Items /\ At(c, l, k) = to_entry(c[l][k], Entry(l)) /\ At(c, l, k) \notin Lists
      BY AtFacts
    <2>3. At(c, l, n) = to_entry(i, e)
      BY <2>1, <2>2
    <2>4. At(c, l, n) = At(c, l, n + 1)
      BY <1>1, <1>2, <2>1, <2>3
    <2> QED
      BY <1>1, <2>1, <2>4, OneNodeOnePlace
  <1>3. ASSUME NEW i \in Items, NEW e \in Entries, Unlisted(c, i, e) PROVE nx[to_entry(i, e)] = to_entry(i, e)
    BY <1>3 DEF Rings
  <1>4. ASSUME NEW l \in Lists
        PROVE  /\ nx[l] = l <=> c[l] = <<>>
               /\ c[l] # <<>> => /\ nx[l] = to_entry(c[l][1], Entry(l)) /\ c[l][1] \in Items
                                 /\ pv[l] = to_entry(c[l][Len(c[l])], Entry(l)) /\ c[l][Len(c[l])] \in Items
    <2>1. Len(c[l]) \in Nat /\ (c[l] = <<>> <=> Len(c[l]) = 0)
      OBVIOUS
    <2>2. /\ At(c, l, 0) = l /\ At(c, l, Len(c[l]) + 1) = l
          /\ \A k \in 1 .. Len(c[l]) :
                 c[l][k] \in Items /\ At(c, l, k) = to_entry(c[l][k], Entry(l)) /\ At(c, l, k) \notin Lists
      BY AtFacts
    <2>3. nx[l] = At(c, l, 1) /\ pv[l] = At(c, l, Len(c[l]))
      <3>1. 0 \in 0 .. Len(c[l]) /\ Len(c[l]) \in 0 .. Len(c[l]) /\ 0 + 1 = 1
        BY <2>1
      <3>2. nx[At(c, l, 0)] = At(c, l, 1)
        BY <1>1, <3>1
      <3>3. pv[At(c, l, Len(c[l]) + 1)] = At(c, l, Len(c[l]))
        BY <1>1, <3>1
      <3> QED
        BY <2>2, <3>2, <3>3
    <2>4. CASE Len(c[l]) = 0
      BY <2>1, <2>2, <2>3, <2>4
    <2>5. CASE Len(c[l]) # 0
      <3>1. 1 \in 1 .. Len(c[l]) /\ Len(c[l]) \in 1 .. Len(c[l])
        BY <2>1, <2>5
      <3> QED
        BY <2>1, <2>2, <2>3, <2>5, <3>1
    <2> QED
      BY <2>4, <2>5
  <1> QED
    BY <1>2, <1>3, <1>4

\* The heads and the entries are rings, and one thread destroys a list at a time.
ListInv ==
    /\ next \in [Nodes -> Nodes] /\ prev \in [Nodes -> Nodes]
    /\ contentsBar \in [Lists -> Seq(Items)]
    /\ Rings(next, prev, contentsBar)
    /\ ending \in SUBSET Lists /\ \A l, m \in ending : l = m

\* New links that are rings through d show d.
LEMMA RingsShow ==
    ASSUME next' \in [Nodes -> Nodes], prev' \in [Nodes -> Nodes],
           NEW d \in [Lists -> Seq(Items)], Rings(next', prev', d)
    PROVE  contentsBar' = d
  <1>1. contentsBar' = Bar(next')
    BY DEF contentsBar, IsRing, Bar
  <1> QED
    BY <1>1, RingsTell

\* Heads that link to themselves are rings of empty lists (list.hpp:58-61).
LEMMA ListInitInv ==
    ASSUME ListInit
    PROVE  ListInv /\ Contents!ContentsInit
  <1> DEFINE c == [l \in Lists |-> << >>]
  <1>1. next \in [Nodes -> Nodes] /\ prev \in [Nodes -> Nodes] /\ c \in [Lists -> Seq(Items)]
    BY DEF ListInit
  <1>2. \A l \in Lists : c[l] = << >> /\ Len(c[l]) = 0 /\ DOMAIN c[l] = {} /\ At(c, l, 0) = l /\ At(c, l, 1) = l
    BY DEF At, Node
  <1> HIDE DEF c
  <1>3. Rings(next, prev, c)
    <2>1. Apart(c)
      BY <1>2 DEF Apart
    <2>2. ASSUME NEW l \in Lists, NEW n \in 0 .. Len(c[l])
          PROVE  next[At(c, l, n)] = At(c, l, n + 1) /\ prev[At(c, l, n + 1)] = At(c, l, n)
      <3>1. n = 0 /\ n + 1 = 1
        BY <1>2
      <3>2. next[l] = l /\ prev[l] = l
        BY NodeFacts DEF ListInit
      <3> QED
        BY <1>2, <3>1, <3>2
    <2>3. ASSUME NEW i \in Items, NEW e \in Entries
          PROVE  next[to_entry(i, e)] = to_entry(i, e) /\ prev[to_entry(i, e)] = to_entry(i, e)
      BY NodeFacts DEF ListInit
    <2> QED
      BY <2>1, <2>2, <2>3 DEF Rings
  <1>4. contentsBar = c
    <2>1. contentsBar = Bar(next)
      BY DEF contentsBar, IsRing, Bar
    <2> QED
      BY <1>1, <1>3, <2>1, RingsTell
  <1>5. Contents!Lists = Lists
    BY DEF Contents!Lists, Lists
  <1>6. ending = {} /\ living = Lists /\ found = NoItem
    BY DEF ListInit
  <1>7. contentsBar = [l \in Lists |-> << >>]
    BY <1>4 DEF c
  <1>8. ListInv
    BY <1>1, <1>3, <1>4, <1>6 DEF ListInv
  <1> QED
    BY <1>5, <1>6, <1>7, <1>8 DEF Contents!ContentsInit

\* A node that is in no ring goes between two that follow each other.
LEMMA InsertStep ==
    ASSUME ListInv, NEW l \in Lists, NEW p \in 1 .. Len(contentsBar[l]) + 1, NEW i \in Items,
           ~in_list(to_entry(i, Entry(l))), ending' = ending,
           \/ insert_before(to_entry(i, Entry(l)), At(contentsBar, l, p))
           \/ insert_after(to_entry(i, Entry(l)), At(contentsBar, l, p - 1))
    PROVE  /\ contentsBar' = [contentsBar EXCEPT ![l] = Contents!InsertAt(contentsBar[l], p, i)]
           /\ ListInv'
  <1> DEFINE c == contentsBar
             d == [c EXCEPT ![l] = Contents!InsertAt(c[l], p, i)]
             new == to_entry(i, Entry(l))
             before == At(c, l, p - 1)
             after == At(c, l, p)
  <1>1. /\ next \in [Nodes -> Nodes] /\ prev \in [Nodes -> Nodes] /\ c \in [Lists -> Seq(Items)]
        /\ Rings(next, prev, c)
    BY DEF ListInv
  <1>2. Unlisted(c, i, Entry(l))
    <2>1. next[new] = new /\ Entry(l) \in Entries
      BY NodeFacts DEF in_list
    <2> QED
      BY <1>1, <2>1, LinksTell
  <1>3. d \in [Lists -> Seq(Items)] /\ Inserted(c, d, l, p, i)
    BY <1>1, InsertAtInserts
  <1>4. new \in Nodes /\ before \in Nodes /\ after \in Nodes /\ next[before] = after /\ prev[after] = before
    <2>1. /\ Len(c[l]) \in Nat /\ p - 1 \in 0 .. Len(c[l]) /\ p - 1 \in 0 .. Len(c[l]) + 1
          /\ p \in 0 .. Len(c[l]) + 1 /\ (p - 1) + 1 = p
      BY <1>1
    <2>2. \A n \in 0 .. Len(c[l]) + 1 : At(c, l, n) \in Nodes
      BY <1>1, AtFacts
    <2>3. next[At(c, l, p - 1)] = At(c, l, (p - 1) + 1) /\ prev[At(c, l, (p - 1) + 1)] = At(c, l, p - 1)
      BY <1>1, <2>1 DEF Rings
    <2> QED
      BY <2>1, <2>2, <2>3, NodeFacts
  <1>5. new # before /\ new # after
    <2>1. Len(c[l]) \in Nat /\ p - 1 \in 0 .. Len(c[l]) + 1 /\ p \in 0 .. Len(c[l]) + 1 /\ Entry(l) \in Entries
      BY <1>1, NodeFacts
    <2> QED
      BY <1>1, <1>2, <2>1, NotInRing
  <1> HIDE DEF c, d, new, before, after
  <1>6. /\ next' = [next EXCEPT ![new] = after, ![before] = new]
        /\ prev' = [prev EXCEPT ![new] = before, ![after] = new]
    <2>1. CASE insert_before(new, after)
      BY <1>4, <2>1 DEF insert_before
    <2>2. CASE insert_after(new, before)
      BY <1>4, <1>5, <2>2 DEF insert_after
    <2> QED
      BY <2>1, <2>2 DEF new, before, after, c
  <1>7. /\ next' \in [Nodes -> Nodes] /\ prev' \in [Nodes -> Nodes]
        /\ PutBetween(next, prev, next', prev', new, before, after)
    BY <1>1, <1>4, <1>5, <1>6 DEF PutBetween
  <1>8. Rings(next', prev', d)
    <2>1. /\ p \in 1 .. Len(c[l]) + 1
          /\ PutBetween(next, prev, next', prev', to_entry(i, Entry(l)), At(c, l, p - 1), At(c, l, p))
      BY <1>7 DEF c, new, before, after
    <2> QED
      BY <1>1, <1>2, <1>3, <1>7, <2>1, InsertKeepsRings
  <1>9. contentsBar' = d
    BY <1>3, <1>7, <1>8, RingsShow
  <1>10. ListInv'
    BY <1>3, <1>7, <1>8, <1>9 DEF ListInv
  <1> QED
    BY <1>9, <1>10 DEF d, c

\* An item leaves the lists of the entries E, at most one place of each entry.
LEMMA RemoveStep ==
    ASSUME ListInv, NEW i \in Items, NEW E \in SUBSET Entries,
           Unlink({to_entry(i, e) : e \in E}), ending' = ending
    PROVE  /\ contentsBar' = [l \in Lists |-> IF Entry(l) \in E THEN Contents!Without(contentsBar[l], i)
                                              ELSE contentsBar[l]]
           /\ ListInv'
  <1> DEFINE c == contentsBar
             d == [l \in Lists |-> IF Entry(l) \in E THEN Contents!Without(c[l], i) ELSE c[l]]
             N == {to_entry(i, e) : e \in E}
  <1>1. /\ next \in [Nodes -> Nodes] /\ prev \in [Nodes -> Nodes] /\ c \in [Lists -> Seq(Items)]
        /\ Rings(next, prev, c)
    BY DEF ListInv
  <1> HIDE DEF c
  <1>2. ASSUME NEW l \in Lists
        PROVE  Contents!Without(c[l], i) \in Seq(Items) /\ WithoutItem(c[l], Contents!Without(c[l], i), i)
    <2>1. c[l] \in Seq(Items)
      BY <1>1
    <2> QED
      BY <2>1, WithoutRemoves
  <1>3. d \in [Lists -> Seq(Items)] /\ Removed(c, d, E, i)
    BY <1>1, <1>2 DEF Removed
  <1>4. /\ next' = [n \in Nodes |-> IF n \in N THEN n ELSE IF next[n] \in N THEN next[next[n]] ELSE next[n]]
        /\ prev' = [n \in Nodes |-> IF n \in N THEN n ELSE IF prev[n] \in N THEN prev[prev[n]] ELSE prev[n]]
    BY DEF Unlink
  <1> HIDE DEF d, N
  <1>5. /\ next' \in [Nodes -> Nodes] /\ prev' \in [Nodes -> Nodes]
        /\ TakenOut(next, prev, next', prev', N)
    BY <1>1, <1>4 DEF TakenOut
  <1>6. Rings(next', prev', d)
    <2>1. N = {to_entry(i, e) : e \in E}
      BY DEF N
    <2> QED
      BY <1>1, <1>3, <1>5, <2>1, UnlinkKeepsRings
  <1>7. contentsBar' = d
    BY <1>3, <1>5, <1>6, RingsShow
  <1>8. ListInv'
    BY <1>3, <1>5, <1>6, <1>7 DEF ListInv
  <1> QED
    BY <1>7, <1>8 DEF d, c

\* An item that no entry e links is free to be inserted by it.
LEMMA UnlinkedIsFree ==
    ASSUME ListInv, NEW i \in Items, NEW e \in Entries, ~in_list(to_entry(i, e))
    PROVE  Contents!Free(i, e)
  <1>1. Unlisted(contentsBar, i, e)
    BY LinksTell DEF ListInv, in_list
  <1> QED
    BY <1>1 DEF Unlisted, Contents!Free, Contents!ToSet, Contents!Lists, Contents!Entry, Lists, Entry

\* At the ends of a list an insertion is an Append, or its mirror image.
LEMMA InsertAtEnds ==
    ASSUME NEW s \in Seq(Items), NEW i \in Items
    PROVE  Contents!InsertAt(s, Len(s) + 1, i) = Append(s, i) /\ Contents!InsertAt(s, 1, i) = <<i>> \o s
  <1>1. Len(s) \in Nat /\ Len(s) + 1 \in 1 .. Len(s) + 1 /\ 1 \in 1 .. Len(s) + 1
    OBVIOUS
  <1>2. Contents!InsertAt(s, Len(s) + 1, i) = Append(s, i)
    <2> DEFINE t == Contents!InsertAt(s, Len(s) + 1, i)
    <2>1. /\ t \in Seq(Items) /\ Len(t) = Len(s) + 1
          /\ \A k \in 1 .. Len(s) + 1 :
                 t[k] = IF k < Len(s) + 1 THEN s[k] ELSE IF k = Len(s) + 1 THEN i ELSE s[k - 1]
      BY <1>1, InsertAtFacts
    <2> HIDE DEF t
    <2>2. /\ Append(s, i) \in Seq(Items) /\ Len(Append(s, i)) = Len(s) + 1
          /\ \A k \in 1 .. Len(s) + 1 : Append(s, i)[k] = t[k]
      BY <1>1, <2>1
    <2>3. t = Append(s, i)
      BY <1>1, <2>1, <2>2
    <2> QED
      BY <2>3 DEF t
  <1>3. Contents!InsertAt(s, 1, i) = <<i>> \o s
    <2> DEFINE t == Contents!InsertAt(s, 1, i)
    <2>1. /\ t \in Seq(Items) /\ Len(t) = Len(s) + 1
          /\ \A k \in 1 .. Len(s) + 1 : t[k] = IF k < 1 THEN s[k] ELSE IF k = 1 THEN i ELSE s[k - 1]
      BY <1>1, InsertAtFacts
    <2> HIDE DEF t
    <2>2. /\ <<i>> \o s \in Seq(Items) /\ Len(<<i>> \o s) = Len(s) + 1
          /\ \A k \in 1 .. Len(s) + 1 : (<<i>> \o s)[k] = t[k]
      BY <1>1, <2>1
    <2>3. t = <<i>> \o s
      BY <1>1, <2>1, <2>2
    <2> QED
      BY <2>3 DEF t
  <1> QED
    BY <1>2, <1>3

\* push_back links before the head: the item is the last (list.hpp:135-138).
LEMMA PushBackStep ==
    ASSUME ListInv, NEW l \in Lists, NEW i \in Items, push_back(l, i)
    PROVE  Contents!PutLast(l, i) /\ ListInv'
  <1> DEFINE s == contentsBar[l]
  <1>1. s \in Seq(Items) /\ Len(s) \in Nat /\ Len(s) + 1 \in 1 .. Len(s) + 1 /\ Entry(l) \in Entries
    BY NodeFacts DEF ListInv
  <1>2. At(contentsBar, l, Len(s) + 1) = l
    BY AtFacts DEF ListInv
  <1>3. /\ ~in_list(to_entry(i, Entry(l))) /\ insert_before(to_entry(i, Entry(l)), l)
        /\ living' = living /\ ending' = ending /\ found' = found
    BY DEF push_back, Insertable
  <1>4. /\ contentsBar' = [contentsBar EXCEPT ![l] = Contents!InsertAt(contentsBar[l], Len(s) + 1, i)]
        /\ ListInv'
    BY <1>1, <1>2, <1>3, InsertStep
  <1>5. Contents!Free(i, Entry(l))
    BY <1>1, <1>3, UnlinkedIsFree
  <1>6. Contents!InsertAt(contentsBar[l], Len(s) + 1, i) = Append(contentsBar[l], i)
    BY <1>1, InsertAtEnds
  <1>7. contentsBar' = [contentsBar EXCEPT ![l] = Append(contentsBar[l], i)]
    BY <1>4, <1>6
  <1> QED
    BY <1>3, <1>4, <1>5, <1>7 DEF Contents!PutLast, Contents!Becomes, Contents!Entry, Entry

\* push_front links behind the head: the item is the first (list.hpp:140-143).
LEMMA PushFrontStep ==
    ASSUME ListInv, NEW l \in Lists, NEW i \in Items, push_front(l, i)
    PROVE  Contents!PutFirst(l, i) /\ ListInv'
  <1> DEFINE s == contentsBar[l]
  <1>1. s \in Seq(Items) /\ Len(s) \in Nat /\ 1 \in 1 .. Len(s) + 1 /\ 1 - 1 = 0 /\ Entry(l) \in Entries
    BY NodeFacts DEF ListInv
  <1>2. At(contentsBar, l, 1 - 1) = l
    BY <1>1, AtFacts DEF ListInv
  <1>3. /\ ~in_list(to_entry(i, Entry(l))) /\ insert_after(to_entry(i, Entry(l)), l)
        /\ living' = living /\ ending' = ending /\ found' = found
    BY DEF push_front, Insertable
  <1>4. /\ contentsBar' = [contentsBar EXCEPT ![l] = Contents!InsertAt(contentsBar[l], 1, i)]
        /\ ListInv'
    BY <1>1, <1>2, <1>3, InsertStep
  <1>5. Contents!Free(i, Entry(l))
    BY <1>1, <1>3, UnlinkedIsFree
  <1>6. Contents!InsertAt(contentsBar[l], 1, i) = <<i>> \o contentsBar[l]
    BY <1>1, InsertAtEnds
  <1>7. contentsBar' = [contentsBar EXCEPT ![l] = <<i>> \o contentsBar[l]]
    BY <1>4, <1>6
  <1> QED
    BY <1>3, <1>4, <1>5, <1>7 DEF Contents!PutFirst, Contents!Becomes, Contents!Entry, Entry

\* An entry that is in a list has a place there.
LEMMA LinkedHasPlace ==
    ASSUME ListInv, NEW j \in Items, NEW e \in Entries, in_list(to_entry(j, e))
    PROVE  \E l \in Lists : \E n \in 1 .. Len(contentsBar[l]) :
               Entry(l) = e /\ contentsBar[l][n] = j /\ At(contentsBar, l, n) = to_entry(j, e)
  <1>1. contentsBar \in [Lists -> Seq(Items)] /\ ~Unlisted(contentsBar, j, e)
    BY LinksTell DEF ListInv, in_list
  <1>2. PICK l \in Lists : \E n \in DOMAIN contentsBar[l] : Entry(l) = e /\ contentsBar[l][n] = j
    BY <1>1 DEF Unlisted
  <1>3. PICK n \in 1 .. Len(contentsBar[l]) : Entry(l) = e /\ contentsBar[l][n] = j
    BY <1>1, <1>2
  <1>4. At(contentsBar, l, n) = to_entry(contentsBar[l][n], Entry(l))
    BY <1>1, AtFacts
  <1> QED
    BY <1>3, <1>4

\* insert_before at an item that is in a list (list.hpp:82-88)
LEMMA InsertBeforeStep ==
    ASSUME ListInv, NEW i \in Items, NEW j \in Items, NEW e \in Entries, InsertBefore(i, j, e)
    PROVE  Contents!PutBeside(i, j, e, 0) /\ ListInv'
  <1>1. /\ ~in_list(to_entry(i, e)) /\ in_list(to_entry(j, e)) /\ insert_before(to_entry(i, e), to_entry(j, e))
        /\ living' = living /\ ending' = ending /\ found' = found
    BY DEF InsertBefore, Insertable
  <1>2. PICK l \in Lists : \E n \in 1 .. Len(contentsBar[l]) :
            Entry(l) = e /\ contentsBar[l][n] = j /\ At(contentsBar, l, n) = to_entry(j, e)
    BY <1>1, LinkedHasPlace
  <1>3. PICK n \in 1 .. Len(contentsBar[l]) :
            Entry(l) = e /\ contentsBar[l][n] = j /\ At(contentsBar, l, n) = to_entry(j, e)
    BY <1>2
  <1>4. Len(contentsBar[l]) \in Nat /\ n \in 1 .. Len(contentsBar[l]) + 1 /\ n + 0 = n
    BY DEF ListInv
  <1>5. /\ contentsBar' = [contentsBar EXCEPT ![l] = Contents!InsertAt(contentsBar[l], n, i)]
        /\ ListInv'
    BY <1>1, <1>3, <1>4, InsertStep
  <1>6. Contents!Free(i, e)
    BY <1>1, UnlinkedIsFree
  <1>7. Contents!Becomes(l, Contents!InsertAt(contentsBar[l], n + 0, i))
    BY <1>1, <1>4, <1>5 DEF Contents!Becomes
  <1>8. l \in Contents!Lists /\ Contents!Entry(l) = e
    BY <1>3 DEF Contents!Lists, Contents!Entry, Lists, Entry
  <1> QED
    BY <1>3, <1>5, <1>6, <1>7, <1>8 DEF Contents!PutBeside

\* insert_after at an item that is in a list (list.hpp:90-96)
LEMMA InsertAfterStep ==
    ASSUME ListInv, NEW i \in Items, NEW j \in Items, NEW e \in Entries, InsertAfter(i, j, e)
    PROVE  Contents!PutBeside(i, j, e, 1) /\ ListInv'
  <1>1. /\ ~in_list(to_entry(i, e)) /\ in_list(to_entry(j, e)) /\ insert_after(to_entry(i, e), to_entry(j, e))
        /\ living' = living /\ ending' = ending /\ found' = found
    BY DEF InsertAfter, Insertable
  <1>2. PICK l \in Lists : \E n \in 1 .. Len(contentsBar[l]) :
            Entry(l) = e /\ contentsBar[l][n] = j /\ At(contentsBar, l, n) = to_entry(j, e)
    BY <1>1, LinkedHasPlace
  <1>3. PICK n \in 1 .. Len(contentsBar[l]) :
            Entry(l) = e /\ contentsBar[l][n] = j /\ At(contentsBar, l, n) = to_entry(j, e)
    BY <1>2
  <1>4. Len(contentsBar[l]) \in Nat /\ n + 1 \in 1 .. Len(contentsBar[l]) + 1 /\ (n + 1) - 1 = n
    BY DEF ListInv
  <1>5. /\ contentsBar' = [contentsBar EXCEPT ![l] = Contents!InsertAt(contentsBar[l], n + 1, i)]
        /\ ListInv'
    BY <1>1, <1>3, <1>4, InsertStep
  <1>6. Contents!Free(i, e)
    BY <1>1, UnlinkedIsFree
  <1>7. Contents!Becomes(l, Contents!InsertAt(contentsBar[l], n + 1, i))
    BY <1>1, <1>5 DEF Contents!Becomes
  <1>8. l \in Contents!Lists /\ Contents!Entry(l) = e
    BY <1>3 DEF Contents!Lists, Contents!Entry, Lists, Entry
  <1> QED
    BY <1>3, <1>5, <1>6, <1>7, <1>8 DEF Contents!PutBeside

\* remove takes an item out of the list its entry is in (list.hpp:68-75).
LEMMA RemoveActionStep ==
    ASSUME ListInv, NEW i \in Items, NEW e \in Entries, remove(i, e)
    PROVE  Contents!TakeOut(i, e) /\ ListInv'
  <1>1. /\ Unlink({to_entry(i, x) : x \in {e}})
        /\ living' = living /\ ending' = ending /\ found' = found
    <2>1. {to_entry(i, x) : x \in {e}} = {to_entry(i, e)}
      OBVIOUS
    <2> QED
      BY <2>1 DEF remove
  <1>2. /\ contentsBar' = [l \in Lists |-> IF Entry(l) \in {e} THEN Contents!Without(contentsBar[l], i)
                                           ELSE contentsBar[l]]
        /\ ListInv'
    BY <1>1, RemoveStep
  <1>3. contentsBar' = [l \in Lists |-> IF Entry(l) = e THEN Contents!Without(contentsBar[l], i)
                                        ELSE contentsBar[l]]
    BY <1>2
  <1>4. Contents!Lists = Lists /\ \A l \in Lists : Contents!Entry(l) = Entry(l)
    BY DEF Contents!Lists, Contents!Entry, Lists, Entry
  <1>5. contentsBar' = [l \in Contents!Lists |->
                            IF Contents!Entry(l) = e THEN Contents!Without(contentsBar[l], i)
                            ELSE contentsBar[l]]
    BY <1>3, <1>4
  <1> QED
    BY <1>1, <1>2, <1>5 DEF Contents!TakeOut

\* The destructors of an item's entries take it out of every list (list.hpp:63-66).
LEMMA DeleteStep ==
    ASSUME ListInv, NEW i \in Items, Delete(i),
           \A l \in ending : contentsBar[l] # << >> /\ i = Head(contentsBar[l])
    PROVE  Contents!Delete(i) /\ ListInv'
  <1>1. /\ Unlink({to_entry(i, e) : e \in Entries})
        /\ i \in living /\ living' = living \ {i} /\ ending' = ending /\ found' = found
    BY DEF Delete
  <1>2. /\ contentsBar' = [l \in Lists |-> IF Entry(l) \in Entries THEN Contents!Without(contentsBar[l], i)
                                           ELSE contentsBar[l]]
        /\ ListInv'
    BY <1>1, RemoveStep
  <1>3. contentsBar' = [l \in Lists |-> Contents!Without(contentsBar[l], i)]
    BY <1>2, NodeFacts
  <1>4. Contents!Lists = Lists
    BY DEF Contents!Lists, Lists
  <1> QED
    BY <1>1, <1>2, <1>3, <1>4 DEF Contents!Delete

\* An item is deleted while no list is destroyed.
LEMMA DeleteItemStep ==
    ASSUME ListInv, NEW i \in Items, DeleteItem(i)
    PROVE  Contents!Delete(i) /\ ListInv'
  <1>1. Delete(i) /\ ending = {}
    BY DEF DeleteItem
  <1> QED
    BY <1>1, DeleteStep

\* The destructor of a list deletes its first item (list.hpp:130-132).
LEMMA DeleteFrontStep ==
    ASSUME ListInv, NEW l \in Lists, DeleteFront(l)
    PROVE  Contents!Delete(Head(contentsBar[l])) /\ ListInv'
  <1>1. l \in ending /\ next[l] # l /\ Delete(from_entry(next[l]))
    BY DEF DeleteFront, empty, in_list
  <1>2. /\ contentsBar[l] # << >> /\ next[l] = to_entry(contentsBar[l][1], Entry(l))
        /\ contentsBar[l][1] \in Items
    <2>1. /\ next[l] = l <=> contentsBar[l] = << >>
          /\ contentsBar[l] # << >> =>
                 next[l] = to_entry(contentsBar[l][1], Entry(l)) /\ contentsBar[l][1] \in Items
      BY LinksTell DEF ListInv
    <2> QED
      BY <1>1, <2>1
  <1>3. from_entry(next[l]) = contentsBar[l][1]
    BY <1>2, NodeFacts
  <1>4. Head(contentsBar[l]) = contentsBar[l][1]
    BY DEF ListInv
  <1>5. \A m \in ending : contentsBar[m] # << >> /\ Head(contentsBar[l]) = Head(contentsBar[m])
    BY <1>1, <1>2 DEF ListInv
  <1> QED
    BY <1>1, <1>2, <1>3, <1>4, <1>5, DeleteStep

\* What links no node anew shows the same sequences.
LEMMA LinksRest ==
    ASSUME ListInv, UNCHANGED <<next, prev>>
    PROVE  contentsBar' = contentsBar
  BY DEF contentsBar, IsRing

\* front and back return the first and the last item (list.hpp:145-159).
LEMMA LookStep ==
    ASSUME ListInv, NEW l \in Lists
    PROVE  /\ front(l) => Contents!First(l)
           /\ back(l) => Contents!Final(l)
  <1>1. contentsBar[l] \in Seq(Items)
    BY DEF ListInv
  <1>2. /\ empty(l) <=> contentsBar[l] = << >>
        /\ contentsBar[l] # << >> =>
               /\ next[l] = to_entry(contentsBar[l][1], Entry(l)) /\ contentsBar[l][1] \in Items
               /\ prev[l] = to_entry(contentsBar[l][Len(contentsBar[l])], Entry(l))
               /\ contentsBar[l][Len(contentsBar[l])] \in Items
    BY LinksTell DEF ListInv, empty, in_list
  <1>3. contentsBar[l] # << >> =>
            /\ from_entry(next[l]) = Head(contentsBar[l])
            /\ from_entry(prev[l]) = Contents!Last(contentsBar[l])
    BY <1>1, <1>2, NodeFacts DEF Contents!Last
  <1>4. ASSUME front(l) PROVE Contents!First(l)
    BY <1>2, <1>3, <1>4, LinksRest DEF front, Contents!First, Contents!Find
  <1>5. ASSUME back(l) PROVE Contents!Final(l)
    BY <1>2, <1>3, <1>5, LinksRest DEF back, Contents!Final, Contents!Find
  <1> QED
    BY <1>4, <1>5

\* A destructor begins with every item, and ends without any (list.hpp:128-133).
LEMMA DestructStep ==
    ASSUME ListInv, NEW l \in Lists
    PROVE  /\ BeginDestruct(l) => Contents!BeginEnd(l)
           /\ EndDestruct(l) => Contents!End(l)
  <1>1. ASSUME BeginDestruct(l) PROVE Contents!BeginEnd(l)
    BY <1>1, LinksRest DEF BeginDestruct, Contents!BeginEnd
  <1>2. ASSUME EndDestruct(l) PROVE Contents!End(l)
    <2>1. contentsBar[l] = << >>
      BY <1>2, LinksTell DEF ListInv, EndDestruct, empty, in_list
    <2>2. ending = {l}
      BY <1>2 DEF ListInv, EndDestruct
    <2> QED
      BY <1>2, <2>1, <2>2, LinksRest DEF EndDestruct, Contents!End
  <1> QED
    BY <1>1, <1>2

\* Where the links are rings, each operation does what it is named for.
LEMMA OperationsFollow ==
    ASSUME ListInv
    PROVE  OperationsAgree
  <1>1. \A i \in Items : Create(i) => Contents!Create(i)
    BY LinksRest DEF Create, Contents!Create
  <1>2. \A i \in Items : DeleteItem(i) => Contents!Delete(i)
    BY DeleteItemStep
  <1>3. \A i \in Items, e \in Entries : remove(i, e) => Contents!TakeOut(i, e)
    BY RemoveActionStep
  <1>4. \A i, j \in Items, e \in Entries : /\ InsertBefore(i, j, e) => Contents!PutBeside(i, j, e, 0)
                                           /\ InsertAfter(i, j, e) => Contents!PutBeside(i, j, e, 1)
    BY InsertBeforeStep, InsertAfterStep
  <1>5. \A l \in Lists : front(l) => Contents!First(l)
    BY LookStep
  <1>6. \A l \in Lists : back(l) => Contents!Final(l)
    BY LookStep
  <1>7. \A l \in Lists : BeginDestruct(l) => Contents!BeginEnd(l)
    BY DestructStep
  <1>8. \A l \in Lists : EndDestruct(l) => Contents!End(l)
    BY DestructStep
  <1>9. \A l \in Lists : DeleteFront(l) => Contents!Delete(Head(contentsBar[l]))
    BY DeleteFrontStep
  <1>10. \A l \in Lists, i \in Items : /\ push_back(l, i) => Contents!PutLast(l, i)
                                       /\ push_front(l, i) => Contents!PutFirst(l, i)
    BY PushBackStep, PushFrontStep
  <1> QED
    BY <1>1, <1>2, <1>3, <1>4, <1>5, <1>6, <1>7, <1>8, <1>9, <1>10 DEF OperationsAgree

\* The links stay rings.
LEMMA ListStepInv ==
    ASSUME ListInv, [ListNext]_listVars
    PROVE  ListInv'
  <1>1. ASSUME UNCHANGED <<next, prev>>, ending' \in SUBSET Lists, \A l, m \in ending' : l = m
        PROVE  ListInv'
    BY <1>1, LinksRest DEF ListInv
  <1>2. ASSUME UNCHANGED <<next, prev, ending>> PROVE ListInv'
    BY <1>1, <1>2 DEF ListInv
  <1>3. CASE UNCHANGED listVars
    BY <1>2, <1>3 DEF listVars
  <1>4. ASSUME NEW i \in Items, Create(i) \/ DeleteItem(i) PROVE ListInv'
    BY <1>2, <1>4, DeleteItemStep DEF Create
  <1>5. ASSUME NEW i \in Items, NEW e \in Entries, remove(i, e) PROVE ListInv'
    BY <1>5, RemoveActionStep
  <1>6. ASSUME NEW i \in Items, NEW j \in Items, NEW e \in Entries,
               InsertBefore(i, j, e) \/ InsertAfter(i, j, e)
        PROVE  ListInv'
    BY <1>6, InsertBeforeStep, InsertAfterStep
  <1>7. ASSUME NEW l \in Lists, front(l) \/ back(l) PROVE ListInv'
    BY <1>2, <1>7 DEF front, back
  <1>8. ASSUME NEW l \in Lists, BeginDestruct(l) PROVE ListInv'
    BY <1>1, <1>8 DEF BeginDestruct
  <1>9. ASSUME NEW l \in Lists, DeleteFront(l) PROVE ListInv'
    BY <1>9, DeleteFrontStep
  <1>10. ASSUME NEW l \in Lists, EndDestruct(l) PROVE ListInv'
    BY <1>1, <1>10 DEF EndDestruct
  <1>11. ASSUME NEW l \in Lists, NEW i \in Items, push_back(l, i) \/ push_front(l, i) PROVE ListInv'
    BY <1>11, PushBackStep, PushFrontStep
  <1> QED
    BY <1>3, <1>4, <1>5, <1>6, <1>7, <1>8, <1>9, <1>10, <1>11 DEF ListNext

\* Each operation of the intrusive lists does to the sequences of items what it
\* is named for (list.hpp:63-97, 128-159), whatever the items, the entries and
\* the lists are and however many items there are.
THEOREM ListImplementsContents == ListSpec => ImplementsContents
  <1>1. ListInit => ListInv /\ Contents!ContentsInit
    BY ListInitInv
  <1>2. ListInv /\ [ListNext]_listVars => ListInv'
    BY ListStepInv
  <1>3. ListInv => OperationsAgree
    BY OperationsFollow
  <1> QED
    BY <1>1, <1>2, <1>3, PTL DEF ListSpec, ImplementsContents

-----------------------------------------------------------------------------
(* The run checks the parts side by side                                      *)

\* A behaviour of one part is a behaviour of each: the parts share no state
\* (include/ptl/expected.hpp, containers/list.hpp, packed_ptr.hpp,
\* type_safe/detail/integer_checking.hpp, src/socket.cpp).
THEOREM PartsAreApart ==
    PartsSpec => ExpectedSpec /\ ListSpec /\ PackedSpec /\ IntegerSpec /\ AddressSpec
  <1>1. PartsInit => ExpectedInit /\ ListInit /\ PackedInit /\ IntegerInit /\ AddressInit
    BY DEF PartsInit
  <1>2. [PartsNext]_partsVars =>
            /\ [ExpectedNext]_expectedVars /\ [ListNext]_listVars /\ [PackedNext]_packedVars
            /\ [IntegerNext]_asked /\ [AddressNext]_addressVars
    BY DEF PartsNext, partsVars
  <1> QED
    BY <1>1, <1>2, PTL DEF PartsSpec, ExpectedSpec, ListSpec, PackedSpec, IntegerSpec, AddressSpec

\* What is proved of the parts holds where the run checks it
\* (expected.hpp:64-166, list.hpp:63-159, packed_ptr.hpp:8-342, integer_checking.hpp:51-136,
\* socket.cpp:25-87, 123-137).
THEOREM PartsAreSafe ==
    PartsSpec => /\ []TagTells /\ []TestsExact /\ []ConnectReachesListener
                 /\ ImplementsVariant /\ ImplementsContents /\ ImplementsFields
  BY PartsAreApart, TagTellsHolds, TestsExactHolds, ExpectedImplementsVariant,
     ListImplementsContents, PackedImplementsFields, ConnectReachesListenerHolds, PTL
=============================================================================
