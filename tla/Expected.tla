------------------------------- MODULE Expected -------------------------------
(* expected<T, E> of include/ptl/expected.hpp: a tag and a union in which the *)
(* object that the tag tells of is constructed and destroyed by hand. Every   *)
(* sequence of operations on a few objects of one of the three forms, for a   *)
(* T that is an object, a reference or void. The policy is the throwing one,  *)
(* with exceptions as errors, as in Task; with the other an access of the     *)
(* wrong kind ends the program.                                               *)
(*                                                                            *)
(* Copies and moves of T may throw, those of E do not. An object to which an  *)
(* assignment has thrown is not used again: its tag tells of nothing that is  *)
(* there, and even its destructor is undefined.                               *)
CONSTANTS Objects, Values, Errors,
          Moved  \* what a value or error is after it was moved from

VARIABLES
    T,        \* "object", "reference" or "void": which form
    objects,  \* contains_ and the union of each; "none" before and after its life
    failed,   \* the objects to which an assignment has thrown
    got,      \* what the last access returned or threw
    lost      \* what was in a union and is not, without having been destroyed

expectedVars == <<T, objects, failed, got, lost>>

Is(k, c) == [kind |-> k, of |-> c]

Raw == Is("raw", Moved)
Payloads == {Is("value", v) : v \in Values \cup {Moved}} \cup {Is("error", e) : e \in Errors \cup {Moved}}

Dead == [contains |-> "none", storage |-> Raw]

Tags == {"EXPECTED", "UNEXPECTED", "NOTHING"}

ExpectedTypeOK ==
    /\ T \in {"object", "reference", "void"}
    /\ objects \in [Objects -> [contains : Tags \cup {"none"}, storage : Payloads \cup {Raw}]]
    /\ failed \subseteq Objects
    /\ got \in [kind : {"none", "nothing", "value", "error", "thrown", "logic_error"},
                of : Values \cup Errors \cup {Moved}]
    /\ lost \subseteq Payloads

ExpectedInit ==
    /\ T \in {"object", "reference", "void"}
    /\ objects = [x \in Objects |-> Dead]
    /\ failed = {}
    /\ got = Is("none", Moved)
    /\ lost = {}

Unborn(x) == objects[x].contains = "none"
Usable(x) == ~Unborn(x) /\ x \notin failed

-----------------------------------------------------------------------------
(* The tag and the union *)

Tag(c) == IF c.kind = "value" THEN "EXPECTED" ELSE "UNEXPECTED"

\* The union of a T& holds a pointer: it has no destructor, and is copied when
\* it is moved.
IsPointer(c) == T = "reference" /\ c.kind = "value"

\* Mutant. operator= does not destroy what is there.
destroy_mut(o) == [o EXCEPT !.contains = "NOTHING"]

\* destroy()
destroy(o) ==
    [contains |-> "NOTHING",
     storage  |-> IF o.contains = "NOTHING" \/ IsPointer(o.storage) THEN o.storage ELSE Raw]

\* What a constructor in o's union leaves without an owner.
Overwritten(o) == IF o.storage = Raw \/ IsPointer(o.storage) THEN {} ELSE {o.storage}

\* contains_ = other.contains_, and placement new of what it tells of
Filled(o, other) ==
    [contains |-> other.contains,
     storage  |-> IF other.contains = "NOTHING" THEN o.storage ELSE other.storage]

MovedFrom(o) ==
    IF o.contains = "NOTHING" \/ IsPointer(o.storage) THEN o
    ELSE [contains |-> o.contains, storage |-> Is(o.storage.kind, Moved)]

-----------------------------------------------------------------------------
(* Construction and destruction. A constructor that throws makes no object.   *)

Default(x) ==
    /\ Unborn(x)
    /\ objects' = [objects EXCEPT ![x].contains = "NOTHING"]
    /\ UNCHANGED <<T, failed, got, lost>>

\* From a value or from an error
Construct(x, c) ==
    /\ Unborn(x)
    /\ objects' = [objects EXCEPT ![x] = [contains |-> Tag(c), storage |-> c]]
    /\ UNCHANGED <<T, failed, got, lost>>

MoveConstruct(x, y) ==
    /\ Unborn(x) /\ Usable(y)
    /\ objects' = [objects EXCEPT ![x] = Filled(Dead, objects[y]), ![y] = MovedFrom(@)]
    /\ UNCHANGED <<T, failed, got, lost>>

CopyConstruct(x, y) ==
    /\ Unborn(x) /\ Usable(y)
    /\ objects' = [objects EXCEPT ![x] = Filled(Dead, objects[y])]
    /\ UNCHANGED <<T, failed, got, lost>>

\* ~expected()
Destruct(x) ==
    /\ Usable(x)
    /\ objects' = [objects EXCEPT ![x] = Dead]
    /\ lost' = lost \cup Overwritten(destroy(objects[x]))
    /\ UNCHANGED <<T, failed, got>>

-----------------------------------------------------------------------------
(* Assignment: destroy, take over the tag, construct. T's constructor may     *)
(* throw, when the tag has been taken over.                                   *)

Throws(x, y) ==
    /\ T = "object" /\ objects[y].contains = "EXPECTED"
    /\ objects' = [objects EXCEPT ![x] = [contains |-> "EXPECTED", storage |-> Raw]]
    /\ failed' = failed \cup {x}
    /\ UNCHANGED <<T, got>>

Replaces(x, y) ==
    lost' = lost \cup (IF objects[y].contains = "NOTHING" THEN {}
                       ELSE Overwritten(destroy(objects[x])))

\* Mutant. Without the test for itself, it takes over what it has destroyed.
MoveAssign_mut(x, y) ==
    /\ Usable(x) /\ Usable(y)
    /\ LET after == [objects EXCEPT ![x] = destroy(@)]
       IN  /\ objects' = [after EXCEPT ![x] = Filled(@, after[y]),
                                       ![y] = IF x = y THEN @ ELSE MovedFrom(@)]
           /\ UNCHANGED <<T, failed, got, lost>>

MoveAssign(x, y) ==
    /\ Usable(x) /\ Usable(y)
    /\ \/ x = y /\ UNCHANGED expectedVars
       \/ x # y /\ Replaces(x, y) /\ Throws(x, y)
       \/ /\ x # y /\ Replaces(x, y)
          /\ objects' = [objects EXCEPT ![x] = Filled(destroy(@), objects[y]), ![y] = MovedFrom(@)]
          /\ UNCHANGED <<T, failed, got>>

CopyAssign(x, y) ==
    /\ Usable(x) /\ Usable(y)
    /\ \/ x = y /\ UNCHANGED expectedVars
       \/ x # y /\ Replaces(x, y) /\ Throws(x, y)
       \/ /\ x # y /\ Replaces(x, y)
          /\ objects' = [objects EXCEPT ![x] = Filled(destroy(@), objects[y])]
          /\ UNCHANGED <<T, failed, got>>

-----------------------------------------------------------------------------
(* Access *)

\* enforce() throws the error there is, or a logic_error. There is no throwing
\* of an exception_ptr that was moved from.
Enforced(o, kind) ==
    IF o.contains = kind THEN IF kind = "NOTHING" THEN Is("nothing", Moved) ELSE o.storage
    ELSE IF o.contains = "UNEXPECTED" THEN Is("thrown", o.storage.of) ELSE Is("logic_error", Moved)

Get(x, kind) ==
    /\ Usable(x)
    /\ got' = Enforced(objects[x], kind)
    /\ got' # Is("thrown", Moved)
    /\ UNCHANGED <<T, objects, failed, lost>>

\* value() &&: the tag goes, and the caller moves the value out of the union,
\* where the rest of it stays.
TakeValue(x) ==
    /\ Usable(x)
    /\ got' = Enforced(objects[x], "EXPECTED")
    /\ got' # Is("thrown", Moved)
    /\ objects' = [objects EXCEPT ![x] =
                       IF @.contains # "EXPECTED" THEN @
                       ELSE [MovedFrom(@) EXCEPT !.contains = "NOTHING"]]
    /\ UNCHANGED <<T, failed, lost>>

-----------------------------------------------------------------------------
(* The three forms. Copies and the move constructor of the one for references *)
(* cannot be instantiated, nor can the in-place constructor.                  *)

FromError(x) == \E e \in Errors : Construct(x, Is("error", e))
FromValue(x) == \E v \in Values : Construct(x, Is("value", v))

ObjectStep(x) ==
    /\ T = "object"
    /\ \/ Default(x) \/ FromValue(x) \/ FromError(x) \/ Destruct(x)
       \/ Get(x, "EXPECTED") \/ Get(x, "UNEXPECTED") \/ TakeValue(x)
       \/ \E y \in Objects : \/ MoveConstruct(x, y) \/ CopyConstruct(x, y)
                             \/ MoveAssign(x, y) \/ CopyAssign(x, y)

ReferenceStep(x) ==
    /\ T = "reference"
    /\ \/ Default(x) \/ FromValue(x) \/ FromError(x) \/ Destruct(x)
       \/ Get(x, "EXPECTED") \/ Get(x, "UNEXPECTED") \/ TakeValue(x)
       \/ \E y \in Objects : MoveAssign(x, y)

VoidStep(x) ==
    /\ T = "void"
    /\ \/ Default(x) \/ FromError(x) \/ Destruct(x)
       \/ Get(x, "NOTHING") \/ Get(x, "UNEXPECTED")
       \/ \E y \in Objects : \/ MoveConstruct(x, y) \/ CopyConstruct(x, y)
                             \/ MoveAssign(x, y) \/ CopyAssign(x, y)

ExpectedNext == \E x \in Objects : ObjectStep(x) \/ ReferenceStep(x) \/ VoidStep(x)

ExpectedSpec == ExpectedInit /\ [][ExpectedNext]_expectedVars

-----------------------------------------------------------------------------
\* What the tag of an object tells of its union
Tells(o) ==
    \/ o.contains = "none" /\ o.storage = Raw
    \/ o.contains = "EXPECTED" /\ o.storage.kind = "value"
    \/ o.contains = "UNEXPECTED" /\ o.storage.kind = "error"
    \/ o.contains = "NOTHING" /\ (o.storage \in {Raw, Is("value", Moved)} \/ IsPointer(o.storage))

\* The tag tells what is in the union, so every payload is destroyed once; only
\* the rest of a value that value()&& handed out is there without a tag, and is
\* never destroyed (expected.hpp:74-126, 143-148). An assignment that throws is
\* the one way to a tag that tells of nothing.
TagTells ==
    /\ lost \subseteq {Is("value", Moved)}
    /\ \A x \in Objects \ failed : Tells(objects[x])

\* What an object is to those who use it
MeaningOf(o) ==
    CASE o.contains = "none"    -> Is("none", Moved)
      [] o.contains = "NOTHING" -> Is("nothing", Moved)
      [] OTHER                  -> o.storage

contentBar ==
    [x \in Objects |-> IF x \in failed THEN Is("indeterminate", Moved) ELSE MeaningOf(objects[x])]

Meaning == INSTANCE Variant WITH content <- contentBar

\* Whatever is done to it, also to itself, an expected is nothing, a value or an
\* error, and an access returns or throws what it is (expected.hpp:64-166).
ImplementsVariant == Meaning!VariantSpec
=============================================================================
