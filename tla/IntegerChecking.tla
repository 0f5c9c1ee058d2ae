--------------------------- MODULE IntegerChecking ---------------------------
(* The tests of include/ptl/type_safe/detail/integer_checking.hpp, which tell *)
(* before an operation on two integers of one type whether its result can be  *)
(* represented. Signed subtraction is not here: its test adds to the          *)
(* functions max and min, not to what they return, and has no instance.       *)
EXTENDS Integers

CONSTANT Width  \* bits of T

ASSUME WidthAssumption == Width \in Nat \ {0, 1}

\* Powers of 2 double: true of every width, and named for the proofs, whose
\* provers have no induction for ^.
ASSUME PowerAssumption ==
    2 ^ (Width - 1) \in Nat \ {0, 1} /\ 2 ^ Width = 2 * 2 ^ (Width - 1)

VARIABLE asked  \* the last call of a test, and what it returned

Limits(tag) == CASE tag = "signed"   -> [min |-> -(2 ^ (Width - 1)), max |-> 2 ^ (Width - 1) - 1]
                 [] tag = "unsigned" -> [min |-> 0, max |-> 2 ^ Width - 1]

Representable(tag) == Limits(tag).min .. Limits(tag).max

Abs(a) == IF a < 0 THEN -a ELSE a

\* What a computation in T leaves of x
Wrap(tag, x) == Limits(tag).min + ((x - Limits(tag).min) % (2 ^ Width))

\* Division of C++ rounds towards zero, and the remainder has the dividend's sign.
Quotient(a, b) == IF (a < 0) = (b < 0) THEN Abs(a) \div Abs(b) ELSE -(Abs(a) \div Abs(b))

-----------------------------------------------------------------------------
is_addition_undefined(tag, a, b) ==
    LET limits == Limits(tag)
    IN  IF tag = "signed" /\ b < 0 THEN a < Wrap(tag, limits.min - b)
        ELSE a > Wrap(tag, limits.max - b)

is_subtraction_undefined(tag, a, b) == a < b

\* Mutant. One product too many: <= in place of <.
is_multiplication_undefined_mut(tag, a, b) ==
    LET over(x, y) == Wrap(tag, Quotient(x, y))
        min == Limits(tag).min
        max == Limits(tag).max
    IN  IF tag = "unsigned" THEN b # 0 /\ a > over(max, b)
        ELSE \/ a <= 0 /\ b <= 0 /\ a # 0 /\ b <= over(max, a)
             \/ a <= 0 /\ b > 0 /\ a < over(min, b)
             \/ a > 0 /\ b <= 0 /\ b < over(min, a)
             \/ a > 0 /\ b > 0 /\ a > over(max, b)

\* is_multiplcation_undefined
is_multiplication_undefined(tag, a, b) ==
    LET over(x, y) == Wrap(tag, Quotient(x, y))
        min == Limits(tag).min
        max == Limits(tag).max
    IN  IF tag = "unsigned" THEN b # 0 /\ a > over(max, b)
        ELSE \/ a <= 0 /\ b <= 0 /\ a # 0 /\ b < over(max, a)
             \/ a <= 0 /\ b > 0 /\ a < over(min, b)
             \/ a > 0 /\ b <= 0 /\ b < over(min, a)
             \/ a > 0 /\ b > 0 /\ a > over(max, b)

is_division_undefined(tag, a, b) ==
    b = 0 \/ (tag = "signed" /\ b = -1 /\ a = Limits(tag).min)

is_modulo_undefined(tag, a, b) == b = 0

-----------------------------------------------------------------------------
Nobody == [test |-> "none"]

Asks(test, tag, a, b, answer) ==
    asked' = [test |-> test, tag |-> tag, a |-> a, b |-> b, answer |-> answer]

IntegerInit == asked = Nobody

\* The tests have no state: one call stands for all.
IntegerNext ==
    /\ asked = Nobody
    /\ \E tag \in {"signed", "unsigned"} : \E a, b \in Representable(tag) :
           \/ Asks("addition", tag, a, b, is_addition_undefined(tag, a, b))
           \/ tag = "unsigned" /\ Asks("subtraction", tag, a, b, is_subtraction_undefined(tag, a, b))
           \/ Asks("multiplication", tag, a, b, is_multiplication_undefined(tag, a, b))
           \/ Asks("division", tag, a, b, is_division_undefined(tag, a, b))
           \/ Asks("modulo", tag, a, b, is_modulo_undefined(tag, a, b))

IntegerSpec == IntegerInit /\ [][IntegerNext]_asked

-----------------------------------------------------------------------------
\* Whether an operation has a result, and T can hold it
HasResult(test, tag, a, b) ==
    CASE test = "addition"       -> a + b \in Representable(tag)
      [] test = "subtraction"    -> a - b \in Representable(tag)
      [] test = "multiplication" -> a * b \in Representable(tag)
      [] test = "division"       -> b # 0 /\ Quotient(a, b) \in Representable(tag)
      [] test = "modulo"         -> b # 0

\* For all operands a test tells exactly when the operation has no result that
\* T can hold, at the limits of T too, and although the tests compute in T
\* themselves (integer_checking.hpp:51-136). The remainder of the least number by -1 is
\* taken for one that has: it is 0, but C++ leaves the division undefined.
TestsExact ==
    asked # Nobody =>
        (asked.answer <=> ~HasResult(asked.test, asked.tag, asked.a, asked.b))
=============================================================================
