----------------------------- MODULE PackedFields -----------------------------
(* What a packed pointer promises: a value, a small number and a pointer that *)
(* are set one at a time, by any thread, each as if it had a word of its own. *)
CONSTANT Fields

VARIABLE fields

FieldsInit == fields = [f \in Fields |-> {}]

\* Any member that sets a field
Set(f, v) == fields' = [fields EXCEPT ![f] = v]

\* A step of a loop that has not set its field yet
Nothing == UNCHANGED fields
=============================================================================
