-------------------------------- MODULE Variant --------------------------------
(* What expected promises to those who use it: each object is nothing, a      *)
(* value or an error, whatever its storage does to be so.                     *)
CONSTANTS Objects, Values, Errors,
          Moved  \* what a value or error is after it was moved from

VARIABLES content,  \* what each object is
          got       \* what the last access returned or threw

variantVars == <<content, got>>

Is(k, c) == [kind |-> k, of |-> c]

Nothing == Is("nothing", Moved)
NoObject == Is("none", Moved)
Indeterminate == Is("indeterminate", Moved)  \* an assignment to it has failed
Contents == {Nothing} \cup {Is("value", v) : v \in Values} \cup {Is("error", e) : e \in Errors}

Usable(x) == content[x] \notin {NoObject, Indeterminate}

\* An access finds what it asks for, throws the error it finds, or complains.
Access(c, want) ==
    IF c.kind = want THEN c
    ELSE IF c.kind = "error" THEN Is("thrown", c.of) ELSE Is("logic_error", Moved)

VariantInit == content = [x \in Objects |-> NoObject] /\ got = NoObject

Create(x) ==
    /\ content[x] = NoObject
    /\ \E c \in Contents : content' = [content EXCEPT ![x] = c]
    /\ UNCHANGED got

Copy(x, y) ==
    /\ content[x] # Indeterminate /\ Usable(y)
    /\ content' = [content EXCEPT ![x] = content[y]]
    /\ UNCHANGED got

\* The object moved from stays what it was, or keeps the husk of it.
MoveTo(x, y) ==
    /\ x # y /\ content[x] # Indeterminate /\ Usable(y)
    /\ \E c \in {content[y].of, Moved} :
           content' = [content EXCEPT ![x] = content[y], ![y].of = c]
    /\ UNCHANGED got

Fail(x) ==
    /\ Usable(x)
    /\ content' = [content EXCEPT ![x] = Indeterminate]
    /\ UNCHANGED got

Read(x, want) ==
    /\ Usable(x)
    /\ got' = Access(content[x], want)
    /\ UNCHANGED content

\* The value is handed over, and the object is nothing.
TakeOut(x) ==
    /\ Usable(x)
    /\ got' = Access(content[x], "value")
    /\ content' = [content EXCEPT ![x] = IF @.kind = "value" THEN Nothing ELSE @]

End(x) ==
    /\ Usable(x)
    /\ content' = [content EXCEPT ![x] = NoObject]
    /\ UNCHANGED got

VariantNext ==
    \E x \in Objects :
        \/ Create(x) \/ Fail(x) \/ TakeOut(x) \/ End(x)
        \/ \E y \in Objects : Copy(x, y) \/ MoveTo(x, y)
        \/ \E want \in {"nothing", "value", "error"} : Read(x, want)

VariantSpec == VariantInit /\ [][VariantNext]_variantVars
=============================================================================
