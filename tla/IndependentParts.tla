--------------------------- MODULE IndependentParts ---------------------------
(* The parts of the library that keep state of their own and call no other:   *)
(* expected, List, PackedPtr, the tests of integers, and the addresses of     *)
(* sockets. A behaviour is one of one of them, the others rest, so that one   *)
(* run goes through them all.                                                 *)
EXTENDS Expected, List, PackedPtr, IntegerChecking, SocketAddresses

VARIABLE part

partsVars == <<part, expectedVars, listVars, packedVars, asked, addressVars>>

\* A part that rests does so in one state.
PartsInit ==
    /\ part \in {"expected", "list", "packed", "integers", "addresses"}
    /\ ExpectedInit /\ (part = "expected" \/ T = "void")
    /\ PackedInit /\ (part = "packed" \/ layout = "plain")
    /\ ListInit /\ IntegerInit /\ AddressInit

PartsNext ==
    /\ UNCHANGED part
    /\ \/ /\ part = "expected" /\ ExpectedNext
          /\ UNCHANGED <<listVars, packedVars, asked, addressVars>>
       \/ /\ part = "list" /\ ListNext
          /\ UNCHANGED <<expectedVars, packedVars, asked, addressVars>>
       \/ /\ part = "packed" /\ PackedNext
          /\ UNCHANGED <<expectedVars, listVars, asked, addressVars>>
       \/ /\ part = "integers" /\ IntegerNext
          /\ UNCHANGED <<expectedVars, listVars, packedVars, addressVars>>
       \/ /\ part = "addresses" /\ AddressNext
          /\ UNCHANGED <<expectedVars, listVars, packedVars, asked>>

PartsSpec == PartsInit /\ [][PartsNext]_partsVars

PartsTypeOK == ExpectedTypeOK /\ ListTypeOK /\ PackedTypeOK /\ AddressTypeOK
=============================================================================
