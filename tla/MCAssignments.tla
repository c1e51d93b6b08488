---------------------------- MODULE MCAssignments ----------------------------
(* Assignments with interchangeable handlers and users but the creator. *)
EXTENDS Assignments

CONSTANTS creator, u1, h1, h2

TwoUsers == {creator, u1}
TwoHandlers == {h1, h2}
HandlerSymmetry == Permutations(TwoHandlers)

OwnerAndConditional ==
    << [type |-> OwnerRole, conditional |-> FALSE],
       [type |-> PropertyUser, conditional |-> TRUE] >>
=============================================================================
