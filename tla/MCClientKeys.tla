----------------------------- MODULE MCClientKeys -----------------------------
\* Small instances of the key life cycle for TLC: calls c1, c2 and c3 on one
\* client, the first key created in an earlier session.
EXTENDS ClientKeys, TLC

CONSTANTS c1, c2, c3

MCKinds == [c \in Call |-> IF c = c3 THEN {"recover"} ELSE Kinds]
MCSymmetry == Permutations({c1, c2})
MCRecover == [c \in Call |-> {"recover"}]

=============================================================================
