---------------------------- MODULE MCSignSession ----------------------------
\* Small instances of the signing environment for TLC: calls s1, s2, a1 and v1
\* on the clients alice and bob.
EXTENDS SignSession

CONSTANTS alice, bob, s1, s2, a1, v1

MCClientOf == [c \in Call |-> IF c \in {s1, v1} THEN alice ELSE bob]

=============================================================================
