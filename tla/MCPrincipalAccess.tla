-------------------------- MODULE MCPrincipalAccess --------------------------
\* Small instances of the principal access ceremonies for TLC: two keys, a
\* first holder p0, ceremonies g1 and g2 that grant p1 and p2, v0 and v1 that
\* revoke p0 and p1, and a rebind b that replaces p0 by p3 on both keys.
EXTENDS PrincipalAccess

CONSTANTS k1, k2, p0, p1, p2, p3, g1, g2, v0, v1, b

MCKeysOf == [c \in Ceremony |-> IF c = b THEN <<k1, k2>> ELSE <<k1>>]
MCSubjectOf == [c \in Ceremony |->
  CASE c = g1 -> p1 [] c = g2 -> p2 [] c = v0 -> p0 [] c = v1 -> p1 [] c = b -> p3]
MCPreviousOf == [c \in Rebind |-> p0]

=============================================================================
