--------------------------- MODULE PolicyAst_proofs ---------------------------
(***************************************************************************)
(* Proofs about the canonical policy tree, for every list of texts and     *)
(* every tree that ends somewhere: what a walk over a tree returns, node   *)
(* by node; that the order the siblings are sorted by is one, and that a   *)
(* sort along it leaves one arrangement of them; that a canonical tree is  *)
(* its own canonical form; and that two of them with one sort key are one  *)
(* tree.                                                                   *)
(***************************************************************************)
EXTENDS PolicyAst, FiniteSetTheorems, SequenceTheorems, WellFoundedInduction, TLAPS

-----------------------------------------------------------------------------
(* Induction over numbers, from the well-foundedness of <.                 *)

LEMMA MinNat ==
  ASSUME NEW T \in SUBSET Nat, T # {}
  PROVE  \E m \in T : \A k \in T : m <= k
<1> DEFINE R == {p \in Nat \X Nat : p[1] < p[2]}
<1>1. IsWellFoundedOn(R, Nat)
  BY NatLessThanWellFounded DEF OpToRel
<1>2. PICK m \in T : \A k \in T : ~(<<k, m>> \in R)
  <2> HIDE DEF R
  <2>1. QED  BY <1>1, WFMin
<1>3. ASSUME NEW k \in T  PROVE m <= k
  <2>1. k \in Nat /\ m \in Nat
    OBVIOUS
  <2>2. <<k, m>> \in Nat \X Nat
    BY <2>1
  <2>3. ~(k < m)
    BY <1>2, <2>2
  <2>4. QED  BY <2>1, <2>3
<1>4. QED  BY <1>3

LEMMA CountUp ==
  ASSUME NEW S, 0 \in S, \A n \in Nat : n \in S => n + 1 \in S
  PROVE  \A n \in Nat : n \in S
<1> SUFFICES ASSUME NEW n \in Nat, n \notin S  PROVE FALSE
  OBVIOUS
<1>1. PICK m \in Nat \ S : \A k \in Nat \ S : m <= k
  BY MinNat
<1>2. m # 0 /\ m - 1 \in Nat
  BY <1>1
<1>3. m - 1 \in S
  BY <1>1, <1>2
<1>4. QED  BY <1>1, <1>2, <1>3

-----------------------------------------------------------------------------
(* Trees: their levels, what is under a root, and induction over it.       *)

NodeLevel(root) == Level(root, Children)
Under(S) == UNION {ToSet(Children(n)) : n \in S}
\* A tree ends somewhere.
Finite(root) == \E h \in Nat : NodeLevel(root)[h] = {}

LEMMA LevelRule ==
  ASSUME NEW root
  PROVE  /\ NodeLevel(root)[0] = {root}
         /\ \A d \in Nat : NodeLevel(root)[d + 1] = Under(NodeLevel(root)[d])
<1> DEFINE IsLevel(f) == f = [d \in Nat |-> IF d = 0 THEN {root} ELSE Under(f[d - 1])]
           Part(f, h) == f = [d \in 0 .. h |-> IF d = 0 THEN {root} ELSE Under(f[d - 1])]
           N == {h \in Nat : \E f : Part(f, h)}
           F(h) == CHOOSE f : Part(f, h)
           G == [d \in Nat |-> F(d)[d]]
<1>1. 0 \in N
  <2>1. Part([d \in 0 .. 0 |-> {root}], 0)
    OBVIOUS
  <2>2. QED  BY <2>1
<1>2. ASSUME NEW h \in Nat, h \in N  PROVE h + 1 \in N
  <2>1. PICK f : Part(f, h)
    BY <1>2
  <2>2. PICK g : g = [d \in 0 .. h + 1 |-> IF d = 0 THEN {root} ELSE Under(f[d - 1])]
    OBVIOUS
  <2>3. ASSUME NEW d \in 0 .. h  PROVE g[d] = f[d]
    <3>1. d \in 0 .. h + 1
      OBVIOUS
    <3>2. f[d] = IF d = 0 THEN {root} ELSE Under(f[d - 1])
      BY <2>1
    <3>3. g[d] = IF d = 0 THEN {root} ELSE Under(f[d - 1])
      BY <2>2, <3>1
    <3>4. QED  BY <3>2, <3>3
  <2>4. \A d \in 0 .. h + 1 : d # 0 => g[d - 1] = f[d - 1]
    BY <2>3
  <2>5. Part(g, h + 1)
    BY <2>2, <2>4
  <2>6. QED  BY <2>5
<1>3. ASSUME NEW h \in Nat  PROVE Part(F(h), h)
  <2> HIDE DEF N
  <2>1. h \in N
    BY <1>1, <1>2, CountUp
  <2> USE DEF N
  <2>2. PICK f : Part(f, h)
    BY <2>1
  <2> HIDE DEF Part
  <2>3. QED  BY <2>2
<1>4. ASSUME NEW h \in Nat  PROVE \A d \in 0 .. h : F(h)[d] = F(h + 1)[d]
  <2> DEFINE f == F(h)
             g == F(h + 1)
             S == {d \in Nat : d <= h => f[d] = g[d]}
  <2>1. Part(f, h) /\ Part(g, h + 1)
    <3> HIDE DEF Part, F
    <3>1. h + 1 \in Nat
      OBVIOUS
    <3>2. QED  BY <1>3, <3>1
  <2> HIDE DEF F, f, g
  <2>2. 0 \in S
    BY <2>1
  <2>3. ASSUME NEW d \in Nat, d \in S, d + 1 <= h  PROVE f[d + 1] = g[d + 1]
    <3>1. d + 1 \in 0 .. h /\ d + 1 \in 0 .. h + 1 /\ d + 1 # 0 /\ (d + 1) - 1 = d
      BY <2>3
    <3>2. f[d + 1] = Under(f[d]) /\ g[d + 1] = Under(g[d])
      BY <2>1, <3>1
    <3>3. f[d] = g[d]
      BY <2>3
    <3>4. QED  BY <3>2, <3>3
  <2>4. \A d \in Nat : d \in S
    <3>1. \A d \in Nat : d \in S => d + 1 \in S
      BY <2>3
    <3> HIDE DEF S
    <3>2. QED  BY <2>2, <3>1, CountUp
  <2>5. QED  BY <2>4 DEF f, g
<1>5. \A d \in Nat : G[d] = IF d = 0 THEN {root} ELSE Under(G[d - 1])
  <2> SUFFICES ASSUME NEW d \in Nat
               PROVE  G[d] = IF d = 0 THEN {root} ELSE Under(G[d - 1])
    OBVIOUS
  <2>1. G[d] = F(d)[d]
    BY DEF G
  <2>2. F(d)[d] = IF d = 0 THEN {root} ELSE Under(F(d)[d - 1])
    <3>1. Part(F(d), d)
      BY <1>3
    <3>2. PICK f : f = F(d)
      OBVIOUS
    <3>3. f = [e \in 0 .. d |-> IF e = 0 THEN {root} ELSE Under(f[e - 1])]
      BY ONLY <3>1, <3>2
    <3>4. d \in 0 .. d
      OBVIOUS
    <3>5. f[d] = IF d = 0 THEN {root} ELSE Under(f[d - 1])
      BY ONLY <3>3, <3>4
    <3>6. QED  BY ONLY <3>2, <3>5
  <2>3. CASE d # 0
    <3>1. d - 1 \in Nat /\ d - 1 \in 0 .. d - 1 /\ (d - 1) + 1 = d
      BY <2>3
    <3> HIDE DEF F
    <3>2. F(d - 1)[d - 1] = F((d - 1) + 1)[d - 1]
      BY <1>4, <3>1
    <3>3. G[d - 1] = F(d)[d - 1]
      BY <3>1, <3>2
    <3>4. QED  BY <2>1, <2>2, <2>3, <3>3
  <2>4. QED  BY <2>1, <2>2, <2>3
<1>6. IsLevel(G)
  <2> PICK g : g = G
    OBVIOUS
  <2>1. g = [d \in Nat |-> g[d]]
    OBVIOUS
  <2> HIDE DEF G
  <2>2. \A d \in Nat : g[d] = IF d = 0 THEN {root} ELSE Under(g[d - 1])
    BY <1>5
  <2>3. g = [d \in Nat |-> IF d = 0 THEN {root} ELSE Under(g[d - 1])]
    BY ONLY <2>1, <2>2
  <2>4. QED  BY <2>3
<1>7. NodeLevel(root) = CHOOSE f : IsLevel(f)
  BY DEF NodeLevel, Level, Under
<1>8. IsLevel(NodeLevel(root))
  <2> HIDE DEF IsLevel, G
  <2>1. QED  BY <1>6, <1>7
<1>9. QED  BY <1>8

\* What is below a node is below whatever the node is below.
LEMMA Deeper ==
  ASSUME NEW root, NEW d \in Nat, NEW n \in NodeLevel(root)[d], NEW e \in Nat
  PROVE  NodeLevel(n)[e] \subseteq NodeLevel(root)[d + e]
<1> DEFINE S == {k \in Nat : NodeLevel(n)[k] \subseteq NodeLevel(root)[d + k]}
<1>1. 0 \in S
  BY LevelRule
<1>2. ASSUME NEW k \in Nat, k \in S  PROVE k + 1 \in S
  <2>1. NodeLevel(n)[k + 1] = Under(NodeLevel(n)[k])
    BY LevelRule
  <2>2. NodeLevel(root)[(d + k) + 1] = Under(NodeLevel(root)[d + k])
    <3>1. d + k \in Nat
      OBVIOUS
    <3>2. QED  BY <3>1, LevelRule
  <2>3. (d + k) + 1 = d + (k + 1)
    OBVIOUS
  <2>4. Under(NodeLevel(n)[k]) \subseteq Under(NodeLevel(root)[d + k])
    BY <1>2 DEF Under
  <2>5. QED  BY <2>1, <2>2, <2>3, <2>4
<1> HIDE DEF S
<1>3. e \in S
  BY <1>1, <1>2, CountUp
<1>4. QED  BY <1>3 DEF S

\* A level of a root is made of the levels of its children.
LEMMA LevelShift ==
  ASSUME NEW root, NEW d \in Nat
  PROVE  NodeLevel(root)[d + 1] = UNION {NodeLevel(c)[d] : c \in ToSet(Children(root))}
<1> DEFINE kids == ToSet(Children(root))
           S == {k \in Nat : NodeLevel(root)[k + 1] = UNION {NodeLevel(c)[k] : c \in kids}}
<1>1. 0 \in S
  <2>1. NodeLevel(root)[0] = {root} /\ NodeLevel(root)[0 + 1] = Under(NodeLevel(root)[0])
    BY LevelRule
  <2>2. Under({root}) = kids
    BY DEF Under
  <2>3. \A c \in kids : NodeLevel(c)[0] = {c}
    BY LevelRule
  <2> HIDE DEF kids
  <2>4. kids = UNION {NodeLevel(c)[0] : c \in kids}
    BY <2>3
  <2>5. QED  BY <2>1, <2>2, <2>4
<1>2. ASSUME NEW k \in Nat, k \in S  PROVE k + 1 \in S
  <2>1. NodeLevel(root)[(k + 1) + 1] = Under(NodeLevel(root)[k + 1])
    <3>1. k + 1 \in Nat
      OBVIOUS
    <3>2. QED  BY <3>1, LevelRule
  <2>2. \A c \in kids : NodeLevel(c)[k + 1] = Under(NodeLevel(c)[k])
    BY LevelRule
  <2> HIDE DEF kids
  <2>3. Under(UNION {NodeLevel(c)[k] : c \in kids}) = UNION {Under(NodeLevel(c)[k]) : c \in kids}
    BY DEF Under
  <2>4. UNION {NodeLevel(c)[k + 1] : c \in kids} = UNION {Under(NodeLevel(c)[k]) : c \in kids}
    BY <2>2
  <2>5. QED  BY <1>2, <2>1, <2>3, <2>4
<1> HIDE DEF S
<1>3. d \in S
  BY <1>1, <1>2, CountUp
<1>4. QED  BY <1>3 DEF S

\* Below an empty level there is nothing.
LEMMA EmptyBelow ==
  ASSUME NEW root, NEW d \in Nat, NodeLevel(root)[d] = {}, NEW e \in Nat, d <= e
  PROVE  NodeLevel(root)[e] = {}
<1> DEFINE S == {k \in Nat : NodeLevel(root)[d + k] = {}}
<1>1. 0 \in S
  OBVIOUS
<1>2. ASSUME NEW k \in Nat, k \in S  PROVE k + 1 \in S
  <2>1. d + k \in Nat /\ (d + k) + 1 = d + (k + 1)
    OBVIOUS
  <2>2. NodeLevel(root)[(d + k) + 1] = Under(NodeLevel(root)[d + k])
    BY <2>1, LevelRule
  <2>3. Under({}) = {}
    BY DEF Under
  <2>4. QED  BY <1>2, <2>1, <2>2, <2>3
<1> HIDE DEF S
<1>3. e - d \in S
  <2>1. e - d \in Nat
    OBVIOUS
  <2>2. QED  BY <1>1, <1>2, <2>1, CountUp
<1>4. QED  BY <1>3 DEF S

\* The nodes a walk reaches are those of all levels.
LEMMA SubtreesAre ==
  ASSUME NEW root, Finite(root)
  PROVE  Subtrees(root) = UNION {NodeLevel(root)[d] : d \in Nat}
<1> DEFINE L == NodeLevel(root)
           IsFrom(f) == f = [d \in Nat |-> IF L[d] = {} THEN {} ELSE L[d] \cup f[d + 1]]
           All(d) == UNION {L[e] : e \in {e \in Nat : d <= e}}
           g == [d \in Nat |-> All(d)]
           from == CHOOSE f : IsFrom(f)
<1>1. PICK h \in Nat : L[h] = {}
  BY DEF Finite
<1>2. Subtrees(root) = from[0]
  BY DEF Subtrees, Reached, NodeLevel
<1>3. \A d \in Nat : L[d] = {} => \A e \in Nat : d <= e => L[e] = {}
  BY EmptyBelow
<1> HIDE DEF L
<1>4. ASSUME NEW d \in Nat
      PROVE  All(d) = IF L[d] = {} THEN {} ELSE L[d] \cup All(d + 1)
  <2>1. CASE L[d] = {}
    BY <1>3, <2>1
  <2>2. \A e \in Nat : d <= e <=> e = d \/ d + 1 <= e
    OBVIOUS
  <2>3. All(d) = L[d] \cup All(d + 1)
    BY <2>2
  <2>4. QED  BY <2>1, <2>3
<1>5. IsFrom(g)
  <2>1. \A d \in Nat : g[d] = All(d) /\ g[d + 1] = All(d + 1)
    OBVIOUS
  <2> HIDE DEF All
  <2>2. \A d \in Nat : All(d) = IF L[d] = {} THEN {} ELSE L[d] \cup g[d + 1]
    BY <1>4, <2>1
  <2>3. QED  BY <2>2
<1>6. IsFrom(from)
  <2> HIDE DEF IsFrom, g
  <2>1. QED  BY <1>5
<1> DEFINE S == {k \in Nat : k <= h => from[h - k] = All(h - k)}
<1> HIDE DEF from
<1>7. 0 \in S
  <2>1. from[h] = {} /\ All(h) = {}
    BY <1>1, <1>3, <1>6
  <2>2. h - 0 = h
    OBVIOUS
  <2> HIDE DEF All
  <2>3. QED  BY <2>1, <2>2
<1>8. ASSUME NEW k \in Nat, k \in S, k + 1 <= h
      PROVE  from[h - (k + 1)] = All(h - (k + 1))
  <2>1. PICK d \in Nat : d = h - (k + 1)
    BY <1>8
  <2>2. d + 1 = h - k /\ k <= h
    BY <2>1, <1>8
  <2> HIDE DEF All
  <2>3. from[d + 1] = All(d + 1)
    BY <1>8, <2>2
  <2>4. from[d] = IF L[d] = {} THEN {} ELSE L[d] \cup from[d + 1]
    BY <1>6
  <2>5. from[d] = All(d)
    BY <1>4, <2>3, <2>4
  <2>6. QED  BY <2>1, <2>5
<1>9. h \in S
  <2>1. \A k \in Nat : k \in S => k + 1 \in S
    BY <1>8
  <2> HIDE DEF S
  <2>2. QED  BY <1>7, <2>1, CountUp
<1>10. from[0] = All(0)
  <2>1. h <= h /\ h - h = 0
    OBVIOUS
  <2> HIDE DEF All
  <2>2. QED  BY <1>9, <2>1
<1>11. All(0) = UNION {L[e] : e \in Nat}
  <2>1. {e \in Nat : 0 <= e} = Nat
    OBVIOUS
  <2>2. QED  BY <2>1
<1>12. QED  BY <1>2, <1>10, <1>11 DEF L

\* A tree is its root and the trees of its children, and every node of it is
\* the root of a tree of its own.
LEMMA SubtreeFacts ==
  ASSUME NEW root, Finite(root)
  PROVE  /\ root \in Subtrees(root)
         /\ Subtrees(root) = {root} \cup UNION {Subtrees(c) : c \in ToSet(Children(root))}
         /\ \A c \in ToSet(Children(root)) : Finite(c)
         /\ \A n \in Subtrees(root) : /\ Finite(n)
                                      /\ Subtrees(n) \subseteq Subtrees(root)
                                      /\ ToSet(Children(n)) \subseteq Subtrees(root)
<1> DEFINE kids == ToSet(Children(root))
           All(n) == UNION {NodeLevel(n)[d] : d \in Nat}
<1>1. NodeLevel(root)[0] = {root}
  BY LevelRule
<1>2. PICK h \in Nat : NodeLevel(root)[h] = {}
  BY DEF Finite
<1>3. Subtrees(root) = All(root)
  BY SubtreesAre
<1>4. ASSUME NEW n \in Subtrees(root)
      PROVE  /\ Finite(n)
             /\ Subtrees(n) \subseteq Subtrees(root)
             /\ ToSet(Children(n)) \subseteq Subtrees(root)
  <2>1. PICK d \in Nat : n \in NodeLevel(root)[d]
    BY <1>3
  <2>2. \A e \in Nat : NodeLevel(n)[e] \subseteq NodeLevel(root)[d + e]
    BY <2>1, Deeper
  <2>3. NodeLevel(root)[d + h] = {}
    <3>1. d + h \in Nat /\ h <= d + h
      OBVIOUS
    <3>2. QED  BY <1>2, <3>1, EmptyBelow
  <2>4. Finite(n)
    BY <2>2, <2>3 DEF Finite
  <2>5. Subtrees(n) \subseteq Subtrees(root)
    <3>1. Subtrees(n) = All(n)
      BY <2>4, SubtreesAre
    <3>2. \A e \in Nat : d + e \in Nat
      OBVIOUS
    <3>3. QED  BY <1>3, <2>2, <3>1, <3>2
  <2>6. ToSet(Children(n)) \subseteq Subtrees(root)
    <3>1. NodeLevel(root)[d + 1] = Under(NodeLevel(root)[d])
      BY LevelRule
    <3>2. ToSet(Children(n)) \subseteq Under(NodeLevel(root)[d])
      BY <2>1 DEF Under
    <3>3. d + 1 \in Nat
      OBVIOUS
    <3>4. QED  BY <1>3, <3>1, <3>2, <3>3
  <2>7. QED  BY <2>4, <2>5, <2>6
<1>5. root \in Subtrees(root)
  BY <1>1, <1>3
<1>6. kids \subseteq Subtrees(root)
  BY <1>4, <1>5
<1>7. \A c \in kids : Finite(c)
  BY <1>4, <1>6
<1>8. \A c \in kids : Subtrees(c) = All(c)
  BY <1>7, SubtreesAre
<1>9. \A d \in Nat : NodeLevel(root)[d + 1] = UNION {NodeLevel(c)[d] : c \in kids}
  BY LevelShift
<1>10. ASSUME NEW n \in Subtrees(root)
       PROVE  n \in {root} \cup UNION {Subtrees(c) : c \in kids}
  <2>1. PICK d \in Nat : n \in NodeLevel(root)[d]
    BY <1>3
  <2>2. CASE d = 0
    BY <1>1, <2>1, <2>2
  <2>3. CASE d # 0
    <3>1. d - 1 \in Nat /\ (d - 1) + 1 = d
      BY <2>3
    <3> HIDE DEF kids
    <3>2. PICK c \in kids : n \in NodeLevel(c)[d - 1]
      BY <1>9, <2>1, <3>1
    <3>3. n \in Subtrees(c)
      BY <1>8, <3>1, <3>2
    <3>4. QED  BY <3>3
  <2>4. QED  BY <2>2, <2>3
<1>11. \A c \in kids : Subtrees(c) \subseteq Subtrees(root)
  BY <1>4, <1>6
<1> HIDE DEF kids, All
<1>12. Subtrees(root) = {root} \cup UNION {Subtrees(c) : c \in kids}
  BY <1>5, <1>10, <1>11
<1>13. QED  BY <1>4, <1>5, <1>7, <1>12 DEF kids

\* What holds of a node whenever it holds of its children holds of the tree.
LEMMA TreeInduction ==
  ASSUME NEW root, Finite(root), NEW P,
         \A n \in Subtrees(root) : ToSet(Children(n)) \subseteq P => n \in P
  PROVE  Subtrees(root) \subseteq P
<1> DEFINE S == {h \in Nat : \A n \in Subtrees(root) : NodeLevel(n)[h] = {} => n \in P}
<1>1. 0 \in S
  <2>1. \A n : NodeLevel(n)[0] = {n}
    BY LevelRule
  <2>2. QED  BY <2>1
<1>2. ASSUME NEW h \in Nat, h \in S  PROVE h + 1 \in S
  <2> SUFFICES ASSUME NEW n \in Subtrees(root), NodeLevel(n)[h + 1] = {}  PROVE n \in P
    OBVIOUS
  <2>1. NodeLevel(n)[h + 1] = UNION {NodeLevel(c)[h] : c \in ToSet(Children(n))}
    BY LevelShift
  <2>2. ToSet(Children(n)) \subseteq Subtrees(root)
    BY SubtreeFacts
  <2>3. \A c \in ToSet(Children(n)) : NodeLevel(c)[h] = {}
    BY <2>1
  <2>4. ToSet(Children(n)) \subseteq P
    BY <1>2, <2>2, <2>3
  <2>5. QED  BY <2>4
<1>3. \A h \in Nat : h \in S
  <2> HIDE DEF S
  <2>1. QED  BY <1>1, <1>2, CountUp
<1>4. \A n \in Subtrees(root) : Finite(n)
  BY SubtreeFacts
<1>5. QED  BY <1>3, <1>4 DEF Finite

\* A node whose children are roots of trees is the root of one.
LEMMA FiniteFrom ==
  ASSUME NEW root, Len(Children(root)) \in Nat,
         DOMAIN Children(root) = 1 .. Len(Children(root)),
         \A c \in ToSet(Children(root)) : Finite(c)
  PROVE  Finite(root)
<1> DEFINE kids == Children(root)
           n == Len(kids)
           Within(k, h) == \A i \in 1 .. n : i <= k => NodeLevel(kids[i])[h] = {}
           S == {k \in Nat : k <= n => \E h \in Nat : Within(k, h)}
<1>1. \A i \in 1 .. n : Finite(kids[i])
  BY DEF ToSet
<1>5. n \in Nat /\ DOMAIN kids = 1 .. n
  OBVIOUS
<1> HIDE DEF kids, n
<1>2. 0 \in S
  <2>1. \A i \in 1 .. n : ~(i <= 0)
    OBVIOUS
  <2>2. QED  BY <2>1
<1>3. ASSUME NEW k \in Nat, k \in S, k + 1 <= n  PROVE \E h \in Nat : Within(k + 1, h)
  <2>1. PICK h \in Nat : Within(k, h)
    <3>1. k <= n
      BY <1>3, <1>5
    <3>2. QED  BY <1>3, <3>1
  <2>2. k + 1 \in 1 .. n
    BY <1>3
  <2>3. PICK e \in Nat : NodeLevel(kids[k + 1])[e] = {}
    BY <1>1, <2>2 DEF Finite
  <2>4. PICK m \in Nat : h <= m /\ e <= m
    OBVIOUS
  <2>5. ASSUME NEW i \in 1 .. n, i <= k + 1  PROVE NodeLevel(kids[i])[m] = {}
    <3>1. CASE i <= k
      BY <2>1, <2>4, <3>1, EmptyBelow
    <3>2. CASE i = k + 1
      BY <2>3, <2>4, <3>2, EmptyBelow
    <3>3. QED  BY <2>5, <3>1, <3>2
  <2>6. QED  BY <2>5
<1>4. n \in S
  <2>1. ASSUME NEW k \in Nat, k \in S  PROVE k + 1 \in S
    <3>1. k + 1 <= n => \E h \in Nat : Within(k + 1, h)
      BY <2>1, <1>3
    <3> HIDE DEF Within
    <3>2. QED  BY <3>1
  <2> HIDE DEF S
  <2>2. QED  BY <1>2, <1>5, <2>1, CountUp
<1>6. PICK h \in Nat : Within(n, h)
  <2>1. n <= n
    BY <1>5
  <2>2. QED  BY <1>4, <2>1
<1>7. NodeLevel(root)[h + 1] = {}
  <2>1. NodeLevel(root)[h + 1] = UNION {NodeLevel(c)[h] : c \in ToSet(kids)}
    BY LevelShift DEF kids
  <2>2. \A i \in 1 .. n : NodeLevel(kids[i])[h] = {}
    BY <1>5, <1>6
  <2>3. \A c \in ToSet(kids) : NodeLevel(c)[h] = {}
    BY <1>5, <2>2 DEF ToSet
  <2>4. QED  BY <2>1, <2>3
<1>8. QED  BY <1>7 DEF Finite

-----------------------------------------------------------------------------
(* What the walks return at a node, given what they return below it.       *)

LEMMA BelowRuled ==
  ASSUME NEW n, Finite(n), NEW R,
         \A c \in ToSet(Children(n)) : Subtrees(c) \subseteq R
  PROVE  \A m \in Subtrees(n) : \A i \in DOMAIN Children(m) :
           Children(m)[i] \in Subtrees(n) /\ Children(m)[i] \in R
<1> SUFFICES ASSUME NEW m \in Subtrees(n), NEW i \in DOMAIN Children(m)
             PROVE  Children(m)[i] \in Subtrees(n) /\ Children(m)[i] \in R
  OBVIOUS
<1>1. Children(m)[i] \in ToSet(Children(m))
  BY DEF ToSet
<1>2. Children(m)[i] \in Subtrees(n)
  BY <1>1, SubtreeFacts
<1>3. \A c \in ToSet(Children(n)) : Finite(c)
  BY SubtreeFacts
<1>4. m = n \/ \E c \in ToSet(Children(n)) : m \in Subtrees(c)
  BY SubtreeFacts
<1>5. CASE m = n
  <2>1. Children(m)[i] \in Subtrees(Children(m)[i])
    BY <1>1, <1>3, <1>5, SubtreeFacts
  <2>2. QED  BY <1>1, <1>2, <1>5, <2>1
<1>6. CASE \E c \in ToSet(Children(n)) : m \in Subtrees(c)
  <2>1. PICK c \in ToSet(Children(n)) : m \in Subtrees(c)
    BY <1>6
  <2>2. Children(m)[i] \in Subtrees(c)
    BY <1>1, <1>3, <2>1, SubtreeFacts
  <2>3. QED  BY <1>2, <2>1, <2>2
<1>7. QED  BY <1>4, <1>5, <1>6

LEMMA JsonTextRule ==
  ASSUME NEW root, Finite(root)
  PROVE  JsonText(root) =
           NodeText(root, [i \in DOMAIN Children(root) |-> JsonText(Children(root)[i])])
<1> DEFINE Kids(f, n) == [i \in DOMAIN Children(n) |-> f[Children(n)[i]]]
           Eq(f, r) == f = [n \in Subtrees(r) |-> NodeText(n, Kids(f, n))]
           Of(r) == CHOOSE f : Eq(f, r)
           Here(n) == NodeText(n, [i \in DOMAIN Children(n) |-> JsonText(Children(n)[i])])
           R == {m \in Subtrees(root) : JsonText(m) = Here(m)}
           P == {n \in Subtrees(root) : Subtrees(n) \subseteq R}
<1>1. \A r : JsonText(r) = Of(r)[r]
  BY DEF JsonText, Walk, Subtrees
<1>2. ASSUME NEW n \in Subtrees(root), ToSet(Children(n)) \subseteq P  PROVE n \in P
  <2> DEFINE g == [m \in Subtrees(n) |-> Here(m)]
             f == Of(n)
             Q == {m \in Subtrees(n) : f[m] = Here(m)}
  <2>1. /\ Finite(n) /\ n \in Subtrees(n) /\ Subtrees(n) \subseteq Subtrees(root)
        /\ Subtrees(n) = {n} \cup UNION {Subtrees(c) : c \in ToSet(Children(n))}
    BY <1>2, SubtreeFacts
  <2>2. \A m \in Subtrees(n) : \A i \in DOMAIN Children(m) :
          Children(m)[i] \in Subtrees(n) /\ Children(m)[i] \in R
    <3>1. \A c \in ToSet(Children(n)) : Subtrees(c) \subseteq R
      BY <1>2
    <3> HIDE DEF R
    <3>2. QED  BY <2>1, <3>1, BelowRuled
  <2>3. \A d \in R : JsonText(d) = Here(d)
    OBVIOUS
  <2> HIDE DEF Here, R
  <2>4. \A m \in Subtrees(n) : Here(m) = NodeText(m, Kids(g, m))
    <3> SUFFICES ASSUME NEW m \in Subtrees(n)  PROVE Here(m) = NodeText(m, Kids(g, m))
      OBVIOUS
    <3>1. \A i \in DOMAIN Children(m) : g[Children(m)[i]] = JsonText(Children(m)[i])
      BY <2>2, <2>3
    <3> HIDE DEF g
    <3>2. Kids(g, m) = [i \in DOMAIN Children(m) |-> JsonText(Children(m)[i])]
      BY <3>1
    <3>3. QED  BY <3>2 DEF Here
  <2>5. Eq(g, n)
    BY <2>4
  <2>6. Eq(f, n)
    <3> HIDE DEF Eq, g
    <3>1. QED  BY <2>5
  <2> HIDE DEF f, Of
  <2>7. ASSUME NEW m \in Subtrees(n), ToSet(Children(m)) \subseteq Q  PROVE m \in Q
    <3>1. \A i \in DOMAIN Children(m) : f[Children(m)[i]] = JsonText(Children(m)[i])
      BY <2>2, <2>3, <2>7 DEF ToSet
    <3>2. Kids(f, m) = [i \in DOMAIN Children(m) |-> JsonText(Children(m)[i])]
      BY <3>1
    <3>3. f[m] = NodeText(m, Kids(f, m))
      BY <2>6
    <3>4. QED  BY <3>2, <3>3 DEF Here
  <2>8. Subtrees(n) \subseteq Q
    <3> HIDE DEF Q
    <3>1. QED  BY <2>1, <2>7, TreeInduction
  <2>9. n \in R
    BY <1>1, <2>1, <2>8 DEF R, f
  <2>10. Subtrees(n) \subseteq R
    BY <1>2, <2>1, <2>9
  <2>11. QED  BY <2>10
<1>3. Subtrees(root) \subseteq P
  <2> HIDE DEF P
  <2>1. QED  BY <1>2, TreeInduction
<1>4. root \in Subtrees(root)
  BY SubtreeFacts
<1>5. QED  BY <1>3, <1>4

LEMMA CanonicalRule ==
  ASSUME NEW root, Finite(root)
  PROVE  Canonical(root) =
           CanonicalNode(root, [i \in DOMAIN Children(root) |-> Canonical(Children(root)[i])])
<1> DEFINE Kids(f, n) == [i \in DOMAIN Children(n) |-> f[Children(n)[i]]]
           Eq(f, r) == f = [n \in Subtrees(r) |-> CanonicalNode(n, Kids(f, n))]
           Of(r) == CHOOSE f : Eq(f, r)
           Here(n) == CanonicalNode(n, [i \in DOMAIN Children(n) |-> Canonical(Children(n)[i])])
           R == {m \in Subtrees(root) : Canonical(m) = Here(m)}
           P == {n \in Subtrees(root) : Subtrees(n) \subseteq R}
<1>1. \A r : Canonical(r) = Of(r)[r]
  BY DEF Canonical, Walk, Subtrees
<1>2. ASSUME NEW n \in Subtrees(root), ToSet(Children(n)) \subseteq P  PROVE n \in P
  <2> DEFINE g == [m \in Subtrees(n) |-> Here(m)]
             f == Of(n)
             Q == {m \in Subtrees(n) : f[m] = Here(m)}
  <2>1. /\ Finite(n) /\ n \in Subtrees(n) /\ Subtrees(n) \subseteq Subtrees(root)
        /\ Subtrees(n) = {n} \cup UNION {Subtrees(c) : c \in ToSet(Children(n))}
    BY <1>2, SubtreeFacts
  <2>2. \A m \in Subtrees(n) : \A i \in DOMAIN Children(m) :
          Children(m)[i] \in Subtrees(n) /\ Children(m)[i] \in R
    <3>1. \A c \in ToSet(Children(n)) : Subtrees(c) \subseteq R
      BY <1>2
    <3> HIDE DEF R
    <3>2. QED  BY <2>1, <3>1, BelowRuled
  <2>3. \A d \in R : Canonical(d) = Here(d)
    OBVIOUS
  <2> HIDE DEF Here, R
  <2>4. \A m \in Subtrees(n) : Here(m) = CanonicalNode(m, Kids(g, m))
    <3> SUFFICES ASSUME NEW m \in Subtrees(n)  PROVE Here(m) = CanonicalNode(m, Kids(g, m))
      OBVIOUS
    <3>1. \A i \in DOMAIN Children(m) : g[Children(m)[i]] = Canonical(Children(m)[i])
      BY <2>2, <2>3
    <3> HIDE DEF g
    <3>2. Kids(g, m) = [i \in DOMAIN Children(m) |-> Canonical(Children(m)[i])]
      BY <3>1
    <3>3. QED  BY <3>2 DEF Here
  <2>5. Eq(g, n)
    BY <2>4
  <2>6. Eq(f, n)
    <3> HIDE DEF Eq, g
    <3>1. QED  BY <2>5
  <2> HIDE DEF f, Of
  <2>7. ASSUME NEW m \in Subtrees(n), ToSet(Children(m)) \subseteq Q  PROVE m \in Q
    <3>1. \A i \in DOMAIN Children(m) : f[Children(m)[i]] = Canonical(Children(m)[i])
      BY <2>2, <2>3, <2>7 DEF ToSet
    <3>2. Kids(f, m) = [i \in DOMAIN Children(m) |-> Canonical(Children(m)[i])]
      BY <3>1
    <3>3. f[m] = CanonicalNode(m, Kids(f, m))
      BY <2>6
    <3>4. QED  BY <3>2, <3>3 DEF Here
  <2>8. Subtrees(n) \subseteq Q
    <3> HIDE DEF Q
    <3>1. QED  BY <2>1, <2>7, TreeInduction
  <2>9. n \in R
    BY <1>1, <2>1, <2>8 DEF R, f
  <2>10. Subtrees(n) \subseteq R
    BY <1>2, <2>1, <2>9
  <2>11. QED  BY <2>10
<1>3. Subtrees(root) \subseteq P
  <2> HIDE DEF P
  <2>1. QED  BY <1>2, TreeInduction
<1>4. root \in Subtrees(root)
  BY SubtreeFacts
<1>5. QED  BY <1>3, <1>4

-----------------------------------------------------------------------------
(* Sorting.                                                                *)

\* The comparison orders the elements of s, some of them perhaps tied.
WeakOrder(less, s) ==
  /\ \A i \in DOMAIN s : <<s[i], s[i]>> \notin less
  /\ \A i, j, k \in DOMAIN s :
       <<s[i], s[j]>> \in less /\ <<s[j], s[k]>> \in less => <<s[i], s[k]>> \in less
  /\ \A i, j, k \in DOMAIN s :
       <<s[i], s[j]>> \notin less /\ <<s[j], s[k]>> \notin less
         => <<s[i], s[k]>> \notin less

\* t is s in another order.
Permutes(p, s, t) ==
  /\ p \in Bijection(DOMAIN s, DOMAIN s)
  /\ DOMAIN t = DOMAIN s
  /\ \A k \in DOMAIN s : t[k] = s[p[k]]

\* A function on 1 .. n is a sequence of length n.
LEMMA FunctionIsSeq ==
  ASSUME NEW S, NEW n \in Nat, NEW c \in [1 .. n -> S]
  PROVE  c \in Seq(S) /\ Len(c) = n
BY SeqDef

\* StableSort returns every element once, and none before one it comes after.
LEMMA SortPermutes ==
  ASSUME NEW n \in Nat, NEW s, DOMAIN s = 1 .. n, NEW less, WeakOrder(less, s)
  PROVE  LET t == StableSort(s, less)
         IN  /\ \E p : Permutes(p, s, t)
             /\ \A i, j \in 1 .. n : i < j => <<t[j], t[i]>> \notin less
<1> DEFINE D == 1 .. n
           B(i, j) == \/ <<s[i], s[j]>> \in less
                      \/ <<s[j], s[i]>> \notin less /\ i < j
           Ahead(j) == {i \in D : B(i, j)}
           rank == [j \in D |-> Cardinality(Ahead(j))]
           p == [k \in D |-> CHOOSE j \in D : rank[j] = k - 1]
           t == StableSort(s, less)
<1>1. /\ \A i \in D : ~B(i, i)
      /\ \A i, j, k \in D : B(i, j) /\ B(j, k) => B(i, k)
      /\ \A i, j \in D : i # j => B(i, j) \/ B(j, i)
  <2>1. ASSUME NEW i \in D  PROVE ~B(i, i)
    <3>1. ~(i < i)
      OBVIOUS
    <3>2. QED  BY <3>1 DEF WeakOrder
  <2>2. \A i, j \in D : i # j => B(i, j) \/ B(j, i)
    OBVIOUS
  <2>3. ASSUME NEW i \in D, NEW j \in D, NEW k \in D, B(i, j), B(j, k)
        PROVE  B(i, k)
    <3>1. ~(<<s[j], s[i]>> \in less) /\ ~(<<s[k], s[j]>> \in less)
      BY <2>3 DEF WeakOrder
    <3>2. <<s[k], s[i]>> \notin less
      BY <3>1 DEF WeakOrder
    <3>3. CASE i < k
      BY <3>2, <3>3
    <3>4. CASE ~(i < k)
      <4>1. <<s[i], s[j]>> \in less \/ <<s[j], s[k]>> \in less
        BY <2>3, <3>4
      <4>2. CASE <<s[i], s[k]>> \notin less
        <5>1. <<s[i], s[j]>> \in less => <<s[k], s[j]>> \in less
          BY <3>2, <4>2 DEF WeakOrder
        <5>2. <<s[j], s[k]>> \in less => <<s[j], s[i]>> \in less
          BY <3>2, <4>2 DEF WeakOrder
        <5>3. QED  BY <3>1, <4>1, <5>1, <5>2
      <4>3. QED  BY <4>2
    <3>5. QED  BY <3>3, <3>4
  <2>4. QED  BY <2>1, <2>2, <2>3
<1> HIDE DEF B
<1>2. \A j \in D : IsFiniteSet(Ahead(j)) /\ Cardinality(Ahead(j)) \in 0 .. n - 1
  <2> SUFFICES ASSUME NEW j \in D
               PROVE  IsFiniteSet(Ahead(j)) /\ Cardinality(Ahead(j)) \in 0 .. n - 1
    OBVIOUS
  <2>1. IsFiniteSet(D) /\ Cardinality(D) = n
    BY FS_Interval
  <2>2. IsFiniteSet(D \ {j}) /\ Cardinality(D \ {j}) = n - 1
    BY <2>1, FS_RemoveElement
  <2>3. Ahead(j) \in SUBSET (D \ {j})
    BY <1>1
  <2>4. IsFiniteSet(Ahead(j)) /\ Cardinality(Ahead(j)) <= n - 1
    BY <2>2, <2>3, FS_Subset
  <2>5. Cardinality(Ahead(j)) \in Nat
    BY <2>4, FS_CardinalityType
  <2>6. QED  BY <2>4, <2>5
<1>3. ASSUME NEW i \in D, NEW j \in D, B(i, j)  PROVE rank[i] < rank[j]
  <2>1. Ahead(i) \in SUBSET Ahead(j) /\ i \in Ahead(j) /\ i \notin Ahead(i)
    BY <1>1, <1>3
  <2>2. Ahead(i) # Ahead(j)
    BY <2>1
  <2>3. /\ Cardinality(Ahead(i)) <= Cardinality(Ahead(j))
        /\ Cardinality(Ahead(i)) # Cardinality(Ahead(j))
    BY <1>2, <2>1, <2>2, FS_Subset
  <2>4. Cardinality(Ahead(i)) \in 0 .. n - 1 /\ Cardinality(Ahead(j)) \in 0 .. n - 1
    BY <1>2
  <2> HIDE DEF Ahead
  <2>5. QED  BY <2>3, <2>4
<1>4. rank \in Bijection(D, 0 .. n - 1)
  <2>1. rank \in [D -> 0 .. n - 1]
    BY <1>2
  <2>2. ASSUME NEW i \in D, NEW j \in D, rank[i] = rank[j]  PROVE i = j
    <3> HIDE DEF rank
    <3>1. rank[i] \in 0 .. n - 1 /\ rank[j] \in 0 .. n - 1
      BY <2>1
    <3>2. ~(rank[i] < rank[j]) /\ ~(rank[j] < rank[i])
      BY <2>2, <3>1
    <3>3. ~B(i, j) /\ ~B(j, i)
      BY <1>3, <3>2
    <3>4. QED  BY <1>1, <3>3
  <2> HIDE DEF rank
  <2>3. rank \in Injection(D, 0 .. n - 1)
    BY <2>1, <2>2 DEF Injection, IsInjective
  <2>4. IsFiniteSet(0 .. n - 1) /\ Cardinality(0 .. n - 1) = n
    <3>1. 0 \in Int /\ n - 1 \in Int
      OBVIOUS
    <3>2. /\ IsFiniteSet(0 .. n - 1)
          /\ Cardinality(0 .. n - 1) = IF 0 > n - 1 THEN 0 ELSE (n - 1) - 0 + 1
      BY ONLY <3>1, FS_Interval
    <3>3. QED  BY <3>2
  <2>5. Cardinality(D) = n
    BY FS_Interval
  <2>6. rank \in Surjection(D, 0 .. n - 1)
    BY <2>3, <2>4, <2>5, FS_Injection
  <2>7. QED  BY <2>3, <2>6 DEF Bijection
<1>5. t = [k \in D |-> s[CHOOSE j \in D : rank[j] = k - 1]]
  BY DEF StableSort, B
<1> HIDE DEF rank
<1>6. \A k \in D : p[k] \in D /\ rank[p[k]] = k - 1
  <2> SUFFICES ASSUME NEW k \in D  PROVE p[k] \in D /\ rank[p[k]] = k - 1
    OBVIOUS
  <2>1. k - 1 \in 0 .. n - 1
    OBVIOUS
  <2>2. \E j \in D : rank[j] = k - 1
    BY <1>4, <2>1 DEF Bijection, Surjection
  <2>3. QED  BY <2>2
<1>7. p \in Bijection(D, D)
  <2>1. p \in [D -> D]
    BY <1>6
  <2>2. ASSUME NEW k \in D, NEW m \in D, p[k] = p[m]  PROVE k = m
    <3>1. k - 1 = m - 1
      BY <1>6, <2>2
    <3>2. QED  BY <3>1
  <2>3. \A j \in D : \E k \in D : p[k] = j
    <3> SUFFICES ASSUME NEW j \in D  PROVE \E k \in D : p[k] = j
      OBVIOUS
    <3>1. rank[j] \in 0 .. n - 1
      BY <1>4 DEF Bijection, Injection
    <3>2. rank[j] + 1 \in D /\ (rank[j] + 1) - 1 = rank[j]
      BY <3>1
    <3>3. rank[p[rank[j] + 1]] = rank[j] /\ p[rank[j] + 1] \in D
      BY <1>6, <3>2
    <3>4. p[rank[j] + 1] = j
      BY <1>4, <3>3 DEF Bijection, Injection, IsInjective
    <3>5. QED  BY <3>2, <3>4
  <2> HIDE DEF p
  <2>4. QED  BY <2>1, <2>2, <2>3 DEF Bijection, Injection, Surjection, IsInjective
<1>8. Permutes(p, s, t)
  <2>1. DOMAIN t = D /\ \A k \in D : t[k] = s[p[k]]
    BY <1>5
  <2>2. QED  BY <1>7, <2>1 DEF Permutes
<1> HIDE DEF p, t
<1>9. ASSUME NEW i \in 1 .. n, NEW j \in 1 .. n, i < j
      PROVE  <<t[j], t[i]>> \notin less
  <2>1. t[i] = s[p[i]] /\ t[j] = s[p[j]] /\ p[i] \in D /\ p[j] \in D
    BY <1>6, <1>8 DEF Permutes
  <2>2. ~(rank[p[j]] < rank[p[i]])
    BY <1>6, <1>9
  <2>3. ~B(p[j], p[i])
    BY <1>3, <2>1, <2>2
  <2>4. QED  BY <2>1, <2>3 DEF B
<1>10. QED  BY <1>8, <1>9 DEF t

\* Two different keys differ at a first place, or one continues the other.
LEMMA FirstDifference ==
  ASSUME NEW a \in Seq(Int), NEW b \in Seq(Int), a # b
  PROVE  Before(a, b) \/ Before(b, a)
<1>1. PICK l \in Nat : l = Len(a) /\ DOMAIN a = 1 .. l /\ \A i \in 1 .. l : a[i] \in Int
  BY LenProperties, ElementOfSeq
<1>2. PICK m \in Nat : m = Len(b) /\ DOMAIN b = 1 .. m /\ \A i \in 1 .. m : b[i] \in Int
  BY LenProperties, ElementOfSeq
<1>3. CASE \A i \in 1 .. l : i \in 1 .. m => a[i] = b[i]
  <2>1. l # m
    <3>1. SUFFICES ASSUME l = m  PROVE FALSE
      OBVIOUS
    <3>2. Len(a) = Len(b) /\ \A i \in 1 .. Len(a) : a[i] = b[i]
      BY ONLY <1>1, <1>2, <1>3, <3>1
    <3>3. QED  BY <3>2, SeqEqual
  <2>2. CASE l < m
    <3>1. \A i \in 1 .. l : a[i] = b[i]
      BY ONLY <1>3, <2>2, l \in Nat, m \in Nat
    <3>2. QED  BY ONLY <1>1, <1>2, <2>2, <3>1 DEF Before
  <2>3. CASE m < l
    <3>1. \A i \in 1 .. m : b[i] = a[i]
      BY ONLY <1>3, <2>3, l \in Nat, m \in Nat
    <3>2. QED  BY ONLY <1>1, <1>2, <2>3, <3>1 DEF Before
  <2>4. QED  BY ONLY <2>1, <2>2, <2>3, l \in Nat, m \in Nat
<1>4. CASE \E i \in 1 .. l : i \in 1 .. m /\ a[i] # b[i]
  <2> DEFINE T == {i \in 1 .. l : i \in 1 .. m /\ a[i] # b[i]}
  <2>1. T \subseteq Nat /\ T # {}
    <3>1. PICK i \in 1 .. l : i \in 1 .. m /\ a[i] # b[i]
      BY ONLY <1>4
    <3>2. i \in T
      BY <3>1
    <3>3. T \subseteq Nat
      OBVIOUS
    <3>4. QED  BY <3>2, <3>3
  <2>2. PICK i \in T : \A j \in T : <<j, i>> \notin OpToRel(<, Nat)
    <3> HIDE DEF T
    <3>1. QED  BY <2>1, NatLessThanWellFounded, WFMin
  <2>3. \A j \in T : ~(j < i)
    BY <2>1, <2>2 DEF OpToRel
  <2>4. i \in 1 .. l /\ i \in 1 .. m /\ a[i] # b[i]
    OBVIOUS
  <2>5. \A j \in 1 .. l : j \in 1 .. m /\ j < i => a[j] = b[j]
    BY ONLY <2>3
  <2> HIDE DEF T
  <2>6. PICK k \in Nat : k = i
    BY <2>1
  <2>7. k \in 1 .. l /\ k \in 1 .. m /\ a[k] # b[k]
    BY ONLY <2>4, <2>6
  <2>8. \A j \in 1 .. k - 1 : a[j] = b[j]
    <3>1. k <= l /\ k <= m
      BY ONLY <2>7, k \in Nat, l \in Nat, m \in Nat
    <3>2. \A j \in 1 .. k - 1 : j \in 1 .. l /\ j \in 1 .. m /\ j < k
      BY ONLY <3>1, k \in Nat, l \in Nat, m \in Nat
    <3>3. QED  BY ONLY <2>5, <2>6, <3>2
  <2>9. a[k] < b[k] \/ b[k] < a[k]
    <3>1. a[k] \in Int /\ b[k] \in Int
      BY ONLY <1>1, <1>2, <2>7
    <3>2. QED  BY ONLY <2>7, <3>1
  <2>10. QED  BY ONLY <1>1, <1>2, <2>7, <2>8, <2>9 DEF Before
<1>5. QED  BY ONLY <1>3, <1>4

LEMMA BeforeTransitive ==
  ASSUME NEW a \in Seq(Int), NEW b \in Seq(Int), NEW c \in Seq(Int),
         Before(a, b), Before(b, c)
  PROVE  Before(a, c)
<1>1. PICK l \in Nat : l = Len(a) /\ DOMAIN a = 1 .. l /\ \A i \in 1 .. l : a[i] \in Int
  BY LenProperties, ElementOfSeq
<1>2. PICK m \in Nat : m = Len(b) /\ DOMAIN b = 1 .. m /\ \A i \in 1 .. m : b[i] \in Int
  BY LenProperties, ElementOfSeq
<1>3. PICK n \in Nat : n = Len(c) /\ DOMAIN c = 1 .. n /\ \A i \in 1 .. n : c[i] \in Int
  BY LenProperties, ElementOfSeq
<1>4. \/ \E i \in 1 .. l : i \in 1 .. m /\ a[i] < b[i] /\ \A j \in 1 .. i - 1 : a[j] = b[j]
      \/ l < m /\ \A j \in 1 .. l : a[j] = b[j]
  BY ONLY Before(a, b), <1>1, <1>2 DEF Before
<1>5. \/ \E i \in 1 .. m : i \in 1 .. n /\ b[i] < c[i] /\ \A j \in 1 .. i - 1 : b[j] = c[j]
      \/ m < n /\ \A j \in 1 .. m : b[j] = c[j]
  BY ONLY Before(b, c), <1>2, <1>3 DEF Before
<1>6. SUFFICES
        \/ \E i \in 1 .. l : i \in 1 .. n /\ a[i] < c[i] /\ \A j \in 1 .. i - 1 : a[j] = c[j]
        \/ l < n /\ \A j \in 1 .. l : a[j] = c[j]
  BY ONLY <1>1, <1>3, <1>6 DEF Before
<1>7. CASE \E i \in 1 .. l : i \in 1 .. m /\ a[i] < b[i] /\ \A j \in 1 .. i - 1 : a[j] = b[j]
  <2>1. PICK i \in 1 .. l : i \in 1 .. m /\ a[i] < b[i] /\ \A j \in 1 .. i - 1 : a[j] = b[j]
    BY ONLY <1>7
  <2>2. a[i] \in Int /\ b[i] \in Int
    BY ONLY <1>1, <1>2, <2>1
  <2>3. CASE \E k \in 1 .. m : k \in 1 .. n /\ b[k] < c[k] /\ \A j \in 1 .. k - 1 : b[j] = c[j]
    <3>1. PICK k \in 1 .. m : k \in 1 .. n /\ b[k] < c[k] /\ \A j \in 1 .. k - 1 : b[j] = c[j]
      BY ONLY <2>3
    <3>2. CASE i < k
      <4>1. i \in 1 .. n /\ i \in 1 .. k - 1
        BY ONLY <3>1, <3>2, l \in Nat, n \in Nat, i \in 1 .. l
      <4>2. a[i] < c[i]
        BY ONLY <2>1, <3>1, <4>1
      <4>3. \A j \in 1 .. i - 1 : a[j] = c[j]
        BY ONLY <2>1, <3>1, <3>2, i \in 1 .. l, l \in Nat, m \in Nat
      <4>4. QED  BY ONLY <4>1, <4>2, <4>3, i \in 1 .. l
    <3>3. CASE i = k
      <4>1. a[i] < c[i]
        BY ONLY <2>1, <2>2, <3>1, <3>3, <1>3, n \in Nat
      <4>2. \A j \in 1 .. i - 1 : a[j] = c[j]
        BY ONLY <2>1, <3>1, <3>3
      <4>3. QED  BY ONLY <3>1, <3>3, <4>1, <4>2, i \in 1 .. l
    <3>4. CASE k < i
      <4>1. k \in 1 .. l /\ k \in 1 .. i - 1
        BY ONLY <3>1, <3>4, i \in 1 .. l, l \in Nat, m \in Nat
      <4>2. a[k] < c[k]
        BY ONLY <2>1, <3>1, <4>1
      <4>3. \A j \in 1 .. k - 1 : a[j] = c[j]
        BY ONLY <2>1, <3>1, <3>4, i \in 1 .. l, k \in 1 .. m, l \in Nat, m \in Nat
      <4>4. QED  BY ONLY <3>1, <4>1, <4>2, <4>3
    <3>5. QED  BY ONLY <3>2, <3>3, <3>4, i \in 1 .. l, k \in 1 .. m, l \in Nat, m \in Nat
  <2>4. CASE m < n /\ \A j \in 1 .. m : b[j] = c[j]
    <3>1. i \in 1 .. n /\ a[i] < c[i]
      BY ONLY <2>1, <2>4, m \in Nat, n \in Nat
    <3>2. \A j \in 1 .. i - 1 : a[j] = c[j]
      BY ONLY <2>1, <2>4, m \in Nat, i \in 1 .. l, l \in Nat
    <3>3. QED  BY ONLY <3>1, <3>2, i \in 1 .. l
  <2>5. QED  BY ONLY <1>5, <2>3, <2>4
<1>8. CASE l < m /\ \A j \in 1 .. l : a[j] = b[j]
  <2>1. CASE \E k \in 1 .. m : k \in 1 .. n /\ b[k] < c[k] /\ \A j \in 1 .. k - 1 : b[j] = c[j]
    <3>1. PICK k \in 1 .. m : k \in 1 .. n /\ b[k] < c[k] /\ \A j \in 1 .. k - 1 : b[j] = c[j]
      BY ONLY <2>1
    <3>2. CASE k <= l
      <4>1. k \in 1 .. l /\ a[k] < c[k]
        BY ONLY <1>8, <3>1, <3>2, k \in 1 .. m, l \in Nat, m \in Nat
      <4>2. \A j \in 1 .. k - 1 : a[j] = c[j]
        BY ONLY <1>8, <3>1, <3>2, k \in 1 .. m, l \in Nat, m \in Nat
      <4>3. QED  BY ONLY <3>1, <4>1, <4>2
    <3>3. CASE l < k
      <4>1. l < n
        BY ONLY <3>1, <3>3, l \in Nat, n \in Nat
      <4>2. \A j \in 1 .. l : a[j] = c[j]
        BY ONLY <1>8, <3>1, <3>3, k \in 1 .. m, l \in Nat, m \in Nat
      <4>3. QED  BY ONLY <4>1, <4>2
    <3>4. QED  BY ONLY <3>2, <3>3, k \in 1 .. m, l \in Nat, m \in Nat
  <2>2. CASE m < n /\ \A j \in 1 .. m : b[j] = c[j]
    BY ONLY <1>8, <2>2, l \in Nat, m \in Nat, n \in Nat
  <2>3. QED  BY ONLY <1>5, <2>1, <2>2
<1>9. QED  BY ONLY <1>4, <1>7, <1>8

\* The comparison of keys is a strict total order.
LEMMA BeforeIsOrder ==
  ASSUME NEW a \in Seq(Int), NEW b \in Seq(Int), NEW c \in Seq(Int)
  PROVE  /\ ~Before(a, a)
         /\ Before(a, b) /\ Before(b, c) => Before(a, c)
         /\ ~Before(a, b) /\ ~Before(b, c) => ~Before(a, c)
         /\ ~(Before(a, b) /\ Before(b, a))
         /\ a # b => Before(a, b) \/ Before(b, a)
<1>1. ASSUME NEW x \in Seq(Int)  PROVE ~Before(x, x)
  <2>1. Len(x) \in Nat /\ \A i \in DOMAIN x : x[i] \in Int
    BY LenProperties, ElementOfSeq
  <2>2. QED  BY <2>1 DEF Before
<1>2. ~(Before(a, b) /\ Before(b, a))
  BY <1>1, BeforeTransitive
<1>3. ~Before(a, b) /\ ~Before(b, c) => ~Before(a, c)
  <2> SUFFICES ASSUME ~Before(a, b), ~Before(b, c), Before(a, c)
               PROVE  FALSE
    OBVIOUS
  <2>1. (a = b \/ Before(b, a)) /\ (b = c \/ Before(c, b))
    BY FirstDifference
  <2>2. a = b \/ Before(b, c)
    BY <2>1, BeforeTransitive
  <2>3. QED  BY <2>2
<1>4. QED  BY <1>1, <1>2, <1>3, FirstDifference, BeforeTransitive

-----------------------------------------------------------------------------
(* Sequences of sequences, end to end.                                     *)

\* F is what FlattenSeq has put together of ss so far, at each place.
Flattens(F, ss) == F[0] = <<>> /\ \A k \in 1 .. Len(ss) : F[k] = F[k - 1] \o ss[k]

LEMMA FlattenRule ==
  ASSUME NEW S, NEW ss \in Seq(Seq(S))
  PROVE  \E F : /\ Flattens(F, ss) /\ FlattenSeq(ss) = F[Len(ss)]
                /\ \A k \in 0 .. Len(ss) : F[k] \in Seq(S)
<1> DEFINE n == Len(ss)
           Eq(f) == f = [i \in 1 .. n |-> IF i = 1 THEN ss[i] ELSE f[i - 1] \o ss[i]]
           Part(f, h) == f = [i \in 1 .. h |-> IF i = 1 THEN ss[i] ELSE f[i - 1] \o ss[i]]
           N == {h \in Nat : \E f : Part(f, h)}
           flat == CHOOSE f : Eq(f)
           F == [k \in 0 .. n |-> IF k = 0 THEN <<>> ELSE flat[k]]
<1>1. n \in Nat /\ \A k \in 1 .. n : ss[k] \in Seq(S)
  BY LenProperties, ElementOfSeq
<1>2. FlattenSeq(ss) = IF n = 0 THEN ss ELSE flat[n]
  BY DEF FlattenSeq
<1> HIDE DEF n
<1>3. 0 \in N
  <2>1. Part([i \in 1 .. 0 |-> 0], 0)
    OBVIOUS
  <2>2. QED  BY <2>1
<1>4. ASSUME NEW h \in Nat, h \in N  PROVE h + 1 \in N
  <2>1. PICK f : Part(f, h)
    BY <1>4
  <2>2. PICK g : g = [i \in 1 .. h + 1 |-> IF i = 1 THEN ss[i] ELSE f[i - 1] \o ss[i]]
    OBVIOUS
  <2>3. ASSUME NEW i \in 1 .. h  PROVE g[i] = f[i]
    <3>1. i \in 1 .. h + 1
      OBVIOUS
    <3>2. f[i] = IF i = 1 THEN ss[i] ELSE f[i - 1] \o ss[i]
      BY <2>1
    <3>3. g[i] = IF i = 1 THEN ss[i] ELSE f[i - 1] \o ss[i]
      BY <2>2, <3>1
    <3>4. QED  BY <3>2, <3>3
  <2>4. \A i \in 1 .. h + 1 : i # 1 => g[i - 1] = f[i - 1]
    BY <2>3
  <2>5. Part(g, h + 1)
    BY <2>2, <2>4
  <2> HIDE DEF Part
  <2>6. QED  BY <2>5
<1>5. \E f : Eq(f)
  <2>1. n \in N
    <3> HIDE DEF N
    <3>1. QED  BY <1>1, <1>3, <1>4, CountUp
  <2>2. QED  BY <2>1
<1>6. Eq(flat)
  <2> HIDE DEF Eq
  <2>1. QED  BY <1>5
<1> HIDE DEF flat
<1>7. \A i \in 1 .. n : flat[i] = IF i = 1 THEN ss[i] ELSE flat[i - 1] \o ss[i]
  BY <1>6
<1>8. F[0] = <<>> /\ \A k \in 1 .. n : F[k] = flat[k]
  BY <1>1
<1> HIDE DEF F
<1>9. ASSUME NEW k \in 1 .. n  PROVE F[k] = F[k - 1] \o ss[k]
  <2>1. CASE k = 1
    <3>1. F[k] = ss[k] /\ F[k - 1] = <<>> /\ ss[k] \in Seq(S)
      BY <1>1, <1>7, <1>8, <2>1
    <3>2. QED  BY <3>1, ConcatEmptySeq
  <2>2. CASE k # 1
    <3>1. k - 1 \in 1 .. n
      BY <1>1, <2>2
    <3>2. QED  BY <1>7, <1>8, <2>2, <3>1
  <2>3. QED  BY <2>1, <2>2
<1>10. \A k \in 0 .. n : F[k] \in Seq(S)
  <2> DEFINE T == {k \in Nat : k <= n => F[k] \in Seq(S)}
  <2>1. 0 \in T
    BY <1>8, EmptySeq
  <2>2. ASSUME NEW k \in Nat, k \in T  PROVE k + 1 \in T
    <3> SUFFICES ASSUME k + 1 <= n  PROVE F[k + 1] \in Seq(S)
      OBVIOUS
    <3>1. k + 1 \in 1 .. n /\ (k + 1) - 1 = k /\ k <= n
      BY <1>1
    <3>2. F[k] \in Seq(S) /\ ss[k + 1] \in Seq(S) /\ F[k + 1] = F[k] \o ss[k + 1]
      BY <1>1, <1>9, <2>2, <3>1
    <3>3. QED  BY <3>2, ConcatProperties
  <2> HIDE DEF T
  <2>3. \A k \in Nat : k \in T
    BY <2>1, <2>2, CountUp
  <2>4. QED  BY <1>1, <2>3 DEF T
<1>11. FlattenSeq(ss) = F[n]
  <2>1. CASE n = 0
    BY <1>2, <1>8, <2>1, EmptySeq DEF n
  <2>2. CASE n # 0
    BY <1>1, <1>2, <1>8, <2>2
  <2>3. QED  BY <2>1, <2>2
<1>12. QED  BY <1>8, <1>9, <1>10, <1>11 DEF Flattens, n

LEMMA FlattenType ==
  ASSUME NEW S, NEW ss \in Seq(Seq(S))
  PROVE  FlattenSeq(ss) \in Seq(S)
<1>1. PICK F : /\ FlattenSeq(ss) = F[Len(ss)]
               /\ \A k \in 0 .. Len(ss) : F[k] \in Seq(S)
  BY FlattenRule
<1>2. Len(ss) \in 0 .. Len(ss)
  BY LenProperties
<1>3. QED  BY <1>1, <1>2

LEMMA ConcatElements ==
  ASSUME NEW S, NEW s \in Seq(S), NEW t \in Seq(S)
  PROVE  ToSet(s \o t) = ToSet(s) \cup ToSet(t)
<1>1. PICK m \in Nat : m = Len(s) /\ DOMAIN s = 1 .. m
  BY LenProperties
<1>2. PICK n \in Nat : n = Len(t) /\ DOMAIN t = 1 .. n
  BY LenProperties
<1>3. PICK u : u = s \o t
  OBVIOUS
<1>4. /\ DOMAIN u = 1 .. m + n
      /\ \A i \in 1 .. m + n : u[i] = IF i <= m THEN s[i] ELSE t[i - m]
  BY <1>1, <1>2, <1>3, ConcatProperties, LenProperties
<1>5. ASSUME NEW i \in 1 .. m + n  PROVE u[i] \in ToSet(s) \cup ToSet(t)
  <2>1. CASE i <= m
    <3>1. i \in DOMAIN s /\ u[i] = s[i]
      BY <1>1, <1>4, <2>1
    <3>2. QED  BY <3>1 DEF ToSet
  <2>2. CASE ~(i <= m)
    <3>1. i - m \in DOMAIN t /\ u[i] = t[i - m]
      BY <1>2, <1>4, <2>2
    <3>2. QED  BY <3>1 DEF ToSet
  <2>3. QED  BY <2>1, <2>2
<1>6. ASSUME NEW i \in 1 .. m  PROVE s[i] \in ToSet(u)
  <2>1. i \in 1 .. m + n /\ i <= m
    OBVIOUS
  <2>2. u[i] = s[i]
    BY <1>4, <2>1
  <2>3. QED  BY <1>4, <2>1, <2>2 DEF ToSet
<1>7. ASSUME NEW i \in 1 .. n  PROVE t[i] \in ToSet(u)
  <2>1. m + i \in 1 .. m + n /\ ~(m + i <= m) /\ (m + i) - m = i
    OBVIOUS
  <2>2. u[m + i] = t[i]
    BY <1>4, <2>1
  <2>3. QED  BY <1>4, <2>1, <2>2 DEF ToSet
<1>8. ToSet(u) \subseteq ToSet(s) \cup ToSet(t)
  BY <1>4, <1>5 DEF ToSet
<1>9. ToSet(s) \cup ToSet(t) \subseteq ToSet(u)
  BY <1>1, <1>2, <1>6, <1>7 DEF ToSet
<1>10. QED  BY <1>3, <1>8, <1>9

LEMMA FlattenElements ==
  ASSUME NEW S, NEW ss \in Seq(Seq(S))
  PROVE  ToSet(FlattenSeq(ss)) = UNION {ToSet(ss[i]) : i \in 1 .. Len(ss)}
<1>1. PICK F : /\ Flattens(F, ss) /\ FlattenSeq(ss) = F[Len(ss)]
               /\ \A k \in 0 .. Len(ss) : F[k] \in Seq(S)
  BY FlattenRule
<1>2. PICK n \in Nat : n = Len(ss) /\ \A i \in 1 .. n : ss[i] \in Seq(S)
  BY LenProperties, ElementOfSeq
<1> DEFINE T == {k \in Nat : k <= n => ToSet(F[k]) = UNION {ToSet(ss[i]) : i \in 1 .. k}}
<1>3. 0 \in T
  <2>1. ToSet(<<>>) = {} /\ 1 .. 0 = {}
    BY DEF ToSet
  <2>2. QED  BY <1>1, <2>1 DEF Flattens
<1>4. ASSUME NEW k \in Nat, k \in T  PROVE k + 1 \in T
  <2> SUFFICES ASSUME k + 1 <= n
               PROVE  ToSet(F[k + 1]) = UNION {ToSet(ss[i]) : i \in 1 .. k + 1}
    OBVIOUS
  <2>1. k + 1 \in 1 .. n /\ (k + 1) - 1 = k /\ k \in 0 .. n
    OBVIOUS
  <2>2. F[k + 1] = F[k] \o ss[k + 1] /\ F[k] \in Seq(S) /\ ss[k + 1] \in Seq(S)
    BY <1>1, <1>2, <2>1 DEF Flattens
  <2>3. ToSet(F[k + 1]) = ToSet(F[k]) \cup ToSet(ss[k + 1])
    BY <2>2, ConcatElements
  <2>4. ToSet(F[k]) = UNION {ToSet(ss[i]) : i \in 1 .. k}
    BY <1>4, <2>1
  <2>5. 1 .. k + 1 = (1 .. k) \cup {k + 1}
    OBVIOUS
  <2>6. QED  BY <2>3, <2>4, <2>5
<1> HIDE DEF T
<1>5. n \in T
  BY <1>3, <1>4, CountUp
<1>6. n <= n
  OBVIOUS
<1>7. QED  BY <1>1, <1>2, <1>5, <1>6 DEF T

\* Sequences whose parts are the same are the same when flattened.
LEMMA FlattenMap ==
  ASSUME NEW S, NEW n \in Nat, NEW f, \A i \in 1 .. n : f[i] \in Seq(S)
  PROVE  /\ [i \in 1 .. n |-> f[i]] \in Seq(Seq(S))
         /\ Len([i \in 1 .. n |-> f[i]]) = n
<1>1. PICK g : g = [i \in 1 .. n |-> f[i]]
  OBVIOUS
<1>2. g \in [1 .. n -> Seq(S)]
  BY <1>1
<1>3. QED  BY <1>1, <1>2, FunctionIsSeq

-----------------------------------------------------------------------------
(* Trees of nodes, and their keys.                                         *)

IsTree(root) == Finite(root) /\ \A n \in Subtrees(root) : IsNode(n)

LEMMA NodeChildren ==
  ASSUME NEW n, IsNode(n)
  PROVE  /\ Children(n) \in Seq(ToSet(Children(n)))
         /\ Len(Children(n)) \in Nat /\ DOMAIN Children(n) = 1 .. Len(Children(n))
         /\ ToSet(Children(n)) = {Children(n)[i] : i \in 1 .. Len(Children(n))}
<1>1. Children(n) \in Seq(ToSet(Children(n)))
  <2>1. CASE n.kind = "operator"
    <3>1. n.children \in Seq(ToSet(n.children))
      BY <2>1 DEF IsNode
    <3>2. QED  BY <2>1, <3>1 DEF Children
  <2>2. CASE n.kind # "operator"
    BY <2>2, EmptySeq DEF Children
  <2>3. QED  BY <2>1, <2>2
<1>2. Len(Children(n)) \in Nat /\ DOMAIN Children(n) = 1 .. Len(Children(n))
  BY <1>1, LenProperties
<1>3. QED  BY <1>1, <1>2 DEF ToSet

\* A tree is a node and the trees below it.
LEMMA TreeParts ==
  ASSUME NEW root, IsTree(root)
  PROVE  /\ IsNode(root) /\ Finite(root)
         /\ \A n \in Subtrees(root) : IsTree(n)
         /\ \A c \in ToSet(Children(root)) : IsTree(c)
<1>1. Finite(root) /\ \A n \in Subtrees(root) : IsNode(n)
  BY DEF IsTree
<1>2. root \in Subtrees(root) /\ ToSet(Children(root)) \subseteq Subtrees(root)
  BY <1>1, SubtreeFacts
<1>3. \A n \in Subtrees(root) : Finite(n) /\ Subtrees(n) \subseteq Subtrees(root)
  BY <1>1, SubtreeFacts
<1>4. QED  BY <1>1, <1>2, <1>3 DEF IsTree

LEMMA TreeFrom ==
  ASSUME NEW root, IsNode(root), \A c \in ToSet(Children(root)) : IsTree(c)
  PROVE  IsTree(root)
<1>1. \A c \in ToSet(Children(root)) : Finite(c) /\ \A n \in Subtrees(c) : IsNode(n)
  BY DEF IsTree
<1>2. Finite(root)
  BY <1>1, NodeChildren, FiniteFrom
<1>3. Subtrees(root) = {root} \cup UNION {Subtrees(c) : c \in ToSet(Children(root))}
  BY <1>2, SubtreeFacts
<1>4. \A n \in Subtrees(root) : IsNode(n)
  BY <1>1, <1>3
<1>5. QED  BY <1>2, <1>4 DEF IsTree

LEMMA PlaceType ==
  ASSUME NEW text \in ToSet(Texts)
  PROVE  Place(text) \in DOMAIN Texts /\ Place(text) \in Int /\ Texts[Place(text)] = text
<1>1. Texts \in Seq(STRING)
  BY PolicyAstAssumption
<1>2. DOMAIN Texts \subseteq Int
  BY <1>1, LenProperties
<1>3. \E i \in DOMAIN Texts : Texts[i] = text
  BY DEF ToSet
<1>4. Place(text) \in DOMAIN Texts /\ Texts[Place(text)] = text
  BY <1>3 DEF Place
<1>5. QED  BY <1>2, <1>4

LEMMA ShortSets ==
  /\ ToSet(<<>>) = {}
  /\ \A x : ToSet(<<x>>) = {x}
<1>1. ToSet(<<>>) = {}
  BY DEF ToSet
<1>2. ASSUME NEW x  PROVE ToSet(<<x>>) = {x}
  <2>1. DOMAIN <<x>> = {1} /\ <<x>>[1] = x
    OBVIOUS
  <2>2. QED  BY <2>1 DEF ToSet
<1>3. QED  BY <1>1, <1>2

\* A filtered list has the elements that pass.
LEMMA KeysElements ==
  ASSUME NEW params, DOMAIN params \subseteq ToSet(Texts)
  PROVE  Keys(params) \in Seq(DOMAIN params) /\ ToSet(Keys(params)) = DOMAIN params
<1> DEFINE D == DOMAIN params
           n == Len(Texts)
           f == [i \in 1 .. n |-> IF Texts[i] \in D THEN <<Texts[i]>> ELSE <<>>]
<1>1. n \in Nat /\ DOMAIN Texts = 1 .. n
  BY PolicyAstAssumption, LenProperties
<1>2. Keys(params) = FlattenSeq(f)
  BY <1>1 DEF Keys, Filtered
<1> HIDE DEF n, D
<1>3. \A i \in 1 .. n : f[i] = IF Texts[i] \in D THEN <<Texts[i]>> ELSE <<>>
  OBVIOUS
<1>4. \A i \in 1 .. n : f[i] \in Seq(D)
  <2> SUFFICES ASSUME NEW i \in 1 .. n  PROVE f[i] \in Seq(D)
    OBVIOUS
  <2>1. CASE Texts[i] \in D
    BY <1>3, <2>1
  <2>2. CASE Texts[i] \notin D
    BY <1>3, <2>2, EmptySeq
  <2>3. QED  BY <2>1, <2>2
<1>5. f \in [1 .. n -> Seq(D)]
  BY <1>4
<1> HIDE DEF f
<1>6. f \in Seq(Seq(D)) /\ Len(f) = n
  BY <1>1, <1>5, FunctionIsSeq
<1>7. FlattenSeq(f) \in Seq(D)
  BY <1>6, FlattenType
<1>8. ToSet(FlattenSeq(f)) = UNION {ToSet(f[i]) : i \in 1 .. n}
  BY <1>6, FlattenElements
<1>9. \A i \in 1 .. n : ToSet(f[i]) = IF Texts[i] \in D THEN {Texts[i]} ELSE {}
  BY <1>3, ShortSets
<1>10. UNION {ToSet(f[i]) : i \in 1 .. n} = {Texts[i] : i \in 1 .. n} \cap D
  BY <1>9
<1>11. {Texts[i] : i \in 1 .. n} \cap D = D
  BY <1>1 DEF D, ToSet
<1>12. QED  BY <1>2, <1>7, <1>8, <1>10, <1>11 DEF D

LEMMA ValueTextType ==
  ASSUME NEW value \in Values
  PROVE  ValueText(value) \in Seq(Int)
<1>0. {"true", "false"} \subseteq ToSet(Texts)
  BY PolicyAstAssumption
<1>1. CASE value \in {"string", "array", "object"} \X ToSet(Texts)
  <2>1. Place(value[2]) \in Int /\ value[1] \in {"string", "array", "object"}
    BY <1>1, PlaceType
  <2>2. QED  BY <2>1 DEF ValueText
<1>2. CASE value \in {"boolean"} \X {"true", "false"}
  <2>1. Place(value[2]) \in Int /\ value[1] = "boolean"
    BY <1>0, <1>2, PlaceType
  <2>2. QED  BY <2>1 DEF ValueText
<1>3. CASE value \in {"number"} \X Int
  <2>1. value[2] \in Int /\ value[1] = "number"
    BY <1>3
  <2>2. QED  BY <2>1 DEF ValueText
<1>4. QED  BY <1>1, <1>2, <1>3 DEF Values

\* One text after another, as an operator of its own.
Cat(p, q) == p \o q

LEMMA CatType ==
  ASSUME NEW p \in Seq(Int), NEW q \in Seq(Int)
  PROVE  Cat(p, q) \in Seq(Int)
BY ConcatProperties DEF Cat

LEMMA CatAssociative ==
  ASSUME NEW p \in Seq(Int), NEW q \in Seq(Int), NEW r \in Seq(Int)
  PROVE  Cat(Cat(p, q), r) = Cat(p, Cat(q, r))
BY ConcatAssociative DEF Cat

LEMMA CatCancel ==
  ASSUME NEW p \in Seq(Int), NEW q \in Seq(Int), NEW r \in Seq(Int), Cat(p, q) = Cat(p, r)
  PROVE  q = r
BY ConcatSimplifications DEF Cat

\* A list of texts is a text.
LEMMA ListedType ==
  ASSUME NEW n \in Nat, NEW ps, DOMAIN ps = 1 .. n, \A i \in 1 .. n : ps[i] \in Seq(Int)
  PROVE  Listed(ps) \in Seq(Int)
<1> DEFINE f == [i \in DOMAIN ps |-> <<1>> \o ps[i]]
<1>1. f \in [1 .. n -> Seq(Int)]
  <2>1. ASSUME NEW i \in 1 .. n  PROVE <<1>> \o ps[i] \in Seq(Int)
    <3>1. <<1>> \in Seq(Int) /\ ps[i] \in Seq(Int)
      OBVIOUS
    <3>2. QED  BY <3>1, ConcatProperties
  <2>2. QED  BY <2>1
<1>2. Listed(ps) = FlattenSeq(f) \o <<2>>
  BY DEF Listed
<1> HIDE DEF f
<1>3. f \in Seq(Seq(Int))
  BY <1>1, FunctionIsSeq
<1>4. FlattenSeq(f) \in Seq(Int)
  BY <1>3, FlattenType
<1>5. <<2>> \in Seq(Int)
  OBVIOUS
<1>6. QED  BY <1>2, <1>4, <1>5, ConcatProperties

LEMMA NumbersType ==
  ASSUME NEW ns \in Seq(Int)
  PROVE  Numbers(ns) \in Seq(Int)
<1> DEFINE f == [i \in DOMAIN ns |-> <<ns[i]>>]
<1>1. PICK n \in Nat : DOMAIN ns = 1 .. n
  BY LenProperties
<1>2. \A i \in 1 .. n : ns[i] \in Int
  BY <1>1, ElementOfSeq, LenProperties
<1>3. DOMAIN f = 1 .. n /\ \A i \in 1 .. n : f[i] \in Seq(Int)
  BY <1>1, <1>2
<1>4. Numbers(ns) = Listed(f)
  BY DEF Numbers
<1> HIDE DEF f
<1>5. QED  BY <1>3, <1>4, ListedType

\* What a condition's parameters and an operator's weights are lists of.
EntriesText(params) ==
  [i \in DOMAIN Keys(params) |-> <<Place(Keys(params)[i])>> \o ValueText(params[Keys(params)[i]])]
WeightsText(weights) == [i \in DOMAIN weights |-> Numbers(weights[i])]

LEMMA EntriesType ==
  ASSUME NEW params, IsParams(params)
  PROVE  /\ ParamsText(params) = Listed(EntriesText(params))
         /\ \E n \in Nat : /\ DOMAIN EntriesText(params) = 1 .. n /\ DOMAIN Keys(params) = 1 .. n
                           /\ \A i \in 1 .. n :
                                /\ Keys(params)[i] \in DOMAIN params
                                /\ params[Keys(params)[i]] \in Values
                                /\ EntriesText(params)[i] \in Seq(Int)
<1>1. /\ DOMAIN params \subseteq ToSet(Texts)
      /\ \A key \in DOMAIN params : params[key] \in Values
  BY DEF IsParams
<1>2. PICK keys : keys = Keys(params)
  OBVIOUS
<1>3. keys \in Seq(DOMAIN params)
  BY <1>1, <1>2, KeysElements
<1>4. PICK n \in Nat : n = Len(keys) /\ DOMAIN keys = 1 .. n
  BY <1>3, LenProperties
<1>5. \A i \in 1 .. n : keys[i] \in DOMAIN params /\ params[keys[i]] \in Values
  BY <1>1, <1>3, <1>4, ElementOfSeq
<1>6. EntriesText(params) = [i \in 1 .. n |-> <<Place(keys[i])>> \o ValueText(params[keys[i]])]
  BY <1>2, <1>4 DEF EntriesText
<1>7. ASSUME NEW i \in 1 .. n
      PROVE  <<Place(keys[i])>> \o ValueText(params[keys[i]]) \in Seq(Int)
  <2>1. Place(keys[i]) \in Int
    BY <1>1, <1>5, PlaceType
  <2>2. ValueText(params[keys[i]]) \in Seq(Int)
    BY <1>5, ValueTextType
  <2>3. <<Place(keys[i])>> \in Seq(Int)
    BY <2>1
  <2>4. QED  BY <2>2, <2>3, ConcatProperties
<1>8. ParamsText(params) = Listed(EntriesText(params))
  BY DEF ParamsText, EntriesText
<1>9. DOMAIN EntriesText(params) = 1 .. n
  BY <1>6
<1>10. \A i \in 1 .. n : EntriesText(params)[i] \in Seq(Int)
  BY <1>6, <1>7
<1>11. QED  BY <1>2, <1>4, <1>5, <1>8, <1>9, <1>10

LEMMA WeightsType ==
  ASSUME NEW weights \in Optional(Seq(Int))
  PROVE  \E n \in Nat : /\ DOMAIN weights = 1 .. n /\ DOMAIN WeightsText(weights) = 1 .. n
                        /\ \A i \in 1 .. n :
                             /\ weights[i] \in Seq(Int) /\ WeightsText(weights)[i] = Numbers(weights[i])
                             /\ WeightsText(weights)[i] \in Seq(Int)
<1>1. weights \in Seq(Seq(Int))
  BY DEF Optional
<1>2. PICK n \in Nat : DOMAIN weights = 1 .. n
  BY <1>1, LenProperties
<1>3. \A i \in 1 .. n : weights[i] \in Seq(Int)
  BY <1>1, <1>2, ElementOfSeq, LenProperties
<1>4. \A i \in 1 .. n : Numbers(weights[i]) \in Seq(Int)
  BY <1>3, NumbersType
<1>5. WeightsText(weights) = [i \in 1 .. n |-> Numbers(weights[i])]
  BY <1>2 DEF WeightsText
<1>6. QED  BY <1>2, <1>3, <1>4, <1>5

\* The text of a node, part by part.
OperatorText(node, kids) ==
  Cat(<<1>>, Cat(Listed(kids), Cat(<<Place(node.operator)>>, Cat(Numbers(node.k),
    Cat(Listed(WeightsText(node.weights)), Numbers(node.weight))))))
ConditionText(node) ==
  Cat(<<2>>, Cat(ParamsText(node.params), Cat(<<Place(node.type)>>, Numbers(node.weight))))

LEMMA OperatorTextParts ==
  ASSUME NEW node, IsNode(node), node.kind = "operator", NEW n \in Nat, NEW kids,
         DOMAIN kids = 1 .. n, \A i \in 1 .. n : kids[i] \in Seq(Int)
  PROVE  /\ Numbers(node.weight) \in Seq(Int) /\ Listed(kids) \in Seq(Int)
         /\ <<Place(node.operator)>> \in Seq(Int) /\ Numbers(node.k) \in Seq(Int)
         /\ Listed(WeightsText(node.weights)) \in Seq(Int)
         /\ NodeText(node, kids) = OperatorText(node, kids)
         /\ NodeText(node, kids) \in Seq(Int)
<1>1. /\ node.k \in Seq(Int) /\ node.weight \in Seq(Int)
      /\ node.weights \in Optional(Seq(Int)) /\ node.operator \in ToSet(Texts)
  BY DEF IsNode, Optional
<1>2. PICK a, b, c : a = <<1>> /\ b = Listed(kids) /\ c = <<Place(node.operator)>>
  OBVIOUS
<1>3. PICK d, w : d = Numbers(node.k) /\ w = WeightsText(node.weights)
  OBVIOUS
<1>4. PICK e, f : e = Listed(w) /\ f = Numbers(node.weight)
  OBVIOUS
<1>5. e \in Seq(Int)
  <2>1. PICK m \in Nat : DOMAIN w = 1 .. m /\ \A i \in 1 .. m : w[i] \in Seq(Int)
    BY <1>1, <1>3, WeightsType
  <2>2. QED  BY <1>4, <2>1, ListedType
<1>6. b \in Seq(Int) /\ d \in Seq(Int) /\ f \in Seq(Int)
  BY <1>1, <1>2, <1>3, <1>4, ListedType, NumbersType
<1>7. Place(node.operator) \in Int
  BY <1>1, PlaceType
<1>8. a \in Seq(Int) /\ c \in Seq(Int)
  BY <1>2, <1>7
<1>9. NodeText(node, kids) = Cat(Cat(Cat(Cat(Cat(a, b), c), d), e), f)
  BY <1>2, <1>3, <1>4 DEF NodeText, WeightsText, Cat
<1>10. PICK p, q, r : p = Cat(a, b) /\ q = Cat(p, c) /\ r = Cat(q, d)
  OBVIOUS
<1>11. PICK x, y, z : x = Cat(e, f) /\ y = Cat(d, x) /\ z = Cat(c, y)
  OBVIOUS
<1>12. p \in Seq(Int) /\ x \in Seq(Int)
  BY <1>5, <1>6, <1>8, <1>10, <1>11, CatType
<1>13. q \in Seq(Int) /\ y \in Seq(Int)
  BY <1>6, <1>8, <1>10, <1>11, <1>12, CatType
<1>14. r \in Seq(Int) /\ z \in Seq(Int)
  BY <1>6, <1>8, <1>10, <1>11, <1>13, CatType
<1>15. Cat(Cat(r, e), f) = Cat(r, x)
  BY <1>5, <1>6, <1>11, <1>14, CatAssociative
<1>16. Cat(r, x) = Cat(q, y)
  BY <1>6, <1>10, <1>11, <1>12, <1>13, CatAssociative
<1>17. Cat(q, y) = Cat(p, z)
  BY <1>8, <1>10, <1>11, <1>12, <1>13, CatAssociative
<1>18. Cat(p, z) = Cat(a, Cat(b, z))
  BY <1>6, <1>8, <1>10, <1>14, CatAssociative
<1>19. Cat(b, z) \in Seq(Int)
  BY <1>6, <1>14, CatType
<1>20. Cat(a, Cat(b, z)) \in Seq(Int)
  BY <1>8, <1>19, CatType
<1>21. OperatorText(node, kids) = Cat(a, Cat(b, z))
  BY <1>2, <1>3, <1>4, <1>11 DEF OperatorText
<1>22. NodeText(node, kids) = Cat(a, Cat(b, z))
  BY <1>9, <1>10, <1>15, <1>16, <1>17, <1>18
<1>23. QED
  BY <1>2, <1>3, <1>4, <1>5, <1>6, <1>8, <1>20, <1>21, <1>22

LEMMA ConditionTextParts ==
  ASSUME NEW node, IsNode(node), node.kind # "operator", NEW kids
  PROVE  /\ Numbers(node.weight) \in Seq(Int) /\ <<Place(node.type)>> \in Seq(Int)
         /\ ParamsText(node.params) \in Seq(Int)
         /\ NodeText(node, kids) = ConditionText(node)
         /\ NodeText(node, kids) \in Seq(Int)
<1>1. /\ node.kind = "condition" /\ node.type \in ToSet(Texts)
      /\ node.weight \in Seq(Int) /\ IsParams(node.params)
  BY DEF IsNode, Optional
<1>2. PICK a, b, c, f : /\ a = <<2>> /\ b = ParamsText(node.params)
                        /\ c = <<Place(node.type)>> /\ f = Numbers(node.weight)
  OBVIOUS
<1>3. b \in Seq(Int)
  <2>1. PICK g : g = EntriesText(node.params)
    OBVIOUS
  <2>2. PICK m \in Nat : DOMAIN g = 1 .. m /\ \A i \in 1 .. m : g[i] \in Seq(Int)
    BY <1>1, <2>1, EntriesType
  <2>3. b = Listed(g)
    BY <1>1, <1>2, <2>1, EntriesType
  <2>4. QED  BY <2>2, <2>3, ListedType
<1>4. f \in Seq(Int)
  BY <1>1, <1>2, NumbersType
<1>5. Place(node.type) \in Int
  BY <1>1, PlaceType
<1>6. a \in Seq(Int) /\ c \in Seq(Int)
  BY <1>2, <1>5
<1>7. NodeText(node, kids) = Cat(Cat(Cat(a, b), c), f)
  BY <1>2 DEF NodeText, Cat
<1>8. PICK p, x : p = Cat(a, b) /\ x = Cat(c, f)
  OBVIOUS
<1>9. p \in Seq(Int) /\ x \in Seq(Int)
  BY <1>3, <1>4, <1>6, <1>8, CatType
<1>10. Cat(Cat(p, c), f) = Cat(p, x)
  BY <1>4, <1>6, <1>8, <1>9, CatAssociative
<1>11. Cat(p, x) = Cat(a, Cat(b, x))
  BY <1>3, <1>6, <1>8, <1>9, CatAssociative
<1>12. Cat(b, x) \in Seq(Int)
  BY <1>3, <1>9, CatType
<1>13. Cat(a, Cat(b, x)) \in Seq(Int)
  BY <1>6, <1>12, CatType
<1>14. ConditionText(node) = Cat(a, Cat(b, x))
  BY <1>2, <1>8 DEF ConditionText
<1>15. NodeText(node, kids) = Cat(a, Cat(b, x))
  BY <1>7, <1>8, <1>10, <1>11
<1>16. QED  BY <1>2, <1>3, <1>4, <1>6, <1>13, <1>14, <1>15

\* Every tree has a key.
LEMMA KeyType ==
  ASSUME NEW root, IsTree(root)
  PROVE  /\ NodeSortKey(root) \in Seq(Int) /\ JsonText(root) \in Seq(Int)
         /\ NodeSortKey(root) = Numbers(root.weight) \o JsonText(root)
<1> DEFINE P == {n \in Subtrees(root) : JsonText(n) \in Seq(Int)}
<1>1. ASSUME NEW n \in Subtrees(root), ToSet(Children(n)) \subseteq P  PROVE n \in P
  <2>1. IsNode(n) /\ Finite(n)
    BY TreeParts
  <2> DEFINE kids == [i \in DOMAIN Children(n) |-> JsonText(Children(n)[i])]
  <2>2. JsonText(n) = NodeText(n, kids)
    BY <2>1, JsonTextRule
  <2>3. PICK m \in Nat : DOMAIN Children(n) = 1 .. m
    BY <2>1, NodeChildren
  <2>4. \A i \in 1 .. m : JsonText(Children(n)[i]) \in Seq(Int)
    BY <1>1, <2>3 DEF ToSet
  <2>5. DOMAIN kids = 1 .. m /\ \A i \in 1 .. m : kids[i] \in Seq(Int)
    BY <2>3, <2>4
  <2> HIDE DEF kids
  <2>6. NodeText(n, kids) \in Seq(Int)
    BY <2>1, <2>5, OperatorTextParts, ConditionTextParts
  <2>7. QED  BY <2>2, <2>6
<1>2. Subtrees(root) \subseteq P
  <2> HIDE DEF P
  <2>1. Finite(root)
    BY TreeParts
  <2>2. QED  BY <1>1, <2>1, TreeInduction
<1>3. JsonText(root) \in Seq(Int)
  BY <1>2, TreeParts, SubtreeFacts
<1>4. root.weight \in Seq(Int)
  BY TreeParts DEF IsNode, Optional
<1>5. Numbers(root.weight) \in Seq(Int)
  BY <1>4, NumbersType
<1>6. QED  BY <1>3, <1>5, ConcatProperties DEF NodeSortKey

-----------------------------------------------------------------------------
(* What canonicalization does to the children of a node.                   *)

KeyBefore(a, b) == Before(NodeSortKey(a), NodeSortKey(b))
InOrder(s) == \A i, j \in 1 .. Len(s) : i < j => ~KeyBefore(s[j], s[i])
Unlike(s) == \A i \in 2 .. Len(s) : s[i] # s[i - 1]
KeyLess(kids) == {p \in PairsOf(Keyed(kids)) : Before(p[1][1], p[2][1])}

\* The comparison of keyed children is that of their keys.
LEMMA KeyedFacts ==
  ASSUME NEW S, \A c \in S : IsTree(c), NEW kids \in Seq(S)
  PROVE  /\ DOMAIN Keyed(kids) = 1 .. Len(kids)
         /\ \A i \in 1 .. Len(kids) : Keyed(kids)[i] = <<NodeSortKey(kids[i]), kids[i]>>
         /\ \A i, j \in 1 .. Len(kids) :
              <<Keyed(kids)[i], Keyed(kids)[j]>> \in KeyLess(kids) <=> KeyBefore(kids[i], kids[j])
         /\ WeakOrder(KeyLess(kids), Keyed(kids))
<1>1. PICK n \in Nat : n = Len(kids) /\ \A i \in 1 .. n : kids[i] \in S
  BY LenProperties, ElementOfSeq
<1>2. PICK keyed : keyed = Keyed(kids)
  OBVIOUS
<1>3. /\ DOMAIN keyed = 1 .. n
      /\ \A i \in 1 .. n : keyed[i] = <<NodeSortKey(kids[i]), kids[i]>>
  BY <1>1, <1>2 DEF Keyed
<1>4. KeyLess(kids) = {p \in ToSet(keyed) \X ToSet(keyed) : Before(p[1][1], p[2][1])}
  BY <1>2 DEF KeyLess, PairsOf
<1>5. \A i \in 1 .. n : keyed[i] \in ToSet(keyed)
  BY <1>3 DEF ToSet
<1>6. ASSUME NEW i \in 1 .. n, NEW j \in 1 .. n
      PROVE  <<keyed[i], keyed[j]>> \in KeyLess(kids) <=> KeyBefore(kids[i], kids[j])
  <2>1. <<keyed[i], keyed[j]>> \in ToSet(keyed) \X ToSet(keyed)
    BY <1>5
  <2>2. /\ keyed[i][1] = NodeSortKey(kids[i])
        /\ keyed[j][1] = NodeSortKey(kids[j])
    BY <1>3
  <2>3. <<keyed[i], keyed[j]>> \in KeyLess(kids) <=> Before(keyed[i][1], keyed[j][1])
    BY <1>4, <2>1
  <2>4. QED  BY <2>2, <2>3 DEF KeyBefore
<1>7. \A i \in 1 .. n : NodeSortKey(kids[i]) \in Seq(Int)
  BY <1>1, KeyType
<1>8. WeakOrder(KeyLess(kids), keyed)
  <2>1. \A i, j, k \in 1 .. n :
          /\ ~KeyBefore(kids[i], kids[i])
          /\ KeyBefore(kids[i], kids[j]) /\ KeyBefore(kids[j], kids[k])
               => KeyBefore(kids[i], kids[k])
          /\ ~KeyBefore(kids[i], kids[j]) /\ ~KeyBefore(kids[j], kids[k])
               => ~KeyBefore(kids[i], kids[k])
    BY <1>7, BeforeIsOrder DEF KeyBefore
  <2>2. \A i, j \in 1 .. n :
          <<keyed[i], keyed[j]>> \in KeyLess(kids) <=> KeyBefore(kids[i], kids[j])
    BY <1>6
  <2>3. \A i \in 1 .. n : <<keyed[i], keyed[i]>> \notin KeyLess(kids)
    BY <2>1, <2>2
  <2>4. \A i, j, k \in 1 .. n :
          <<keyed[i], keyed[j]>> \in KeyLess(kids) /\ <<keyed[j], keyed[k]>> \in KeyLess(kids)
            => <<keyed[i], keyed[k]>> \in KeyLess(kids)
    BY <2>1, <2>2
  <2>5. \A i, j, k \in 1 .. n :
          <<keyed[i], keyed[j]>> \notin KeyLess(kids) /\ <<keyed[j], keyed[k]>> \notin KeyLess(kids)
            => <<keyed[i], keyed[k]>> \notin KeyLess(kids)
    BY <2>1, <2>2
  <2>6. QED  BY <1>3, <2>3, <2>4, <2>5 DEF WeakOrder
<1>9. QED  BY <1>1, <1>2, <1>3, <1>6, <1>8

\* Sorted children are the same children, by their keys.
LEMMA SortedFacts ==
  ASSUME NEW S, \A c \in S : IsTree(c), NEW kids \in Seq(S), NEW op \in Commutative
  PROVE  /\ Sorted(op, kids) \in Seq(S) /\ Len(Sorted(op, kids)) = Len(kids)
         /\ \E p : Permutes(p, kids, Sorted(op, kids))
         /\ InOrder(Sorted(op, kids))
<1>1. PICK n \in Nat : /\ n = Len(kids) /\ DOMAIN kids = 1 .. n
                       /\ \A i \in 1 .. n : kids[i] \in S
  BY LenProperties, ElementOfSeq
<1>2. PICK keyed : keyed = Keyed(kids)
  OBVIOUS
<1>3. PICK less : less = KeyLess(kids)
  OBVIOUS
<1>4. /\ DOMAIN keyed = 1 .. n
      /\ \A i \in 1 .. n : keyed[i] = <<NodeSortKey(kids[i]), kids[i]>>
      /\ \A i, j \in 1 .. n : <<keyed[i], keyed[j]>> \in less <=> KeyBefore(kids[i], kids[j])
      /\ WeakOrder(less, keyed)
  BY <1>1, <1>2, <1>3, KeyedFacts
<1>5. PICK t : t = StableSort(keyed, less)
  OBVIOUS
<1>6. /\ \E p : Permutes(p, keyed, t)
      /\ \A i, j \in 1 .. n : i < j => <<t[j], t[i]>> \notin less
  BY <1>4, <1>5, SortPermutes
<1>7. PICK p : Permutes(p, keyed, t)
  BY <1>6
<1>8. PICK sorted : sorted = Sorted(op, kids)
  OBVIOUS
<1>9. sorted = [i \in 1 .. n |-> t[i][2]]
  <2>1. Len(keyed) = n
    BY <1>1, <1>2 DEF Keyed
  <2>2. Sorted(op, kids) = [i \in 1 .. Len(keyed) |-> t[i][2]]
    BY <1>2, <1>3, <1>5 DEF Sorted, KeyLess
  <2>3. QED  BY <1>8, <2>1, <2>2
<1>10. p \in Bijection(1 .. n, 1 .. n) /\ \A i \in 1 .. n : p[i] \in 1 .. n /\ t[i] = keyed[p[i]]
  BY <1>4, <1>7 DEF Permutes, Bijection, Injection
<1>11. \A i \in 1 .. n : sorted[i] = kids[p[i]]
  BY <1>4, <1>9, <1>10
<1>12. Permutes(p, kids, sorted)
  BY <1>1, <1>9, <1>10, <1>11 DEF Permutes
<1>13. sorted \in Seq(S) /\ Len(sorted) = n
  <2>1. sorted \in [1 .. n -> S]
    BY <1>1, <1>9, <1>10, <1>11
  <2>2. QED  BY <2>1, FunctionIsSeq
<1>14. InOrder(sorted)
  <2> SUFFICES ASSUME NEW i \in 1 .. n, NEW j \in 1 .. n, i < j
               PROVE  ~KeyBefore(sorted[j], sorted[i])
    BY <1>13 DEF InOrder
  <2>1. <<keyed[p[j]], keyed[p[i]]>> \notin less
    BY <1>6, <1>10
  <2>2. ~KeyBefore(kids[p[j]], kids[p[i]])
    BY <1>4, <1>10, <2>1
  <2>3. QED  BY <1>11, <2>2
<1>15. QED  BY <1>1, <1>8, <1>12, <1>13, <1>14

\* What is in order already is left as it is.
LEMMA SortedFixed ==
  ASSUME NEW S, \A c \in S : IsTree(c), NEW kids \in Seq(S), InOrder(kids), NEW op
  PROVE  Sorted(op, kids) = kids
<1>0. SUFFICES ASSUME op \in Commutative  PROVE Sorted(op, kids) = kids
  BY DEF Sorted
<1>1. PICK n \in Nat : /\ n = Len(kids) /\ DOMAIN kids = 1 .. n
                       /\ \A i \in 1 .. n : kids[i] \in S
  BY LenProperties, ElementOfSeq
<1>2. PICK keyed : keyed = Keyed(kids)
  OBVIOUS
<1>3. PICK less : less = KeyLess(kids)
  OBVIOUS
<1>4. /\ DOMAIN keyed = 1 .. n
      /\ \A i \in 1 .. n : keyed[i] = <<NodeSortKey(kids[i]), kids[i]>>
      /\ \A i, j \in 1 .. n : <<keyed[i], keyed[j]>> \in less <=> KeyBefore(kids[i], kids[j])
      /\ WeakOrder(less, keyed)
  BY <1>1, <1>2, <1>3, KeyedFacts
<1> DEFINE B(i, j) == \/ <<keyed[i], keyed[j]>> \in less
                      \/ <<keyed[j], keyed[i]>> \notin less /\ i < j
           rank == [j \in 1 .. n |-> Cardinality({i \in 1 .. n : B(i, j)})]
           t == StableSort(keyed, less)
<1>5. ASSUME NEW i \in 1 .. n, NEW j \in 1 .. n  PROVE B(i, j) <=> i < j
  <2>1. CASE i < j
    <3>1. ~KeyBefore(kids[j], kids[i])
      BY <1>1, <2>1 DEF InOrder
    <3>2. QED  BY <1>4, <2>1, <3>1
  <2>2. CASE i = j
    <3>1. <<keyed[i], keyed[j]>> \notin less
      BY <1>4, <2>2 DEF WeakOrder
    <3>2. QED  BY <2>2, <3>1
  <2>3. CASE j < i
    <3>1. ~KeyBefore(kids[i], kids[j])
      BY <1>1, <2>3 DEF InOrder
    <3>2. <<keyed[i], keyed[j]>> \notin less
      BY <1>4, <3>1
    <3>3. QED  BY <2>3, <3>2
  <2>4. QED  BY <2>1, <2>2, <2>3
<1>6. t = [k \in 1 .. n |-> keyed[CHOOSE j \in 1 .. n : rank[j] = k - 1]]
  BY <1>4 DEF StableSort
<1> HIDE DEF B
<1>7. ASSUME NEW j \in 1 .. n  PROVE rank[j] = j - 1
  <2>1. {i \in 1 .. n : B(i, j)} = 1 .. j - 1
    BY <1>5
  <2>2. Cardinality(1 .. j - 1) = j - 1
    <3>1. 1 \in Int /\ j - 1 \in Int
      OBVIOUS
    <3>2. Cardinality(1 .. j - 1) = IF 1 > j - 1 THEN 0 ELSE (j - 1) - 1 + 1
      BY ONLY <3>1, FS_Interval
    <3>3. QED  BY <3>2
  <2>3. QED  BY <2>1, <2>2
<1> HIDE DEF rank
<1>8. ASSUME NEW k \in 1 .. n  PROVE (CHOOSE j \in 1 .. n : rank[j] = k - 1) = k
  <2>1. \A j \in 1 .. n : rank[j] = k - 1 <=> j = k
    BY <1>7
  <2>2. (CHOOSE j \in 1 .. n : rank[j] = k - 1) = (CHOOSE j \in 1 .. n : j = k)
    BY <2>1
  <2>3. QED  BY <2>2
<1>9. \A k \in 1 .. n : t[k] = keyed[k]
  BY <1>6, <1>8
<1> HIDE DEF t
<1>10. Sorted(op, kids) = [i \in 1 .. n |-> t[i][2]]
  <2>1. Len(keyed) = n
    BY <1>1, <1>2 DEF Keyed
  <2>2. Sorted(op, kids) = [i \in 1 .. Len(keyed) |-> t[i][2]]
    BY <1>0, <1>2, <1>3 DEF Sorted, KeyLess, t
  <2>3. QED  BY <2>1, <2>2
<1>11. \A i \in 1 .. n : t[i][2] = kids[i]
  BY <1>4, <1>9
<1>12. kids = [i \in 1 .. n |-> kids[i]]
  BY <1>1, LenProperties
<1>13. QED  BY <1>10, <1>11, <1>12

\* Single elements, end to end.
LEMMA FlattenSingles ==
  ASSUME NEW S, NEW s \in Seq(S), NEW ss, ss = [i \in DOMAIN s |-> <<s[i]>>]
  PROVE  FlattenSeq(ss) = s
<1>1. PICK n \in Nat : /\ n = Len(s) /\ DOMAIN s = 1 .. n
                       /\ \A i \in 1 .. n : s[i] \in S
  BY LenProperties, ElementOfSeq
<1>2. ss \in Seq(Seq(S)) /\ Len(ss) = n
  <2>1. \A i \in 1 .. n : <<s[i]>> \in Seq(S)
    BY <1>1
  <2>2. ss \in [1 .. n -> Seq(S)]
    BY <1>1, <2>1
  <2>3. QED  BY <2>2, FunctionIsSeq
<1>3. PICK F : /\ Flattens(F, ss) /\ FlattenSeq(ss) = F[n]
               /\ \A k \in 0 .. n : F[k] \in Seq(S)
  BY <1>2, FlattenRule
<1> DEFINE T == {k \in Nat : k <= n => Len(F[k]) = k /\ \A m \in 1 .. k : F[k][m] = s[m]}
<1>4. 0 \in T
  BY <1>3, EmptySeq DEF Flattens
<1>5. ASSUME NEW k \in Nat, k \in T  PROVE k + 1 \in T
  <2> SUFFICES ASSUME k + 1 <= n
               PROVE  Len(F[k + 1]) = k + 1 /\ \A m \in 1 .. k + 1 : F[k + 1][m] = s[m]
    OBVIOUS
  <2>1. k + 1 \in 1 .. n /\ (k + 1) - 1 = k /\ k \in 0 .. n
    OBVIOUS
  <2>2. F[k + 1] = F[k] \o <<s[k + 1]>> /\ F[k] \in Seq(S) /\ s[k + 1] \in S
    BY <1>1, <1>2, <1>3, <2>1 DEF Flattens
  <2>3. Len(F[k]) = k /\ \A m \in 1 .. k : F[k][m] = s[m]
    BY <1>5, <2>1
  <2>4. PICK f : f = F[k]
    OBVIOUS
  <2>5. PICK g : g = F[k + 1]
    OBVIOUS
  <2>6. g = f \o <<s[k + 1]>> /\ f \in Seq(S) /\ <<s[k + 1]>> \in Seq(S)
        /\ Len(<<s[k + 1]>>) = 1 /\ <<s[k + 1]>>[1] = s[k + 1]
    BY <2>2, <2>4, <2>5
  <2>7. Len(f) = k /\ \A m \in 1 .. k : f[m] = s[m]
    BY <2>3, <2>4
  <2>8. /\ Len(g) = k + 1
        /\ \A i \in 1 .. k + 1 : g[i] = IF i <= k THEN f[i] ELSE <<s[k + 1]>>[i - k]
    BY <2>6, <2>7, ConcatProperties
  <2>9. ASSUME NEW m \in 1 .. k + 1  PROVE g[m] = s[m]
    <3>1. CASE m <= k
      BY <2>7, <2>8, <3>1
    <3>2. CASE ~(m <= k)
      <4>1. m = k + 1 /\ m - k = 1
        BY <3>2
      <4>2. QED  BY <2>6, <2>8, <3>2, <4>1
    <3>3. QED  BY <3>1, <3>2
  <2>10. QED  BY <2>5, <2>8, <2>9
<1> HIDE DEF T
<1>6. n \in T /\ n <= n
  BY <1>4, <1>5, CountUp
<1>7. Len(F[n]) = n /\ \A m \in 1 .. n : F[n][m] = s[m]
  BY <1>6 DEF T
<1>8. F[n] \in Seq(S)
  BY <1>3
<1>9. QED  BY <1>1, <1>3, <1>7, <1>8, SeqEqual

LEMMA FlattenedFacts ==
  ASSUME NEW S, NEW kids \in Seq(S), NEW op \in Associative,
         \A i \in 1 .. Len(kids) : IsOperator(kids[i], op) => kids[i].children \in Seq(S)
  PROVE  /\ Flattened(op, kids) \in Seq(S)
         /\ ToSet(Flattened(op, kids)) =
              UNION {IF IsOperator(kids[i], op) THEN ToSet(kids[i].children)
                     ELSE {kids[i]} : i \in 1 .. Len(kids)}
<1> DEFINE part(i) == IF IsOperator(kids[i], op) THEN kids[i].children ELSE <<kids[i]>>
<1>1. PICK n \in Nat : /\ n = Len(kids) /\ DOMAIN kids = 1 .. n
                       /\ \A i \in 1 .. n : kids[i] \in S
  BY LenProperties, ElementOfSeq
<1>2. PICK f : f = [i \in 1 .. n |-> part(i)]
  OBVIOUS
<1>3. Flattened(op, kids) = FlattenSeq(f)
  BY <1>1, <1>2 DEF Flattened
<1>4. \A i \in 1 .. n : f[i] = part(i)
  BY <1>2
<1>5. \A i \in 1 .. n : part(i) \in Seq(S)
  BY <1>1
<1>6. f \in Seq(Seq(S)) /\ Len(f) = n
  <2> HIDE DEF part
  <2>1. f \in [1 .. n -> Seq(S)]
    BY <1>2, <1>5
  <2>2. QED  BY <2>1, FunctionIsSeq
<1>7. FlattenSeq(f) \in Seq(S)
  BY <1>6, FlattenType
<1>8. ToSet(FlattenSeq(f)) = UNION {ToSet(f[i]) : i \in 1 .. n}
  BY <1>6, FlattenElements
<1>9. \A i \in 1 .. n : ToSet(f[i]) = IF IsOperator(kids[i], op) THEN ToSet(kids[i].children)
                                      ELSE {kids[i]}
  BY <1>4, ShortSets
<1> HIDE DEF part
<1>10. UNION {ToSet(f[i]) : i \in 1 .. n} =
         UNION {IF IsOperator(kids[i], op) THEN ToSet(kids[i].children)
                ELSE {kids[i]} : i \in 1 .. n}
  BY <1>9
<1>11. QED  BY <1>1, <1>3, <1>7, <1>8, <1>10

LEMMA FlattenedFixed ==
  ASSUME NEW S, NEW kids \in Seq(S), NEW op,
         \A i \in 1 .. Len(kids) : ~IsOperator(kids[i], op)
  PROVE  Flattened(op, kids) = kids
<1>1. DOMAIN kids = 1 .. Len(kids)
  BY LenProperties
<1>2. PICK f : f = [i \in DOMAIN kids |-> <<kids[i]>>]
  OBVIOUS
<1>3. FlattenSeq(f) = kids
  BY <1>2, FlattenSingles
<1>4. op \in Associative => Flattened(op, kids) = FlattenSeq(f)
  BY <1>1, <1>2 DEF Flattened
<1>5. op \notin Associative => Flattened(op, kids) = kids
  BY DEF Flattened
<1>6. QED  BY <1>3, <1>4, <1>5

\* What is left when a repeated neighbour is dropped.
LEMMA UnrepeatedFacts ==
  ASSUME NEW S, NEW kids \in Seq(S), NEW op \in DuplicateInsensitive
  PROVE  /\ Unrepeated(op, kids) \in Seq(S)
         /\ ToSet(Unrepeated(op, kids)) = ToSet(kids)
         /\ Unlike(Unrepeated(op, kids))
         /\ InOrder(kids) => InOrder(Unrepeated(op, kids))
<1>1. PICK n \in Nat : /\ n = Len(kids) /\ DOMAIN kids = 1 .. n
                       /\ \A i \in 1 .. n : kids[i] \in S
  BY LenProperties, ElementOfSeq
<1> DEFINE same(i) == i > 1 /\ kids[i] = kids[IF i > 1 THEN i - 1 ELSE i]
<1>2. PICK ss : ss = [i \in 1 .. n |-> IF same(i) THEN <<>> ELSE <<kids[i]>>]
  OBVIOUS
<1>3. Unrepeated(op, kids) = FlattenSeq(ss)
  BY <1>1, <1>2 DEF Unrepeated
<1>4. \A i \in 1 .. n : ss[i] = IF i > 1 /\ kids[i] = kids[i - 1] THEN <<>> ELSE <<kids[i]>>
  BY <1>2
<1>5. ss \in Seq(Seq(S)) /\ Len(ss) = n
  <2>1. ASSUME NEW i \in 1 .. n  PROVE ss[i] \in Seq(S)
    <3>1. <<>> \in Seq(S) /\ <<kids[i]>> \in Seq(S)
      BY <1>1, EmptySeq
    <3>2. ss[i] = <<>> \/ ss[i] = <<kids[i]>>
      BY <1>4
    <3>3. QED  BY <3>1, <3>2
  <2>2. ss \in [1 .. n -> Seq(S)]
    BY <1>2, <2>1
  <2>3. QED  BY <2>2, FunctionIsSeq
<1>6. PICK F : /\ Flattens(F, ss) /\ FlattenSeq(ss) = F[n]
               /\ \A k \in 0 .. n : F[k] \in Seq(S)
  BY <1>5, FlattenRule
<1> DEFINE Holds(k, f) ==
             /\ k > 0 => Len(f) > 0 /\ f[Len(f)] = kids[k]
             /\ ToSet(f) = {kids[m] : m \in 1 .. k}
             /\ Unlike(f)
             /\ InOrder(kids) => InOrder(f)
           T == {k \in Nat : k <= n => Holds(k, F[k])}
<1>7. 0 \in T
  <2>1. F[0] = <<>> /\ Len(<<>>) = 0
    BY <1>6, EmptySeq DEF Flattens
  <2>2. ToSet(<<>>) = {kids[m] : m \in 1 .. 0}
    BY ShortSets
  <2>3. Unlike(<<>>) /\ InOrder(<<>>)
    BY <2>1 DEF Unlike, InOrder
  <2>4. QED  BY <2>1, <2>2, <2>3
<1>8. ASSUME NEW k \in Nat, Holds(k, F[k]), k + 1 <= n  PROVE Holds(k + 1, F[k + 1])
  <2>1. k + 1 \in 1 .. n /\ (k + 1) - 1 = k /\ k \in 0 .. n
    BY <1>8
  <2>2. PICK f : f = F[k]
    OBVIOUS
  <2>3. PICK g : g = F[k + 1]
    OBVIOUS
  <2>4. g = f \o ss[k + 1] /\ f \in Seq(S)
    BY <1>5, <1>6, <2>1, <2>2, <2>3 DEF Flattens
  <2>5. /\ k > 0 => Len(f) > 0 /\ f[Len(f)] = kids[k]
        /\ ToSet(f) = {kids[m] : m \in 1 .. k}
        /\ Unlike(f)
        /\ InOrder(kids) => InOrder(f)
    BY <1>8, <2>2
  <2>6. 1 .. k + 1 = (1 .. k) \cup {k + 1}
    OBVIOUS
  <2>7. CASE k + 1 > 1 /\ kids[k + 1] = kids[k]
    <3>1. ss[k + 1] = <<>>
      BY <1>4, <2>1, <2>7
    <3>2. g = f
      BY <2>4, <3>1, ConcatEmptySeq
    <3>3. k \in 1 .. k /\ k > 0
      BY <2>7
    <3>4. {kids[m] : m \in 1 .. k + 1} = {kids[m] : m \in 1 .. k}
      BY <2>6, <2>7, <3>3
    <3>5. QED  BY <2>3, <2>5, <2>7, <3>2, <3>3, <3>4
  <2>8. CASE ~(k + 1 > 1 /\ kids[k + 1] = kids[k])
    <3>1. ss[k + 1] = <<kids[k + 1]>>
      BY <1>4, <2>1, <2>8
    <3>2. kids[k + 1] \in S
      BY <1>1, <2>1
    <3>3. PICK l \in Nat : l = Len(f) /\ DOMAIN f = 1 .. l
      BY <2>4, LenProperties
    <3>4. PICK x : x = kids[k + 1]
      OBVIOUS
    <3>5. g = f \o <<x>> /\ f \in Seq(S) /\ <<x>> \in Seq(S) /\ Len(<<x>>) = 1 /\ <<x>>[1] = x
      BY <2>4, <3>1, <3>2, <3>4
    <3>6. /\ g \in Seq(S) /\ Len(g) = l + 1
          /\ \A i \in 1 .. l + 1 : g[i] = IF i <= l THEN f[i] ELSE <<x>>[i - l]
      BY <3>3, <3>5, ConcatProperties
    <3>7. g[l + 1] = x
      <4>1. l + 1 \in 1 .. l + 1 /\ ~(l + 1 <= l) /\ (l + 1) - l = 1
        OBVIOUS
      <4>2. QED  BY <3>5, <3>6, <4>1
    <3>8. \A i \in 1 .. l : g[i] = f[i]
      BY <3>6
    <3>9. ToSet(g) = {kids[m] : m \in 1 .. k + 1}
      <4>1. ToSet(g) = ToSet(f) \cup ToSet(<<x>>)
        BY <3>5, ConcatElements
      <4>2. ToSet(<<x>>) = {x}
        BY ShortSets
      <4>3. QED  BY <2>5, <2>6, <3>4, <4>1, <4>2
    <3>10. Unlike(g)
      <4> SUFFICES ASSUME NEW i \in 2 .. l + 1  PROVE g[i] # g[i - 1]
        BY <3>6 DEF Unlike
      <4>1. CASE i <= l
        <5>1. i \in 1 .. l /\ i - 1 \in 1 .. l /\ i \in 2 .. l
          BY <4>1
        <5>2. f[i] # f[i - 1]
          BY <2>5, <3>3, <5>1 DEF Unlike
        <5>3. QED  BY <3>8, <5>1, <5>2
      <4>2. CASE ~(i <= l)
        <5>1. i = l + 1 /\ i - 1 = l /\ l \in 1 .. l
          BY <4>2
        <5>2. k > 0
          <6>1. f[l] \in ToSet(f)
            BY <3>3, <5>1 DEF ToSet
          <6>2. QED  BY <2>5, <6>1
        <5>3. f[l] = kids[k]
          BY <2>5, <3>3, <5>2
        <5>4. kids[k + 1] # kids[k]
          BY <2>8, <5>2
        <5>5. QED  BY <3>4, <3>7, <3>8, <5>1, <5>3, <5>4
      <4>3. QED  BY <4>1, <4>2
    <3>11. ASSUME InOrder(kids)  PROVE InOrder(g)
      <4> SUFFICES ASSUME NEW i \in 1 .. l + 1, NEW j \in 1 .. l + 1, i < j
                   PROVE  ~KeyBefore(g[j], g[i])
        BY <3>6 DEF InOrder
      <4>1. CASE j <= l
        <5>1. i \in 1 .. l /\ j \in 1 .. l
          BY <4>1
        <5>2. ~KeyBefore(f[j], f[i])
          BY <2>5, <3>3, <3>11, <5>1 DEF InOrder
        <5>3. QED  BY <3>8, <5>1, <5>2
      <4>2. CASE ~(j <= l)
        <5>1. j = l + 1 /\ i \in 1 .. l
          BY <4>2
        <5>2. f[i] \in ToSet(f)
          BY <3>3, <5>1 DEF ToSet
        <5>3. PICK m \in 1 .. k : f[i] = kids[m]
          BY <2>5, <5>2
        <5>4. m \in 1 .. n /\ m < k + 1
          BY <2>1
        <5>5. ~KeyBefore(kids[k + 1], kids[m])
          BY <1>1, <2>1, <3>11, <5>4 DEF InOrder
        <5>6. QED  BY <3>4, <3>7, <3>8, <5>1, <5>3, <5>5
      <4>3. QED  BY <4>1, <4>2
    <3>12. Len(g) > 0 /\ g[Len(g)] = kids[k + 1]
      BY <3>4, <3>6, <3>7
    <3>13. QED  BY <2>3, <3>9, <3>10, <3>11, <3>12
  <2>9. QED  BY <2>7, <2>8
<1> HIDE DEF Holds
<1>9. ASSUME NEW k \in Nat, k \in T  PROVE k + 1 \in T
  <2>1. k + 1 <= n => Holds(k + 1, F[k + 1])
    BY <1>8, <1>9
  <2>2. QED  BY <2>1
<1>10. n \in T
  <2> HIDE DEF T
  <2>1. QED  BY <1>7, <1>9, CountUp
<1>11. Holds(n, F[n])
  BY <1>10
<1>12. F[n] \in Seq(S)
  BY <1>6
<1>13. ToSet(kids) = {kids[m] : m \in 1 .. n}
  BY <1>1 DEF ToSet
<1>14. QED  BY <1>3, <1>6, <1>11, <1>12, <1>13 DEF Holds

LEMMA UnrepeatedFixed ==
  ASSUME NEW S, NEW kids \in Seq(S), NEW op, Unlike(kids)
  PROVE  Unrepeated(op, kids) = kids
<1>1. PICK n \in Nat : n = Len(kids) /\ DOMAIN kids = 1 .. n
  BY LenProperties
<1>2. PICK ss : ss = [i \in DOMAIN kids |-> <<kids[i]>>]
  OBVIOUS
<1>3. FlattenSeq(ss) = kids
  BY <1>2, FlattenSingles
<1>4. \A i \in 1 .. n : ~(i > 1 /\ kids[i] = kids[IF i > 1 THEN i - 1 ELSE i])
  BY <1>1 DEF Unlike
<1>5. op \in DuplicateInsensitive => Unrepeated(op, kids) = FlattenSeq(ss)
  BY <1>1, <1>2, <1>4 DEF Unrepeated
<1>6. op \notin DuplicateInsensitive => Unrepeated(op, kids) = kids
  BY DEF Unrepeated
<1>7. QED  BY <1>3, <1>5, <1>6

-----------------------------------------------------------------------------
(* The children of a canonical operator.                                   *)

\* What canonicalization makes true of the children of an operator.
Good(op, s) ==
  /\ op \in Associative => \A i \in 1 .. Len(s) : ~IsOperator(s[i], op)
  /\ op \in Commutative => InOrder(s)
  /\ op \in DuplicateInsensitive => Unlike(s)

LEMMA PermutedElements ==
  ASSUME NEW s, NEW t, NEW p, Permutes(p, s, t)
  PROVE  ToSet(t) = ToSet(s)
<1>1. p \in Surjection(DOMAIN s, DOMAIN s) /\ DOMAIN t = DOMAIN s
      /\ \A k \in DOMAIN s : t[k] = s[p[k]]
  BY DEF Permutes, Bijection
<1>2. \A k \in DOMAIN s : p[k] \in DOMAIN s
  BY <1>1 DEF Surjection
<1>3. \A i \in DOMAIN s : \E k \in DOMAIN s : p[k] = i
  BY <1>1 DEF Surjection
<1>4. QED  BY <1>1, <1>2, <1>3 DEF ToSet

LEMMA ChildrenFacts ==
  ASSUME NEW S, \A c \in S : IsTree(c), NEW kids \in Seq(S), NEW op,
         Flattened(op, kids) \in Seq(S),
         op \in Associative =>
           \A c \in ToSet(Flattened(op, kids)) : ~IsOperator(c, op)
  PROVE  /\ CanonicalChildren(op, kids) \in Seq(S)
         /\ ToSet(CanonicalChildren(op, kids)) = ToSet(Flattened(op, kids))
         /\ Good(op, CanonicalChildren(op, kids))
<1>1. PICK f : f = Flattened(op, kids)
  OBVIOUS
<1>2. PICK s : s = Sorted(op, f)
  OBVIOUS
<1>3. PICK u : u = Unrepeated(op, s)
  OBVIOUS
<1>4. f \in Seq(S) /\ (op \in Associative => \A c \in ToSet(f) : ~IsOperator(c, op))
  BY <1>1
<1>5. /\ s \in Seq(S) /\ ToSet(s) = ToSet(f)
      /\ op \in Commutative => InOrder(s)
  <2>1. CASE op \in Commutative
    <3>1. s \in Seq(S) /\ InOrder(s)
      BY <1>2, <1>4, <2>1, SortedFacts
    <3>2. PICK p : Permutes(p, f, s)
      BY <1>2, <1>4, <2>1, SortedFacts
    <3>3. QED  BY <3>1, <3>2, PermutedElements
  <2>2. CASE op \notin Commutative
    <3>1. s = f
      BY <1>2, <2>2 DEF Sorted
    <3>2. QED  BY <1>4, <2>2, <3>1
  <2>3. QED  BY <2>1, <2>2
<1>6. /\ u \in Seq(S) /\ ToSet(u) = ToSet(s)
      /\ op \in Commutative => InOrder(u)
      /\ op \in DuplicateInsensitive => Unlike(u)
  <2>1. CASE op \in DuplicateInsensitive
    <3>1. op \in Commutative
      BY <2>1 DEF Commutative, DuplicateInsensitive
    <3>2. QED  BY <1>3, <1>5, <2>1, <3>1, UnrepeatedFacts
  <2>2. CASE op \notin DuplicateInsensitive
    <3>1. u = s
      BY <1>3, <2>2 DEF Unrepeated
    <3>2. QED  BY <1>5, <2>2, <3>1
  <2>3. QED  BY <2>1, <2>2
<1>7. op \in Associative => \A i \in 1 .. Len(u) : ~IsOperator(u[i], op)
  <2>1. \A i \in 1 .. Len(u) : u[i] \in ToSet(u)
    BY <1>6, LenProperties DEF ToSet
  <2>2. QED  BY <1>4, <1>5, <1>6, <2>1
<1>8. CanonicalChildren(op, kids) = u
  BY <1>1, <1>2, <1>3 DEF CanonicalChildren
<1>9. QED  BY <1>1, <1>5, <1>6, <1>7, <1>8 DEF Good

LEMMA ChildrenFixed ==
  ASSUME NEW S, \A c \in S : IsTree(c), NEW kids \in Seq(S), NEW op, Good(op, kids)
  PROVE  CanonicalChildren(op, kids) = kids
<1>1. Flattened(op, kids) = kids
  <2>1. CASE op \in Associative
    BY <2>1, FlattenedFixed DEF Good
  <2>2. CASE op \notin Associative
    BY <2>2 DEF Flattened
  <2>3. QED  BY <2>1, <2>2
<1>2. Sorted(op, kids) = kids
  <2>1. CASE op \in Commutative
    BY <2>1, SortedFixed DEF Good
  <2>2. CASE op \notin Commutative
    BY <2>2 DEF Sorted
  <2>3. QED  BY <2>1, <2>2
<1>3. Unrepeated(op, kids) = kids
  <2>1. CASE op \in DuplicateInsensitive
    BY <2>1, UnrepeatedFixed DEF Good
  <2>2. CASE op \notin DuplicateInsensitive
    BY <2>2 DEF Unrepeated
  <2>3. QED  BY <2>1, <2>2
<1>4. QED  BY <1>1, <1>2, <1>3 DEF CanonicalChildren

-----------------------------------------------------------------------------
(* The canonical form of a tree.                                           *)

\* A node as canonicalization leaves it, and a tree of them.
NormalNode(n) ==
  n.kind = "operator" =>
    n.operator \in Operators /\ n.threshold = <<>> /\ Good(n.operator, n.children)
NormalTree(root) == IsTree(root) /\ \A n \in Subtrees(root) : NormalNode(n)
\* A tree whose operators have names canonicalization knows.
Known(root) == \A n \in Subtrees(root) : n.kind = "operator" => n.operator \in Operators

\* What a node and the node that is made of it have in common.
SameHead(n, m) ==
  /\ n.kind = m.kind /\ n.weight = m.weight
  /\ n.kind = "operator" => n.operator = m.operator /\ n.weights = m.weights
  /\ n.kind = "condition" => n.type = m.type /\ n.params = m.params

LEMMA NormalParts ==
  ASSUME NEW root, NormalTree(root)
  PROVE  /\ IsTree(root) /\ NormalNode(root) /\ root \in Subtrees(root)
         /\ \A n \in Subtrees(root) : NormalTree(n)
<1>1. IsTree(root) /\ Finite(root)
  BY DEF NormalTree, IsTree
<1>2. root \in Subtrees(root)
  BY <1>1, SubtreeFacts
<1>3. \A n \in Subtrees(root) : Subtrees(n) \subseteq Subtrees(root)
  BY <1>1, SubtreeFacts
<1>4. \A n \in Subtrees(root) : IsTree(n)
  BY <1>1, TreeParts
<1>5. QED  BY <1>1, <1>2, <1>3, <1>4 DEF NormalTree

LEMMA NormalFrom ==
  ASSUME NEW root, IsNode(root), NormalNode(root),
         \A c \in ToSet(Children(root)) : NormalTree(c)
  PROVE  NormalTree(root)
<1>1. IsTree(root)
  BY TreeFrom DEF NormalTree
<1>2. Subtrees(root) = {root} \cup UNION {Subtrees(c) : c \in ToSet(Children(root))}
  BY <1>1, SubtreeFacts DEF IsTree
<1>3. QED  BY <1>1, <1>2 DEF NormalTree

\* One operator, its children canonical already.
LEMMA CanonicalOperator ==
  ASSUME NEW n, IsNode(n), n.kind = "operator", n.operator \in Operators,
         NEW l \in Nat, NEW kids, kids = [i \in 1 .. l |-> kids[i]],
         \A i \in 1 .. l : NormalTree(kids[i])
  PROVE  /\ NormalTree(CanonicalNode(n, kids)) /\ SameHead(n, CanonicalNode(n, kids))
         /\ CanonicalNode(n, kids).children = CanonicalChildren(n.operator, kids)
         /\ ToSet(CanonicalChildren(n.operator, kids)) = ToSet(Flattened(n.operator, kids))
         /\ CanonicalChildren(n.operator, kids) \in Seq(ToSet(Flattened(n.operator, kids)))
<1> DEFINE S == UNION {Subtrees(kids[i]) : i \in 1 .. l}
           op == n.operator
<1>1. \A c \in S : NormalTree(c)
  BY NormalParts
<1>2. \A i \in 1 .. l : kids[i] \in S
  BY NormalParts
<1>3. kids \in Seq(S) /\ Len(kids) = l
  <2>1. kids \in [1 .. l -> S]
    BY <1>2
  <2> HIDE DEF S
  <2>2. QED  BY <2>1, FunctionIsSeq
<1>4. ASSUME NEW i \in 1 .. l, IsOperator(kids[i], op), op \in Associative
      PROVE  /\ kids[i].children \in Seq(S)
             /\ \A c \in ToSet(kids[i].children) : ~IsOperator(c, op)
  <2> PICK c : c = kids[i]
    OBVIOUS
  <2>1. NormalTree(c) /\ c.kind = "operator" /\ c.operator = op
    BY <1>4 DEF IsOperator
  <2>2. /\ Children(c) = c.children /\ Children(c) \in Seq(ToSet(Children(c)))
        /\ ToSet(Children(c)) \subseteq Subtrees(c)
        /\ ToSet(Children(c)) = {Children(c)[j] : j \in 1 .. Len(Children(c))}
    <3>1. IsNode(c) /\ Finite(c) /\ c \in Subtrees(c)
      BY <2>1, NormalParts, TreeParts
    <3>2. ToSet(Children(c)) \subseteq Subtrees(c)
      BY <3>1, SubtreeFacts
    <3>3. Children(c) = c.children
      BY <2>1 DEF Children
    <3>4. /\ Children(c) \in Seq(ToSet(Children(c)))
          /\ ToSet(Children(c)) = {Children(c)[j] : j \in 1 .. Len(Children(c))}
      BY ONLY <3>1, NodeChildren
    <3>5. QED  BY ONLY <3>2, <3>3, <3>4
  <2>3. Subtrees(c) \subseteq S
    OBVIOUS
  <2>4. Good(op, c.children)
    BY <2>1, NormalParts DEF NormalNode
  <2>5. \A j \in 1 .. Len(c.children) : ~IsOperator(c.children[j], op)
    BY <1>4, <2>4 DEF Good
  <2> HIDE DEF S
  <2>6. c.children \in Seq(S)
    <3>1. ToSet(Children(c)) \subseteq S
      BY <2>2, <2>3
    <3>2. QED  BY <2>2, <3>1
  <2>7. QED  BY <2>2, <2>5, <2>6
<1> HIDE DEF S
<1>5. PICK f : f = Flattened(op, kids)
  OBVIOUS
<1>6. f \in Seq(S) /\ (op \in Associative => \A c \in ToSet(f) : ~IsOperator(c, op))
  <2>1. CASE op \in Associative
    <3>1. /\ f \in Seq(S)
          /\ ToSet(f) = UNION {IF IsOperator(kids[i], op) THEN ToSet(kids[i].children)
                               ELSE {kids[i]} : i \in 1 .. l}
      <4>1. \A i \in 1 .. Len(kids) : IsOperator(kids[i], op) => kids[i].children \in Seq(S)
        BY <1>3, <1>4, <2>1
      <4>2. /\ Flattened(op, kids) \in Seq(S)
            /\ ToSet(Flattened(op, kids)) =
                 UNION {IF IsOperator(kids[i], op) THEN ToSet(kids[i].children)
                        ELSE {kids[i]} : i \in 1 .. Len(kids)}
        BY ONLY <1>3, <2>1, <4>1, FlattenedFacts
      <4>3. QED  BY <1>3, <1>5, <4>2
    <3>2. QED  BY <1>4, <2>1, <3>1
  <2>2. CASE op \notin Associative
    BY <1>3, <1>5, <2>2 DEF Flattened
  <2>3. QED  BY <2>1, <2>2
<1>7. \A c \in S : IsTree(c)
  BY <1>1 DEF NormalTree
<1>8. PICK u : u = CanonicalChildren(op, kids)
  OBVIOUS
<1>9. u \in Seq(S) /\ ToSet(u) = ToSet(f) /\ Good(op, u)
  BY <1>3, <1>5, <1>6, <1>7, <1>8, ChildrenFacts
<1>10. u \in Seq(ToSet(u)) /\ ToSet(u) \subseteq S
  <2>1. PICK m \in Nat : m = Len(u) /\ u \in [1 .. m -> S]
    BY <1>9, LenProperties
  <2>2. u \in [1 .. m -> ToSet(u)] /\ ToSet(u) \subseteq S
    BY <2>1 DEF ToSet
  <2>3. QED  BY <2>2, FunctionIsSeq
<1>11. PICK r : r = CanonicalNode(n, kids)
  OBVIOUS
<1>12. r = [n EXCEPT !.children = u, !.k = IF n.k = <<>> THEN n.threshold ELSE n.k,
                     !.threshold = <<>>]
  BY <1>8, <1>11 DEF CanonicalNode
<1>13. n \in [kind : {"operator"}, operator : ToSet(Texts), children : {n.children},
              k : Optional(Int), weights : Optional(Seq(Int)), threshold : Optional(Int),
              weight : Optional(Int)]
  BY DEF IsNode
<1>14. <<>> \in Optional(Int)
  BY DEF Optional
<1>15. /\ r.kind = "operator" /\ r.operator = op /\ r.children = u /\ r.threshold = <<>>
       /\ r.weight = n.weight /\ r.weights = n.weights
       /\ r \in [kind : {"operator"}, operator : ToSet(Texts), children : {r.children},
                 k : Optional(Int), weights : Optional(Seq(Int)), threshold : Optional(Int),
                 weight : Optional(Int)]
  BY <1>12, <1>13, <1>14
<1>16. IsNode(r)
  BY <1>10, <1>15 DEF IsNode
<1>17. NormalNode(r) /\ SameHead(n, r)
  BY <1>9, <1>15 DEF NormalNode, SameHead
<1>18. Children(r) = u
  BY <1>15 DEF Children
<1>19. NormalTree(r)
  BY <1>1, <1>10, <1>16, <1>17, <1>18, NormalFrom
<1>20. QED  BY <1>5, <1>8, <1>9, <1>10, <1>11, <1>15, <1>17, <1>19

\* The canonical form of a tree is a tree in normal form.
LEMMA CanonicalIsNormal ==
  ASSUME NEW root, IsTree(root), Known(root)
  PROVE  NormalTree(Canonical(root)) /\ SameHead(root, Canonical(root))
<1> DEFINE Settled(n) == NormalTree(Canonical(n)) /\ SameHead(n, Canonical(n))
           P == {n \in Subtrees(root) : Settled(n)}
<1>1. ASSUME NEW n \in Subtrees(root), ToSet(Children(n)) \subseteq P  PROVE Settled(n)
  <2>1. IsNode(n) /\ Finite(n)
    BY TreeParts
  <2>2. PICK kids : kids = [i \in DOMAIN Children(n) |-> Canonical(Children(n)[i])]
    OBVIOUS
  <2>3. Canonical(n) = CanonicalNode(n, kids)
    BY <2>1, <2>2, CanonicalRule
  <2>4. CASE n.kind = "operator"
    <3>1. PICK l \in Nat : l = Len(Children(n)) /\ DOMAIN Children(n) = 1 .. l
      BY <2>1, NodeChildren
    <3>2. \A i \in 1 .. l : kids[i] = Canonical(Children(n)[i]) /\ Children(n)[i] \in P
      BY <1>1, <2>2, <3>1 DEF ToSet
    <3>3. \A i \in 1 .. l : NormalTree(kids[i])
      BY <3>2
    <3>4. kids = [i \in 1 .. l |-> kids[i]]
      BY <2>2, <3>1
    <3>5. n.operator \in Operators
      BY <2>4 DEF Known
    <3>6. QED  BY <2>1, <2>3, <2>4, <3>3, <3>4, <3>5, CanonicalOperator
  <2>5. CASE n.kind # "operator"
    <3>1. n.kind = "condition"
      BY <2>1, <2>5 DEF IsNode
    <3>2. Canonical(n) = n
      BY <2>3, <3>1 DEF CanonicalNode
    <3>3. Children(n) = <<>>
      BY <2>5 DEF Children
    <3>4. NormalNode(n) /\ SameHead(n, n)
      BY <2>5 DEF NormalNode, SameHead
    <3>5. ToSet(Children(n)) = {}
      BY <3>3, ShortSets
    <3>6. NormalTree(n)
      BY <2>1, <3>4, <3>5, NormalFrom
    <3>7. QED  BY <3>2, <3>4, <3>6
  <2>6. QED  BY <2>4, <2>5
<1>2. Finite(root)
  BY TreeParts
<1>3. Subtrees(root) \subseteq P
  <2>1. \A n \in Subtrees(root) : ToSet(Children(n)) \subseteq P => n \in P
    <3> HIDE DEF Settled
    <3>1. QED  BY <1>1
  <2> HIDE DEF P
  <2>2. QED  BY <1>2, <2>1, TreeInduction
<1>4. root \in Subtrees(root)
  BY <1>2, SubtreeFacts
<1>5. QED  BY <1>3, <1>4

\* A tree in normal form is its own canonical form.
LEMMA NormalIsCanonical ==
  ASSUME NEW root, NormalTree(root)
  PROVE  Canonical(root) = root
<1> DEFINE P == {n \in Subtrees(root) : Canonical(n) = n}
<1>1. ASSUME NEW n \in Subtrees(root), ToSet(Children(n)) \subseteq P
      PROVE  Canonical(n) = n
  <2>1. NormalTree(n) /\ NormalNode(n) /\ IsTree(n) /\ IsNode(n) /\ Finite(n)
    BY NormalParts, TreeParts
  <2>2. PICK kids : kids = [i \in DOMAIN Children(n) |-> Canonical(Children(n)[i])]
    OBVIOUS
  <2>3. Canonical(n) = CanonicalNode(n, kids)
    BY <2>1, <2>2, CanonicalRule
  <2>4. PICK l \in Nat : /\ l = Len(Children(n)) /\ DOMAIN Children(n) = 1 .. l
                         /\ Children(n) \in Seq(ToSet(Children(n)))
    BY <2>1, NodeChildren
  <2>5. kids = Children(n)
    <3>1. \A i \in 1 .. l : Canonical(Children(n)[i]) = Children(n)[i]
      BY <1>1, <2>4 DEF ToSet
    <3>2. Children(n) = [i \in 1 .. l |-> Children(n)[i]]
      BY <2>4
    <3>3. QED  BY <2>2, <2>4, <3>1, <3>2
  <2>6. CASE n.kind = "operator"
    <3>1. n.threshold = <<>> /\ Good(n.operator, n.children) /\ Children(n) = n.children
      BY <2>1, <2>6 DEF NormalNode, Children
    <3>2. \A c \in ToSet(Children(n)) : IsTree(c)
      BY <2>1, TreeParts
    <3>3. CanonicalChildren(n.operator, n.children) = n.children
      BY <2>4, <3>1, <3>2, ChildrenFixed
    <3>4. n \in [kind : {"operator"}, operator : ToSet(Texts), children : {n.children},
                 k : Optional(Int), weights : Optional(Seq(Int)), threshold : Optional(Int),
                 weight : Optional(Int)]
      BY <2>1, <2>6 DEF IsNode
    <3>5. CanonicalNode(n, n.children) =
            [n EXCEPT !.children = n.children, !.k = n.k, !.threshold = n.threshold]
      BY <2>6, <3>1, <3>3 DEF CanonicalNode
    <3>6. [n EXCEPT !.children = n.children, !.k = n.k, !.threshold = n.threshold] = n
      BY <3>4
    <3>7. QED  BY <2>3, <2>5, <3>1, <3>5, <3>6
  <2>7. CASE n.kind # "operator"
    <3>1. n.kind = "condition"
      BY <2>1, <2>7 DEF IsNode
    <3>2. QED  BY <2>3, <3>1 DEF CanonicalNode
  <2>8. QED  BY <2>6, <2>7
<1>2. Finite(root) /\ root \in Subtrees(root)
  BY NormalParts, TreeParts
<1>3. \A n \in Subtrees(root) : ToSet(Children(n)) \subseteq P => n \in P
  BY <1>1
<1>4. Subtrees(root) \subseteq P
  <2> HIDE DEF P
  <2>1. QED  BY <1>2, <1>3, TreeInduction
<1>5. QED  BY <1>2, <1>4

-----------------------------------------------------------------------------
(* A text says what it is the text of: keys tell nodes apart.              *)

\* p and q cannot both begin a text and end at different places of it.
Tells(p, q) ==
  \A u, v \in Seq(Int) : Cat(p, u) = Cat(q, v) => p = q /\ u = v

LEMMA Heads ==
  ASSUME NEW a \in Int, NEW b \in Int, NEW p \in Seq(Int), NEW q \in Seq(Int),
         Cat(<<a>>, p) = Cat(<<b>>, q)
  PROVE  a = b /\ p = q
<1>1. <<a>> \in Seq(Int) /\ <<b>> \in Seq(Int) /\ Len(<<a>>) = 1 /\ Len(<<b>>) = 1
  OBVIOUS
<1>2. (<<a>> \o p)[1] = a /\ (<<b>> \o q)[1] = b
  BY <1>1, ConcatProperties, LenProperties
<1>3. a = b
  BY <1>2 DEF Cat
<1>4. QED  BY <1>1, <1>3, CatCancel

LEMMA TellsTwo ==
  ASSUME NEW p \in Seq(Int), NEW q \in Seq(Int), NEW r \in Seq(Int), NEW s \in Seq(Int),
         Tells(p, q), p = q => Tells(r, s)
  PROVE  /\ Tells(Cat(p, r), Cat(q, s))
         /\ Cat(p, r) = Cat(q, s) => p = q /\ r = s
<1>1. ASSUME NEW u \in Seq(Int), NEW v \in Seq(Int), Cat(Cat(p, r), u) = Cat(Cat(q, s), v)
      PROVE  p = q /\ r = s /\ u = v
  <2>1. PICK x, y : x = Cat(r, u) /\ y = Cat(s, v)
    OBVIOUS
  <2>2. x \in Seq(Int) /\ y \in Seq(Int)
    BY <2>1, CatType
  <2>3. Cat(p, x) = Cat(q, y)
    BY <1>1, <2>1, CatAssociative
  <2>4. p = q /\ x = y
    BY <2>2, <2>3 DEF Tells
  <2>5. QED  BY <2>1, <2>4 DEF Tells
<1>2. Cat(p, r) = Cat(q, s) => p = q /\ r = s
  BY DEF Tells
<1>3. QED  BY <1>1, <1>2 DEF Tells

LEMMA TellsNumber ==
  ASSUME NEW a \in Int, NEW b \in Int
  PROVE  Tells(<<a>>, <<b>>)
BY Heads DEF Tells

\* R is what is left of the list of ps after each of its n parts.
Tails(R, ps, n) ==
  /\ R[n] = <<2>> /\ \A k \in 0 .. n : R[k] \in Seq(Int)
  /\ \A k \in 1 .. n : ps[k] \in Seq(Int) /\ R[k - 1] = Cat(<<1>>, Cat(ps[k], R[k]))

LEMMA ListedTails ==
  ASSUME NEW n \in Nat, NEW ps, DOMAIN ps = 1 .. n, \A i \in 1 .. n : ps[i] \in Seq(Int)
  PROVE  \E R : R[0] = Listed(ps) /\ Tails(R, ps, n)
<1> DEFINE f == [i \in 1 .. n |-> Cat(<<1>>, ps[i])]
<1>1. \A i \in 1 .. n : Cat(<<1>>, ps[i]) \in Seq(Int)
  <2>1. <<1>> \in Seq(Int)
    OBVIOUS
  <2>2. QED  BY <2>1, CatType
<1>2. f \in [1 .. n -> Seq(Int)] /\ \A i \in 1 .. n : f[i] = Cat(<<1>>, ps[i])
  BY <1>1
<1>3. Listed(ps) = Cat(FlattenSeq(f), <<2>>)
  BY DEF Listed, Cat
<1> HIDE DEF f
<1>4. f \in Seq(Seq(Int)) /\ Len(f) = n
  BY <1>2, FunctionIsSeq
<1>5. PICK F : /\ Flattens(F, f) /\ FlattenSeq(f) = F[n]
               /\ \A k \in 0 .. n : F[k] \in Seq(Int)
  BY <1>4, FlattenRule
<1>6. F[0] = <<>> /\ \A k \in 1 .. n : F[k] = Cat(F[k - 1], f[k])
  BY <1>4, <1>5 DEF Flattens, Cat
<1>7. PICK two : two = <<2>>
  OBVIOUS
<1>8. two \in Seq(Int)
  BY <1>7
<1>9. PICK L : L = Listed(ps)
  OBVIOUS
<1>10. L = Cat(F[n], two) /\ L \in Seq(Int)
  <2>1. PICK e : e = F[n]
    OBVIOUS
  <2>2. e \in Seq(Int)
    BY <1>5, <2>1
  <2>3. L = Cat(e, two)
    BY <1>3, <1>5, <1>7, <1>9, <2>1
  <2>4. QED  BY <1>8, <2>1, <2>2, <2>3, CatType
<1>11. ASSUME NEW k \in 1 .. n, NEW r \in Seq(Int)
       PROVE  /\ Cat(F[k], r) = Cat(F[k - 1], Cat(f[k], r)) /\ F[k - 1] \in Seq(Int)
              /\ Cat(f[k], r) \in Seq(Int) /\ Cat(f[k], r) = Cat(<<1>>, Cat(ps[k], r))
  <2>1. PICK p, q : p = F[k - 1] /\ q = f[k]
    OBVIOUS
  <2>2. p \in Seq(Int) /\ q \in Seq(Int)
    BY <1>2, <1>5, <2>1
  <2>3. Cat(Cat(p, q), r) = Cat(p, Cat(q, r)) /\ Cat(q, r) \in Seq(Int)
    BY <2>2, CatAssociative, CatType
  <2>4. PICK one, t : one = <<1>> /\ t = ps[k]
    OBVIOUS
  <2>5. one \in Seq(Int) /\ t \in Seq(Int)
    BY <2>4
  <2>6. Cat(Cat(one, t), r) = Cat(one, Cat(t, r))
    BY <2>5, CatAssociative
  <2>7. QED  BY <1>2, <1>6, <2>1, <2>2, <2>3, <2>4, <2>6
<1> DEFINE G == {j \in Nat : j <= n => \E r \in Seq(Int) : L = Cat(F[n - j], r)}
<1>12. 0 \in G
  BY <1>8, <1>10
<1>13. ASSUME NEW j \in Nat, j \in G  PROVE j + 1 \in G
  <2> SUFFICES ASSUME j + 1 <= n  PROVE \E r \in Seq(Int) : L = Cat(F[n - (j + 1)], r)
    OBVIOUS
  <2>1. PICK k : k = n - j
    OBVIOUS
  <2>2. k \in 1 .. n /\ n - (j + 1) = k - 1
    BY <2>1
  <2>3. PICK r \in Seq(Int) : L = Cat(F[k], r)
    BY <1>13, <2>1
  <2>4. L = Cat(F[k - 1], Cat(f[k], r)) /\ Cat(f[k], r) \in Seq(Int)
    BY <1>11, <2>2, <2>3
  <2>5. QED  BY <2>2, <2>4
<1>14. \A j \in Nat : j \in G
  <2> HIDE DEF G
  <2>1. QED  BY <1>12, <1>13, CountUp
<1>15. \A k \in 0 .. n : \E r \in Seq(Int) : L = Cat(F[k], r)
  <2> SUFFICES ASSUME NEW k \in 0 .. n  PROVE \E r \in Seq(Int) : L = Cat(F[k], r)
    OBVIOUS
  <2>1. n - k \in Nat /\ n - k <= n /\ n - (n - k) = k
    OBVIOUS
  <2>2. n - k \in G
    BY <1>14, <2>1
  <2>3. QED  BY <2>1, <2>2
<1> HIDE DEF G
<1> DEFINE R == [k \in 0 .. n |-> CHOOSE r \in Seq(Int) : L = Cat(F[k], r)]
<1>16. \A k \in 0 .. n : R[k] \in Seq(Int) /\ L = Cat(F[k], R[k])
  BY <1>15
<1> HIDE DEF R
<1>17. R[0] = L
  <2>1. PICK r : r = R[0]
    OBVIOUS
  <2>2. L = Cat(F[0], r) /\ r \in Seq(Int)
    BY <1>16, <2>1
  <2>3. L = <<>> \o r
    BY <1>6, <2>2 DEF Cat
  <2>4. QED  BY <2>1, <2>2, <2>3, ConcatEmptySeq
<1>18. R[n] = two
  BY <1>5, <1>8, <1>10, <1>16, CatCancel
<1>19. ASSUME NEW k \in 1 .. n  PROVE R[k - 1] = Cat(<<1>>, Cat(ps[k], R[k]))
  <2>1. PICK p, q, r, s : p = F[k - 1] /\ q = R[k - 1] /\ r = R[k] /\ s = Cat(f[k], r)
    OBVIOUS
  <2>2. k - 1 \in 0 .. n /\ k \in 0 .. n
    OBVIOUS
  <2>3. r \in Seq(Int) /\ L = Cat(F[k], r)
    BY <1>16, <2>1, <2>2
  <2>4. q \in Seq(Int) /\ L = Cat(p, q)
    BY <1>16, <2>1, <2>2
  <2>5. L = Cat(p, s) /\ p \in Seq(Int) /\ s \in Seq(Int) /\ s = Cat(<<1>>, Cat(ps[k], r))
    BY <1>11, <2>1, <2>3
  <2>6. q = s
    BY <2>4, <2>5, CatCancel
  <2>7. QED  BY <2>1, <2>5, <2>6
<1>20. QED
  <2>1. /\ R[0] = Listed(ps) /\ R[n] = <<2>>
        /\ \A k \in 0 .. n : R[k] \in Seq(Int)
        /\ \A k \in 1 .. n : R[k - 1] = Cat(<<1>>, Cat(ps[k], R[k]))
    BY <1>7, <1>9, <1>16, <1>17, <1>18, <1>19
  <2>2. Tails(R, ps, n)
    BY <2>1 DEF Tails
  <2>3. QED  BY <2>1, <2>2

LEMMA ListGoesOn ==
  ASSUME NEW p \in Seq(Int), NEW q \in Seq(Int)
  PROVE  Cat(<<2>>, p) # Cat(<<1>>, q)
BY Heads

LEMMA TailUnfold ==
  ASSUME NEW p \in Seq(Int), NEW r \in Seq(Int), NEW u \in Seq(Int)
  PROVE  /\ Cat(Cat(<<1>>, Cat(p, r)), u) = Cat(<<1>>, Cat(p, Cat(r, u)))
         /\ Cat(r, u) \in Seq(Int) /\ Cat(p, Cat(r, u)) \in Seq(Int)
<1>1. PICK one, x, y : one = <<1>> /\ x = Cat(p, r) /\ y = Cat(r, u)
  OBVIOUS
<1>2. one \in Seq(Int)
  BY <1>1
<1>3. x \in Seq(Int) /\ y \in Seq(Int)
  BY <1>1, CatType
<1>4. Cat(Cat(one, x), u) = Cat(one, Cat(x, u))
  BY <1>2, <1>3, CatAssociative
<1>5. Cat(x, u) = Cat(p, y)
  BY <1>1, CatAssociative
<1>6. Cat(p, y) \in Seq(Int)
  BY <1>3, CatType
<1>7. QED  BY <1>1, <1>3, <1>4, <1>5, <1>6

SplitAt(R, ps, k, u) ==
  \E p, r \in Seq(Int) :
    /\ p = ps[k + 1] /\ r = R[k + 1] /\ Cat(r, u) \in Seq(Int)
    /\ Cat(p, Cat(r, u)) \in Seq(Int)
    /\ Cat(R[k], u) = Cat(<<1>>, Cat(p, Cat(r, u)))
SameParts(ps, n, qs, m) == n = m /\ \A i \in 1 .. n : ps[i] = qs[i]
AllTell(ps, n, qs, m) == \A i \in 1 .. n : i <= m => Tells(ps[i], qs[i])

LEMMA TailStep ==
  ASSUME NEW n \in Nat, NEW ps, NEW R, Tails(R, ps, n), NEW k \in Nat, k + 1 <= n,
         NEW u \in Seq(Int)
  PROVE  SplitAt(R, ps, k, u)
<1>1. k + 1 \in 1 .. n /\ k + 1 \in 0 .. n /\ (k + 1) - 1 = k
  OBVIOUS
<1>2. PICK p, r, s : p = ps[k + 1] /\ r = R[k + 1] /\ s = R[k]
  OBVIOUS
<1>3. p \in Seq(Int) /\ r \in Seq(Int) /\ s = Cat(<<1>>, Cat(p, r))
  BY <1>1, <1>2 DEF Tails
<1>4. /\ Cat(s, u) = Cat(<<1>>, Cat(p, Cat(r, u)))
      /\ Cat(r, u) \in Seq(Int) /\ Cat(p, Cat(r, u)) \in Seq(Int)
  BY <1>3, TailUnfold
<1>5. QED  BY <1>2, <1>3, <1>4 DEF SplitAt

LEMMA ListedAhead ==
  ASSUME NEW n \in Nat, NEW ps, NEW R, Tails(R, ps, n),
         NEW m \in Nat, NEW qs, NEW T, Tails(T, qs, m), AllTell(ps, n, qs, m),
         NEW u \in Seq(Int), NEW v \in Seq(Int), Cat(R[0], u) = Cat(T[0], v)
  PROVE  SameParts(ps, n, qs, m) /\ u = v
<1>2. R[n] = <<2>> /\ T[m] = <<2>>
  BY DEF Tails
<1> DEFINE G == {k \in Nat : k <= n => /\ k <= m /\ Cat(R[k], u) = Cat(T[k], v)
                                       /\ \A i \in 1 .. k : ps[i] = qs[i]}
<1>3. 0 \in G
  OBVIOUS
<1>4. ASSUME NEW k \in Nat, k \in G  PROVE k + 1 \in G
  <2> SUFFICES ASSUME k + 1 <= n
               PROVE  /\ k + 1 <= m /\ Cat(R[k + 1], u) = Cat(T[k + 1], v)
                      /\ \A i \in 1 .. k + 1 : ps[i] = qs[i]
    OBVIOUS
  <2>1. k <= m /\ Cat(R[k], u) = Cat(T[k], v) /\ \A i \in 1 .. k : ps[i] = qs[i]
    BY <1>4
  <2> HIDE DEF G
  <2>2. PICK p, r \in Seq(Int) :
               /\ p = ps[k + 1] /\ r = R[k + 1] /\ Cat(r, u) \in Seq(Int)
               /\ Cat(p, Cat(r, u)) \in Seq(Int)
               /\ Cat(R[k], u) = Cat(<<1>>, Cat(p, Cat(r, u)))
    <3>1. SplitAt(R, ps, k, u)
      BY TailStep
    <3>2. QED  BY <3>1 DEF SplitAt
  <2>3. PICK x : x = Cat(p, Cat(r, u))
    OBVIOUS
  <2>4. k + 1 <= m
    <3> SUFFICES ASSUME k = m  PROVE FALSE
      BY <2>1
    <3>1. Cat(<<2>>, v) = Cat(<<1>>, x) /\ x \in Seq(Int)
      BY <1>2, <2>1, <2>2, <2>3
    <3>2. QED  BY <3>1, ListGoesOn
  <2>5. PICK q, t \in Seq(Int) :
               /\ q = qs[k + 1] /\ t = T[k + 1] /\ Cat(t, v) \in Seq(Int)
               /\ Cat(q, Cat(t, v)) \in Seq(Int)
               /\ Cat(T[k], v) = Cat(<<1>>, Cat(q, Cat(t, v)))
    <3>1. SplitAt(T, qs, k, v)
      BY <2>4, TailStep
    <3>2. QED  BY <3>1 DEF SplitAt
  <2>6. PICK y : y = Cat(q, Cat(t, v))
    OBVIOUS
  <2>7. x = y
    <3>1. Cat(<<1>>, x) = Cat(<<1>>, y) /\ x \in Seq(Int) /\ y \in Seq(Int)
      BY <2>1, <2>2, <2>3, <2>5, <2>6
    <3>2. QED  BY <3>1, Heads
  <2>8. Tells(p, q)
    <3>1. k + 1 \in 1 .. n
      OBVIOUS
    <3>2. QED  BY <2>2, <2>4, <2>5, <3>1 DEF AllTell
  <2>9. p = q /\ Cat(r, u) = Cat(t, v)
    <3>1. PICK y1, y2 : y1 = Cat(r, u) /\ y2 = Cat(t, v)
      OBVIOUS
    <3>2. y1 \in Seq(Int) /\ y2 \in Seq(Int) /\ Cat(p, y1) = Cat(q, y2)
      BY <2>2, <2>3, <2>5, <2>6, <2>7, <3>1
    <3>3. QED  BY <2>8, <3>1, <3>2 DEF Tells
  <2>10. \A i \in 1 .. k + 1 : i \in 1 .. k \/ i = k + 1
    OBVIOUS
  <2>11. QED  BY <2>1, <2>2, <2>4, <2>5, <2>9, <2>10
<1>5. n \in G
  <2> HIDE DEF G
  <2>1. \A k \in Nat : k \in G
    BY <1>3, <1>4, CountUp
  <2>2. QED  BY <2>1
<1>6. n <= m /\ Cat(R[n], u) = Cat(T[n], v) /\ \A i \in 1 .. n : ps[i] = qs[i]
  <2>1. n <= n
    OBVIOUS
  <2>2. QED  BY <1>5, <2>1
<1> HIDE DEF G
<1>7. n = m
  <2> SUFFICES ASSUME n < m  PROVE FALSE
    BY <1>6
  <2>1. PICK q, t \in Seq(Int) :
               /\ Cat(q, Cat(t, v)) \in Seq(Int)
               /\ Cat(T[n], v) = Cat(<<1>>, Cat(q, Cat(t, v)))
    <3>1. n + 1 <= m
      OBVIOUS
    <3>2. SplitAt(T, qs, n, v)
      BY <3>1, TailStep
    <3>3. QED  BY <3>2 DEF SplitAt
  <2>2. PICK y : y = Cat(q, Cat(t, v))
    OBVIOUS
  <2>3. Cat(<<2>>, u) = Cat(<<1>>, y) /\ y \in Seq(Int)
    BY <1>2, <1>6, <2>1, <2>2
  <2>4. QED  BY <2>3, ListGoesOn
<1>8. u = v
  <2>1. Cat(<<2>>, u) = Cat(<<2>>, v)
    BY <1>2, <1>6, <1>7
  <2>2. QED  BY <2>1, Heads
<1>9. QED  BY <1>6, <1>7, <1>8 DEF SameParts

\* Where the parts of two lists tell each other apart, so do the lists.
LEMMA ListedTells ==
  ASSUME NEW n \in Nat, NEW ps, DOMAIN ps = 1 .. n, \A i \in 1 .. n : ps[i] \in Seq(Int),
         NEW m \in Nat, NEW qs, DOMAIN qs = 1 .. m, \A i \in 1 .. m : qs[i] \in Seq(Int),
         AllTell(ps, n, qs, m)
  PROVE  /\ Tells(Listed(ps), Listed(qs))
         /\ Listed(ps) = Listed(qs) => SameParts(ps, n, qs, m)
<1>1. PICK R : R[0] = Listed(ps) /\ Tails(R, ps, n)
  BY ListedTails
<1>2. PICK T : T[0] = Listed(qs) /\ Tails(T, qs, m)
  BY ListedTails
<1>3. PICK p, q : p = Listed(ps) /\ q = Listed(qs)
  OBVIOUS
<1>4. p \in Seq(Int) /\ q \in Seq(Int)
  BY <1>3, ListedType
<1>5. ASSUME NEW u \in Seq(Int), NEW v \in Seq(Int), Cat(p, u) = Cat(q, v)
      PROVE  SameParts(ps, n, qs, m) /\ u = v
  <2>1. Cat(R[0], u) = Cat(T[0], v)
    BY <1>1, <1>2, <1>3, <1>5
  <2>2. QED  BY <1>1, <1>2, <2>1, ListedAhead
<1>6. ASSUME NEW u \in Seq(Int), NEW v \in Seq(Int), Cat(p, u) = Cat(q, v)
      PROVE  p = q
  <2>1. u = v
    BY <1>5, <1>6
  <2>2. p \o u = q \o u
    BY <1>6, <2>1 DEF Cat
  <2>3. QED  BY <1>4, <2>2, ConcatSimplifications
<1>7. ASSUME p = q  PROVE SameParts(ps, n, qs, m)
  <2>1. PICK u : u = <<2>>
    OBVIOUS
  <2>2. u \in Seq(Int) /\ Cat(p, u) = Cat(q, u)
    BY <1>7, <2>1
  <2>3. QED  BY <1>5, <2>2
<1>8. QED  BY <1>3, <1>5, <1>6, <1>7 DEF Tells

LEMMA NumbersTell ==
  ASSUME NEW s \in Seq(Int), NEW t \in Seq(Int)
  PROVE  /\ Tells(Numbers(s), Numbers(t))
         /\ Numbers(s) = Numbers(t) => s = t
<1>1. PICK n \in Nat : n = Len(s) /\ DOMAIN s = 1 .. n
  BY LenProperties
<1>2. PICK m \in Nat : m = Len(t) /\ DOMAIN t = 1 .. m
  BY LenProperties
<1>3. /\ \A i \in 1 .. n : s[i] \in Int
      /\ \A i \in 1 .. m : t[i] \in Int
  BY <1>1, <1>2, ElementOfSeq
<1>4. PICK p : p = [i \in 1 .. n |-> <<s[i]>>]
  OBVIOUS
<1>5. PICK q : q = [i \in 1 .. m |-> <<t[i]>>]
  OBVIOUS
<1>6. Numbers(s) = Listed(p) /\ Numbers(t) = Listed(q)
  BY <1>1, <1>2, <1>4, <1>5 DEF Numbers
<1>7. /\ DOMAIN p = 1 .. n /\ \A i \in 1 .. n : p[i] = <<s[i]>>
      /\ DOMAIN q = 1 .. m /\ \A i \in 1 .. m : q[i] = <<t[i]>>
  BY <1>4, <1>5
<1>8. /\ \A i \in 1 .. n : p[i] \in Seq(Int)
      /\ \A i \in 1 .. m : q[i] \in Seq(Int)
  <2>1. \A a \in Int : <<a>> \in Seq(Int)
    OBVIOUS
  <2>2. QED  BY <1>3, <1>7, <2>1
<1>9. ASSUME NEW i \in 1 .. n, i <= m  PROVE Tells(p[i], q[i])
  <2>1. PICK a, b : a = s[i] /\ b = t[i]
    OBVIOUS
  <2>2. i \in 1 .. m /\ a \in Int /\ b \in Int
    BY <1>3, <1>9, <2>1
  <2>3. Tells(<<a>>, <<b>>)
    BY <2>2, TellsNumber
  <2>4. QED  BY <1>7, <2>1, <2>2, <2>3
<1>10. /\ Tells(Listed(p), Listed(q))
       /\ Listed(p) = Listed(q) => SameParts(p, n, q, m)
  <2>1. AllTell(p, n, q, m)
    BY <1>9 DEF AllTell
  <2>2. QED  BY <1>7, <1>8, <2>1, ListedTells
<1>11. ASSUME n = m, \A i \in 1 .. n : p[i] = q[i]  PROVE s = t
  <2>1. \A i \in 1 .. n : s[i] = t[i]
    BY <1>7, <1>11
  <2>2. QED  BY <1>1, <1>2, <1>11, <2>1, SeqEqual
<1>12. QED  BY <1>6, <1>10, <1>11 DEF SameParts

LEMMA PlacesTell ==
  ASSUME NEW a \in ToSet(Texts), NEW b \in ToSet(Texts)
  PROVE  /\ <<Place(a)>> \in Seq(Int) /\ Place(a) \in Int
         /\ Tells(<<Place(a)>>, <<Place(b)>>)
         /\ <<Place(a)>> = <<Place(b)>> => a = b
<1>1. PICK i, j : i = Place(a) /\ j = Place(b)
  OBVIOUS
<1>2. i \in Int /\ j \in Int /\ Texts[i] = a /\ Texts[j] = b
  BY <1>1, PlaceType
<1>3. Tells(<<i>>, <<j>>)
  BY <1>2, TellsNumber
<1>4. <<i>> = <<j>> => a = b
  BY <1>2
<1>5. <<i>> \in Seq(Int)
  BY <1>2
<1>6. QED  BY <1>1, <1>2, <1>3, <1>4, <1>5

Tag(kind) ==
  CASE kind = "string" -> 1 [] kind = "number" -> 2 [] kind = "array" -> 3
    [] kind = "boolean" -> 4 [] kind = "object" -> 5
Number(value) == IF value[1] = "number" THEN value[2] ELSE Place(value[2])

LEMMA ValueParts ==
  ASSUME NEW value \in Values
  PROVE  /\ value = <<value[1], value[2]>>
         /\ value[1] \in {"string", "number", "array", "boolean", "object"}
         /\ value[1] # "number" => value[2] \in ToSet(Texts)
         /\ Tag(value[1]) \in Int /\ Number(value) \in Int
         /\ ValueText(value) = Cat(<<Tag(value[1])>>, <<Number(value)>>)
<1>0. {"true", "false"} \subseteq ToSet(Texts)
  BY PolicyAstAssumption
<1>1. /\ value = <<value[1], value[2]>>
      /\ value[1] \in {"string", "number", "array", "boolean", "object"}
      /\ value[1] # "number" => value[2] \in ToSet(Texts)
      /\ value[1] = "number" => value[2] \in Int
  BY <1>0 DEF Values
<1>2. PICK a, b : a = Tag(value[1]) /\ b = Number(value)
  OBVIOUS
<1>3. a \in Int
  BY <1>1, <1>2 DEF Tag
<1>4. b \in Int
  BY <1>1, <1>2, PlaceType DEF Number
<1>5. ValueText(value) = <<a, b>>
  BY <1>1, <1>2 DEF ValueText, Tag, Number
<1>6. <<a, b>> = <<a>> \o <<b>>
  <2>1. PICK p, q, r : p = <<a>> /\ q = <<b>> /\ r = <<a, b>>
    OBVIOUS
  <2>2. /\ p \in Seq(Int) /\ q \in Seq(Int) /\ r \in Seq(Int)
        /\ Len(p) = 1 /\ Len(q) = 1 /\ Len(r) = 2
        /\ p[1] = a /\ q[1] = b /\ r[1] = a /\ r[2] = b
    BY <1>3, <1>4, <2>1
  <2>3. PICK s : s = p \o q
    OBVIOUS
  <2>4. s \in Seq(Int) /\ Len(s) = 2 /\ s[1] = a /\ s[2] = b
    <3>1. /\ s \in Seq(Int) /\ Len(s) = Len(p) + Len(q)
          /\ \A i \in 1 .. Len(p) + Len(q) : s[i] = IF i <= Len(p) THEN p[i] ELSE q[i - Len(p)]
      BY <2>2, <2>3, ConcatProperties
    <3>2. Len(s) = 2 /\ \A i \in 1 .. 2 : s[i] = IF i <= 1 THEN p[i] ELSE q[i - 1]
      BY <2>2, <3>1
    <3>3. s[1] = p[1] /\ s[2] = q[1]
      BY <3>2
    <3>4. QED  BY <2>2, <3>1, <3>2, <3>3
  <2>5. \A i \in 1 .. Len(s) : s[i] = r[i]
    BY <2>2, <2>4
  <2>6. s = r
    BY <2>2, <2>4, <2>5, SeqEqual
  <2>7. QED  BY <2>1, <2>3, <2>6
<1>7. QED  BY <1>1, <1>2, <1>3, <1>4, <1>5, <1>6 DEF Cat

LEMMA ValuesTell ==
  ASSUME NEW v \in Values, NEW w \in Values
  PROVE  /\ Tells(ValueText(v), ValueText(w))
         /\ ValueText(v) = ValueText(w) => v = w
<1>1. PICK a, b : a = Tag(v[1]) /\ b = Number(v)
  OBVIOUS
<1>2. PICK c, d : c = Tag(w[1]) /\ d = Number(w)
  OBVIOUS
<1>3. PICK p, r : p = <<a>> /\ r = <<b>>
  OBVIOUS
<1>4. PICK q, s : q = <<c>> /\ s = <<d>>
  OBVIOUS
<1>5. a \in Int /\ b \in Int /\ ValueText(v) = Cat(p, r)
  BY <1>1, <1>3, ValueParts
<1>6. c \in Int /\ d \in Int /\ ValueText(w) = Cat(q, s)
  BY <1>2, <1>4, ValueParts
<1>7. /\ p \in Seq(Int) /\ q \in Seq(Int) /\ r \in Seq(Int) /\ s \in Seq(Int)
      /\ Tells(p, q) /\ Tells(r, s)
  BY <1>3, <1>4, <1>5, <1>6, TellsNumber
<1>8. Tells(Cat(p, r), Cat(q, s)) /\ (Cat(p, r) = Cat(q, s) => p = q /\ r = s)
  BY <1>7, TellsTwo
<1>9. ASSUME p = q, r = s  PROVE v = w
  <2>1. a = c /\ b = d
    BY <1>3, <1>4, <1>9
  <2>2. v[1] = w[1]
    <3>1. PICK j, l : j = v[1] /\ l = w[1]
      OBVIOUS
    <3>2. /\ j \in {"string", "number", "array", "boolean", "object"}
          /\ l \in {"string", "number", "array", "boolean", "object"}
      BY <3>1, ValueParts
    <3>3. Tag(j) = Tag(l)
      BY <1>1, <1>2, <2>1, <3>1
    <3>4. j = l
      BY <3>2, <3>3 DEF Tag
    <3>5. QED  BY <3>1, <3>4
  <2>3. CASE v[1] = "number"
    <3>1. v[2] = w[2]
      BY <1>1, <1>2, <2>1, <2>2, <2>3 DEF Number
    <3>2. QED  BY <2>2, <3>1, ValueParts
  <2>4. CASE v[1] # "number"
    <3>1. PICK x, y : x = v[2] /\ y = w[2]
      OBVIOUS
    <3>2. x \in ToSet(Texts) /\ y \in ToSet(Texts)
      BY <2>2, <2>4, <3>1, ValueParts
    <3>3. Place(x) = Place(y)
      BY <1>1, <1>2, <2>1, <2>2, <2>4, <3>1 DEF Number
    <3>4. x = y
      BY <3>2, <3>3, PlacesTell
    <3>5. QED  BY <2>2, <3>1, <3>4, ValueParts
  <2>5. QED  BY <2>3, <2>4
<1>10. QED  BY <1>5, <1>6, <1>8, <1>9

EntryText(key, value) == <<Place(key)>> \o ValueText(value)

LEMMA EntriesTell ==
  ASSUME NEW a \in ToSet(Texts), NEW b \in ToSet(Texts), NEW v \in Values, NEW w \in Values
  PROVE  /\ Tells(EntryText(a, v), EntryText(b, w))
         /\ EntryText(a, v) = EntryText(b, w) => a = b /\ v = w
<1>1. PICK p, q : p = <<Place(a)>> /\ q = <<Place(b)>>
  OBVIOUS
<1>2. PICK r, s : r = ValueText(v) /\ s = ValueText(w)
  OBVIOUS
<1>3. /\ p \in Seq(Int) /\ q \in Seq(Int) /\ Tells(p, q) /\ (p = q => a = b)
  BY <1>1, PlacesTell
<1>4. r \in Seq(Int) /\ s \in Seq(Int) /\ Tells(r, s) /\ (r = s => v = w)
  BY <1>2, ValueTextType, ValuesTell
<1>5. EntryText(a, v) = Cat(p, r) /\ EntryText(b, w) = Cat(q, s)
  BY <1>1, <1>2 DEF Cat, EntryText
<1>6. Tells(Cat(p, r), Cat(q, s)) /\ (Cat(p, r) = Cat(q, s) => p = q /\ r = s)
  BY <1>3, <1>4, TellsTwo
<1>7. QED  BY <1>3, <1>4, <1>5, <1>6

LEMMA ParamsTell ==
  ASSUME NEW f, NEW g, IsParams(f), IsParams(g)
  PROVE  /\ Tells(ParamsText(f), ParamsText(g))
         /\ ParamsText(f) = ParamsText(g) => f = g
<1>1. PICK p, q : p = EntriesText(f) /\ q = EntriesText(g)
  OBVIOUS
<1>2. PICK s, t : s = Keys(f) /\ t = Keys(g)
  OBVIOUS
<1>3. PICK n \in Nat : /\ DOMAIN p = 1 .. n /\ DOMAIN s = 1 .. n
                       /\ \A i \in 1 .. n : s[i] \in DOMAIN f /\ f[s[i]] \in Values /\ p[i] \in Seq(Int)
  BY <1>1, <1>2, EntriesType
<1>4. PICK m \in Nat : /\ DOMAIN q = 1 .. m /\ DOMAIN t = 1 .. m
                       /\ \A i \in 1 .. m : t[i] \in DOMAIN g /\ g[t[i]] \in Values /\ q[i] \in Seq(Int)
  BY <1>1, <1>2, EntriesType
<1>5. /\ \A i \in 1 .. n : p[i] = EntryText(s[i], f[s[i]])
      /\ \A i \in 1 .. m : q[i] = EntryText(t[i], g[t[i]])
  BY <1>1, <1>2, <1>3, <1>4 DEF EntriesText, EntryText
<1>6. /\ DOMAIN f \subseteq ToSet(Texts) /\ DOMAIN g \subseteq ToSet(Texts)
      /\ f = [x \in DOMAIN f |-> f[x]] /\ g = [x \in DOMAIN g |-> g[x]]
  BY DEF IsParams
<1>7. ASSUME NEW i \in 1 .. n, i <= m
      PROVE  /\ Tells(p[i], q[i])
             /\ p[i] = q[i] => s[i] = t[i] /\ f[s[i]] = g[t[i]]
  <2>1. PICK a, b, v, w : a = s[i] /\ b = t[i] /\ v = f[a] /\ w = g[b]
    OBVIOUS
  <2>2. PICK x, y : x = p[i] /\ y = q[i]
    OBVIOUS
  <2>3. i \in 1 .. m
    BY <1>7
  <2>4. a \in ToSet(Texts) /\ b \in ToSet(Texts) /\ v \in Values /\ w \in Values
    BY <1>3, <1>4, <1>6, <2>1, <2>3
  <2>5. x = EntryText(a, v) /\ y = EntryText(b, w)
    BY <1>5, <2>1, <2>2, <2>3
  <2>6. Tells(x, y) /\ (x = y => a = b /\ v = w)
    BY <2>4, <2>5, EntriesTell
  <2>7. QED  BY <2>1, <2>2, <2>6
<1>8. /\ Tells(Listed(p), Listed(q))
      /\ Listed(p) = Listed(q) => SameParts(p, n, q, m)
  <2>1. AllTell(p, n, q, m)
    BY <1>7 DEF AllTell
  <2>2. /\ \A i \in 1 .. n : p[i] \in Seq(Int)
        /\ \A i \in 1 .. m : q[i] \in Seq(Int)
    BY <1>3, <1>4
  <2>3. QED  BY <1>3, <1>4, <2>1, <2>2, ListedTells
<1>9. ParamsText(f) = Listed(p) /\ ParamsText(g) = Listed(q)
  BY <1>1, EntriesType
<1>10. ASSUME SameParts(p, n, q, m)  PROVE f = g
  <2>1. n = m /\ \A i \in 1 .. n : p[i] = q[i]
    BY <1>10 DEF SameParts
  <2>2. \A i \in 1 .. n : s[i] = t[i] /\ f[s[i]] = g[t[i]]
    BY <1>7, <2>1
  <2>3. ToSet(s) = DOMAIN f /\ ToSet(t) = DOMAIN g
    BY <1>2, <1>6, KeysElements
  <2>4. DOMAIN f = {s[i] : i \in 1 .. n} /\ DOMAIN g = {t[i] : i \in 1 .. n}
    BY <1>3, <1>4, <2>1, <2>3 DEF ToSet
  <2>8. DOMAIN f = DOMAIN g
    BY <2>2, <2>4
  <2>5. \A x \in DOMAIN f : f[x] = g[x]
    BY <2>2, <2>4
  <2>6. [x \in DOMAIN f |-> f[x]] = [x \in DOMAIN g |-> g[x]]
    BY <2>5, <2>8
  <2>7. QED  BY <1>6, <2>6
<1>11. QED  BY <1>8, <1>9, <1>10

LEMMA WeightsTell ==
  ASSUME NEW s \in Optional(Seq(Int)), NEW t \in Optional(Seq(Int))
  PROVE  /\ Tells(Listed(WeightsText(s)), Listed(WeightsText(t)))
         /\ Listed(WeightsText(s)) = Listed(WeightsText(t)) => s = t
<1>1. PICK p, q : p = WeightsText(s) /\ q = WeightsText(t)
  OBVIOUS
<1>2. PICK n \in Nat : /\ DOMAIN s = 1 .. n /\ DOMAIN p = 1 .. n
                       /\ \A i \in 1 .. n :
                            s[i] \in Seq(Int) /\ p[i] = Numbers(s[i]) /\ p[i] \in Seq(Int)
  BY <1>1, WeightsType
<1>3. PICK m \in Nat : /\ DOMAIN t = 1 .. m /\ DOMAIN q = 1 .. m
                       /\ \A i \in 1 .. m :
                            t[i] \in Seq(Int) /\ q[i] = Numbers(t[i]) /\ q[i] \in Seq(Int)
  BY <1>1, WeightsType
<1>4. ASSUME NEW i \in 1 .. n, i <= m
      PROVE  Tells(p[i], q[i]) /\ (p[i] = q[i] => s[i] = t[i])
  <2>1. PICK a, b : a = s[i] /\ b = t[i]
    OBVIOUS
  <2>2. i \in 1 .. m
    BY <1>4
  <2>3. a \in Seq(Int) /\ b \in Seq(Int) /\ p[i] = Numbers(a) /\ q[i] = Numbers(b)
    BY <1>2, <1>3, <2>1, <2>2
  <2>4. Tells(Numbers(a), Numbers(b)) /\ (Numbers(a) = Numbers(b) => a = b)
    BY <2>3, NumbersTell
  <2>5. QED  BY <2>1, <2>3, <2>4
<1>5. /\ Tells(Listed(p), Listed(q))
      /\ Listed(p) = Listed(q) => SameParts(p, n, q, m)
  <2>1. AllTell(p, n, q, m)
    BY <1>4 DEF AllTell
  <2>2. /\ \A i \in 1 .. n : p[i] \in Seq(Int)
        /\ \A i \in 1 .. m : q[i] \in Seq(Int)
    BY <1>2, <1>3
  <2>3. QED  BY <1>2, <1>3, <2>1, <2>2, ListedTells
<1>6. ASSUME SameParts(p, n, q, m)  PROVE s = t
  <2>1. n = m /\ \A i \in 1 .. n : p[i] = q[i]
    BY <1>6 DEF SameParts
  <2>2. \A i \in 1 .. n : s[i] = t[i]
    BY <1>4, <2>1
  <2>3. s \in Seq(Seq(Int)) /\ t \in Seq(Seq(Int))
    BY DEF Optional
  <2>4. Len(s) = n /\ Len(t) = n
    BY <1>2, <1>3, <2>1, <2>3, LenProperties
  <2>5. QED  BY <2>2, <2>3, <2>4, SeqEqual
<1>7. QED  BY <1>1, <1>5, <1>6

\* The texts of a and b are not the same, nor does one go on where the other
\* ends, unless a and b are the same.
Telling(a, b) ==
  /\ Tells(JsonText(a), JsonText(b))
  /\ JsonText(a) = JsonText(b) => a = b

ChildTexts(node) == [i \in DOMAIN Children(node) |-> JsonText(Children(node)[i])]

LEMMA TextOf ==
  ASSUME NEW n, IsTree(n)
  PROVE  /\ JsonText(n) = NodeText(n, ChildTexts(n)) /\ IsNode(n)
         /\ \E l \in Nat : /\ l = Len(Children(n)) /\ DOMAIN Children(n) = 1 .. l
                           /\ Children(n) \in Seq(ToSet(Children(n)))
                           /\ DOMAIN ChildTexts(n) = 1 .. l
                           /\ \A i \in 1 .. l : /\ Children(n)[i] \in ToSet(Children(n))
                                                /\ IsTree(Children(n)[i])
                                                /\ ChildTexts(n)[i] = JsonText(Children(n)[i])
                                                /\ ChildTexts(n)[i] \in Seq(Int)
<1>1. IsNode(n) /\ Finite(n) /\ \A c \in ToSet(Children(n)) : IsTree(c)
  BY TreeParts
<1>2. PICK kids : kids = Children(n)
  OBVIOUS
<1>3. PICK l \in Nat : l = Len(kids) /\ DOMAIN kids = 1 .. l /\ kids \in Seq(ToSet(kids))
  BY <1>1, <1>2, NodeChildren
<1>4. \A i \in 1 .. l : kids[i] \in ToSet(kids)
  BY <1>3, ElementOfSeq
<1>5. \A i \in 1 .. l : IsTree(kids[i])
  BY <1>1, <1>2, <1>4
<1>6. \A i \in 1 .. l : JsonText(kids[i]) \in Seq(Int)
  BY <1>5, KeyType
<1>7. ChildTexts(n) = [i \in 1 .. l |-> JsonText(kids[i])]
  BY <1>2, <1>3 DEF ChildTexts
<1>8. JsonText(n) = NodeText(n, ChildTexts(n))
  BY <1>1, JsonTextRule DEF ChildTexts
<1>9. PICK texts : texts = ChildTexts(n)
  OBVIOUS
<1>10. DOMAIN texts = 1 .. l /\ \A i \in 1 .. l : texts[i] = JsonText(kids[i])
  BY <1>7, <1>9
<1>11. QED  BY <1>1, <1>2, <1>3, <1>4, <1>5, <1>6, <1>8, <1>9, <1>10

LEMMA ChildrenTell ==
  ASSUME NEW a, NEW b, IsTree(a), NormalTree(b), a.kind = "operator", b.kind = "operator",
         \A c \in ToSet(Children(a)) : \A d : NormalTree(d) => Telling(c, d)
  PROVE  /\ Tells(Listed(ChildTexts(a)), Listed(ChildTexts(b)))
         /\ Listed(ChildTexts(a)) = Listed(ChildTexts(b)) => a.children = b.children
<1>1. PICK s, t, p, q : /\ s = Children(a) /\ t = Children(b)
                        /\ p = ChildTexts(a) /\ q = ChildTexts(b)
  OBVIOUS
<1>2. PICK n \in Nat : /\ n = Len(s) /\ DOMAIN s = 1 .. n /\ s \in Seq(ToSet(s)) /\ DOMAIN p = 1 .. n
                       /\ \A i \in 1 .. n : /\ s[i] \in ToSet(s) /\ p[i] = JsonText(s[i])
                                            /\ p[i] \in Seq(Int)
  BY <1>1, TextOf
<1>3. IsTree(b) /\ ToSet(t) \subseteq Subtrees(b) /\ \A d \in Subtrees(b) : NormalTree(d)
  BY <1>1, NormalParts, SubtreeFacts DEF IsTree
<1>4. PICK m \in Nat : /\ m = Len(t) /\ DOMAIN t = 1 .. m /\ t \in Seq(ToSet(t)) /\ DOMAIN q = 1 .. m
                       /\ \A i \in 1 .. m : /\ t[i] \in ToSet(t) /\ q[i] = JsonText(t[i])
                                            /\ q[i] \in Seq(Int)
  BY <1>1, <1>3, TextOf
<1>5. ASSUME NEW i \in 1 .. n, i <= m
      PROVE  Tells(p[i], q[i]) /\ (p[i] = q[i] => s[i] = t[i])
  <2>1. PICK c, d : c = s[i] /\ d = t[i]
    OBVIOUS
  <2>2. i \in 1 .. m
    BY <1>5
  <2>3. c \in ToSet(s) /\ NormalTree(d)
    BY <1>2, <1>3, <1>4, <2>1, <2>2
  <2>4. Telling(c, d)
    BY <1>1, <2>3
  <2>5. p[i] = JsonText(c) /\ q[i] = JsonText(d)
    BY <1>2, <1>4, <2>1, <2>2
  <2>6. QED  BY <2>1, <2>4, <2>5 DEF Telling
<1>6. /\ Tells(Listed(p), Listed(q))
      /\ Listed(p) = Listed(q) => SameParts(p, n, q, m)
  <2>1. AllTell(p, n, q, m)
    BY <1>5 DEF AllTell
  <2>2. /\ \A i \in 1 .. n : p[i] \in Seq(Int)
        /\ \A i \in 1 .. m : q[i] \in Seq(Int)
    BY <1>2, <1>4
  <2>3. QED  BY <1>2, <1>4, <2>1, <2>2, ListedTells
<1>7. ASSUME SameParts(p, n, q, m)  PROVE s = t
  <2>1. n = m /\ \A i \in 1 .. n : p[i] = q[i]
    BY <1>7 DEF SameParts
  <2>2. \A i \in 1 .. n : s[i] = t[i]
    BY <1>5, <2>1
  <2>3. QED  BY <1>2, <1>4, <2>1, <2>2, SeqEqual
<1>8. QED  BY <1>1, <1>6, <1>7 DEF Children

\* Parts that tell apart, four in a row.
Apart(p, q) == p \in Seq(Int) /\ q \in Seq(Int) /\ Tells(p, q)
Row(a, c, e, g) == Cat(a, Cat(c, Cat(e, g)))

LEMMA TellsRow ==
  ASSUME NEW a, NEW b, NEW c, NEW d, NEW e, NEW f, NEW g, NEW h,
         Apart(a, b), Apart(c, d), Apart(e, f), Apart(g, h)
  PROVE  /\ Row(a, c, e, g) \in Seq(Int) /\ Row(b, d, f, h) \in Seq(Int)
         /\ Tells(Row(a, c, e, g), Row(b, d, f, h))
         /\ Row(a, c, e, g) = Row(b, d, f, h) => a = b /\ c = d /\ e = f /\ g = h
<1>1. PICK p, q : p = Cat(e, g) /\ q = Cat(f, h)
  OBVIOUS
<1>0. /\ a \in Seq(Int) /\ b \in Seq(Int) /\ c \in Seq(Int) /\ d \in Seq(Int)
      /\ e \in Seq(Int) /\ f \in Seq(Int) /\ g \in Seq(Int) /\ h \in Seq(Int)
      /\ Tells(a, b) /\ Tells(c, d) /\ Tells(e, f) /\ Tells(g, h)
  BY DEF Apart
<1>2. /\ p \in Seq(Int) /\ q \in Seq(Int) /\ Tells(p, q)
      /\ p = q => e = f /\ g = h
  BY <1>0, <1>1, CatType, TellsTwo
<1>3. PICK r, s : r = Cat(c, p) /\ s = Cat(d, q)
  OBVIOUS
<1>4. /\ r \in Seq(Int) /\ s \in Seq(Int) /\ Tells(r, s)
      /\ r = s => c = d /\ p = q
  BY <1>0, <1>2, <1>3, CatType, TellsTwo
<1>5. PICK x, y : x = Cat(a, r) /\ y = Cat(b, s)
  OBVIOUS
<1>6. /\ x \in Seq(Int) /\ y \in Seq(Int) /\ Tells(x, y)
      /\ x = y => a = b /\ r = s
  BY <1>0, <1>4, <1>5, CatType, TellsTwo
<1>7. Row(a, c, e, g) = x /\ Row(b, d, f, h) = y
  BY <1>1, <1>3, <1>5 DEF Row
<1>8. QED  BY <1>2, <1>4, <1>6, <1>7

LEMMA OperatorsTell ==
  ASSUME NEW a, NEW b, NormalTree(a), NormalTree(b), a.kind = "operator", b.kind = "operator",
         \A c \in ToSet(Children(a)) : \A d : NormalTree(d) => Telling(c, d)
  PROVE  Telling(a, b)
<1>1. IsTree(a) /\ IsTree(b) /\ IsNode(a) /\ IsNode(b) /\ NormalNode(a) /\ NormalNode(b)
  BY NormalParts, TreeParts
<1>2. /\ a.k \in Seq(Int) /\ a.weight \in Seq(Int)
      /\ a.weights \in Optional(Seq(Int)) /\ a.operator \in ToSet(Texts)
      /\ b.k \in Seq(Int) /\ b.weight \in Seq(Int)
      /\ b.weights \in Optional(Seq(Int)) /\ b.operator \in ToSet(Texts)
  BY <1>1 DEF IsNode, Optional
<1>3. PICK u, v : u = ChildTexts(a) /\ v = ChildTexts(b)
  OBVIOUS
<1>4. PICK n \in Nat : DOMAIN u = 1 .. n /\ \A i \in 1 .. n : u[i] \in Seq(Int)
  BY <1>1, <1>3, TextOf
<1>5. PICK m \in Nat : DOMAIN v = 1 .. m /\ \A i \in 1 .. m : v[i] \in Seq(Int)
  BY <1>1, <1>3, TextOf
<1>6. PICK p, q : p = Listed(u) /\ q = Listed(v)
  OBVIOUS
<1>7. PICK c, d : c = <<Place(a.operator)>> /\ d = <<Place(b.operator)>>
  OBVIOUS
<1>8. PICK e, f : e = Numbers(a.k) /\ f = Numbers(b.k)
  OBVIOUS
<1>9. PICK g, h : g = Listed(WeightsText(a.weights)) /\ h = Listed(WeightsText(b.weights))
  OBVIOUS
<1>10. PICK r, s : r = Numbers(a.weight) /\ s = Numbers(b.weight)
  OBVIOUS
<1>11. /\ r \in Seq(Int) /\ p \in Seq(Int) /\ c \in Seq(Int) /\ e \in Seq(Int) /\ g \in Seq(Int)
       /\ NodeText(a, u) = OperatorText(a, u)
  BY <1>1, <1>4, <1>6, <1>7, <1>8, <1>9, <1>10, OperatorTextParts
<1>12. /\ s \in Seq(Int) /\ q \in Seq(Int) /\ d \in Seq(Int) /\ f \in Seq(Int) /\ h \in Seq(Int)
       /\ NodeText(b, v) = OperatorText(b, v)
  BY <1>1, <1>5, <1>6, <1>7, <1>8, <1>9, <1>10, OperatorTextParts
<1>13. PICK x, y : x = Cat(c, Cat(e, Cat(g, r))) /\ y = Cat(d, Cat(f, Cat(h, s)))
  OBVIOUS
<1>14. Tells(p, q) /\ (p = q => a.children = b.children)
  BY <1>1, <1>3, <1>6, ChildrenTell
<1>15. Tells(c, d) /\ (c = d => a.operator = b.operator)
  BY <1>2, <1>7, PlacesTell
<1>16. Tells(e, f) /\ (e = f => a.k = b.k)
  BY <1>2, <1>8, NumbersTell
<1>17. Tells(g, h) /\ (g = h => a.weights = b.weights)
  BY <1>2, <1>9, WeightsTell
<1>18. Tells(r, s) /\ (r = s => a.weight = b.weight)
  BY <1>2, <1>10, NumbersTell
<1>19. /\ x \in Seq(Int) /\ y \in Seq(Int) /\ Tells(x, y)
       /\ x = y => c = d /\ e = f /\ g = h /\ r = s
  <2>1. x = Row(c, e, g, r) /\ y = Row(d, f, h, s)
    BY <1>13 DEF Row
  <2>2. Apart(c, d) /\ Apart(e, f) /\ Apart(g, h) /\ Apart(r, s)
    BY <1>11, <1>12, <1>15, <1>16, <1>17, <1>18 DEF Apart
  <2>3. QED  BY <2>1, <2>2, TellsRow
<1>20. PICK one : one = <<1>>
  OBVIOUS
<1>21. one \in Seq(Int) /\ Tells(one, one)
  BY <1>20, TellsNumber
<1>22. PICK w, z : w = Cat(p, x) /\ z = Cat(q, y)
  OBVIOUS
<1>23. /\ w \in Seq(Int) /\ z \in Seq(Int) /\ Tells(w, z)
       /\ w = z => p = q /\ x = y
  BY <1>11, <1>12, <1>14, <1>19, <1>22, CatType, TellsTwo
<1>24. /\ Tells(Cat(one, w), Cat(one, z))
       /\ Cat(one, w) = Cat(one, z) => w = z
  BY <1>21, <1>23, TellsTwo
<1>25. JsonText(a) = NodeText(a, u) /\ JsonText(b) = NodeText(b, v)
  BY <1>1, <1>3, TextOf
<1>26. /\ OperatorText(a, u) = Cat(one, w)
       /\ OperatorText(b, v) = Cat(one, z)
  BY <1>6, <1>7, <1>8, <1>9, <1>10, <1>13, <1>20, <1>22 DEF OperatorText
<1>27. ASSUME w = z  PROVE a = b
  <2>1. /\ a.operator = b.operator /\ a.children = b.children /\ a.k = b.k
        /\ a.weights = b.weights /\ a.weight = b.weight
    BY <1>14, <1>15, <1>16, <1>17, <1>18, <1>19, <1>23, <1>27
  <2>2. a.threshold = <<>> /\ b.threshold = <<>>
    BY <1>1 DEF NormalNode
  <2>3. /\ a = [kind |-> "operator", operator |-> a.operator, children |-> a.children, k |-> a.k,
                weights |-> a.weights, threshold |-> a.threshold, weight |-> a.weight]
        /\ b = [kind |-> "operator", operator |-> b.operator, children |-> b.children, k |-> b.k,
                weights |-> b.weights, threshold |-> b.threshold, weight |-> b.weight]
    BY <1>1 DEF IsNode
  <2>4. QED  BY <2>1, <2>2, <2>3
<1>28. QED  BY <1>11, <1>12, <1>24, <1>25, <1>26, <1>27 DEF Telling

LEMMA ConditionsTell ==
  ASSUME NEW a, NEW b, NormalTree(a), NormalTree(b), a.kind # "operator", b.kind # "operator"
  PROVE  Telling(a, b)
<1>1. IsTree(a) /\ IsTree(b) /\ IsNode(a) /\ IsNode(b)
  BY NormalParts, TreeParts
<1>2. /\ a.weight \in Seq(Int) /\ a.type \in ToSet(Texts) /\ IsParams(a.params)
      /\ b.weight \in Seq(Int) /\ b.type \in ToSet(Texts) /\ IsParams(b.params)
      /\ a.kind = "condition" /\ b.kind = "condition"
  BY <1>1 DEF IsNode, Optional
<1>3. PICK u, v : u = ChildTexts(a) /\ v = ChildTexts(b)
  OBVIOUS
<1>4. PICK p, q : p = ParamsText(a.params) /\ q = ParamsText(b.params)
  OBVIOUS
<1>5. PICK c, d : c = <<Place(a.type)>> /\ d = <<Place(b.type)>>
  OBVIOUS
<1>6. PICK r, s : r = Numbers(a.weight) /\ s = Numbers(b.weight)
  OBVIOUS
<1>7. PICK two : two = <<2>>
  OBVIOUS
<1>8. two \in Seq(Int) /\ Tells(two, two)
  BY <1>7, TellsNumber
<1>9. /\ r \in Seq(Int) /\ c \in Seq(Int) /\ p \in Seq(Int)
      /\ NodeText(a, u) = ConditionText(a)
  BY <1>1, <1>4, <1>5, <1>6, ConditionTextParts
<1>10. /\ s \in Seq(Int) /\ d \in Seq(Int) /\ q \in Seq(Int)
       /\ NodeText(b, v) = ConditionText(b)
  BY <1>1, <1>4, <1>5, <1>6, ConditionTextParts
<1>11. Tells(p, q) /\ (p = q => a.params = b.params)
  BY <1>2, <1>4, ParamsTell
<1>12. Tells(c, d) /\ (c = d => a.type = b.type)
  BY <1>2, <1>5, PlacesTell
<1>13. Tells(r, s) /\ (r = s => a.weight = b.weight)
  BY <1>2, <1>6, NumbersTell
<1>14. PICK x, y : x = Cat(two, Cat(p, Cat(c, r))) /\ y = Cat(two, Cat(q, Cat(d, s)))
  OBVIOUS
<1>15. /\ Tells(x, y)
       /\ x = y => p = q /\ c = d /\ r = s
  <2>1. x = Row(two, p, c, r) /\ y = Row(two, q, d, s)
    BY <1>14 DEF Row
  <2>2. Apart(two, two) /\ Apart(p, q) /\ Apart(c, d) /\ Apart(r, s)
    BY <1>8, <1>9, <1>10, <1>11, <1>12, <1>13 DEF Apart
  <2>3. QED  BY <2>1, <2>2, TellsRow
<1>16. JsonText(a) = NodeText(a, u) /\ JsonText(b) = NodeText(b, v)
  BY <1>1, <1>3, TextOf
<1>17. ConditionText(a) = x /\ ConditionText(b) = y
  BY <1>4, <1>5, <1>6, <1>7, <1>14 DEF ConditionText
<1>18. ASSUME p = q, c = d, r = s  PROVE a = b
  <2>1. a.params = b.params /\ a.type = b.type /\ a.weight = b.weight
    BY <1>11, <1>12, <1>13, <1>18
  <2>2. /\ a = [kind |-> "condition", type |-> a.type, params |-> a.params, weight |-> a.weight]
        /\ b = [kind |-> "condition", type |-> b.type, params |-> b.params, weight |-> b.weight]
    BY <1>1, <1>2 DEF IsNode
  <2>3. QED  BY <2>1, <2>2
<1>19. QED  BY <1>9, <1>10, <1>15, <1>16, <1>17, <1>18 DEF Telling

LEMMA KindsTell ==
  ASSUME NEW a, NEW b, NormalTree(a), NormalTree(b), a.kind = "operator", b.kind # "operator"
  PROVE  Telling(a, b) /\ Telling(b, a)
<1>1. IsTree(a) /\ IsTree(b) /\ IsNode(a) /\ IsNode(b)
  BY NormalParts, TreeParts
<1>2. PICK u, v : u = ChildTexts(a) /\ v = ChildTexts(b)
  OBVIOUS
<1>3. PICK n \in Nat : DOMAIN u = 1 .. n /\ \A i \in 1 .. n : u[i] \in Seq(Int)
  BY <1>1, <1>2, TextOf
<1>4. JsonText(a) = OperatorText(a, u)
  BY <1>1, <1>2, <1>3, TextOf, OperatorTextParts
<1>5. JsonText(b) = ConditionText(b)
  BY <1>1, <1>2, TextOf, ConditionTextParts
<1>6. PICK x : x = Cat(Listed(u), Cat(<<Place(a.operator)>>, Cat(Numbers(a.k),
                     Cat(Listed(WeightsText(a.weights)), Numbers(a.weight)))))
  OBVIOUS
<1>7. PICK y : y = Cat(ParamsText(b.params), Cat(<<Place(b.type)>>, Numbers(b.weight)))
  OBVIOUS
<1>8. PICK one, two : one = <<1>> /\ two = <<2>>
  OBVIOUS
<1>9. JsonText(a) = Cat(one, x) /\ JsonText(b) = Cat(two, y)
  BY <1>4, <1>5, <1>6, <1>7, <1>8 DEF OperatorText, ConditionText
<1>10. one \in Seq(Int) /\ two \in Seq(Int) /\ Tells(one, two) /\ Tells(two, one) /\ one # two
  BY <1>8, TellsNumber
<1>11. x \in Seq(Int)
  <2>1. PICK c, d, e, f, g : /\ c = Listed(u) /\ d = <<Place(a.operator)>> /\ e = Numbers(a.k)
                             /\ f = Listed(WeightsText(a.weights)) /\ g = Numbers(a.weight)
    OBVIOUS
  <2>2. c \in Seq(Int) /\ d \in Seq(Int) /\ e \in Seq(Int) /\ f \in Seq(Int) /\ g \in Seq(Int)
    BY <1>1, <1>3, <2>1, OperatorTextParts
  <2>3. Cat(f, g) \in Seq(Int)
    BY <2>2, CatType
  <2>4. Cat(e, Cat(f, g)) \in Seq(Int)
    BY <2>2, <2>3, CatType
  <2>5. Cat(d, Cat(e, Cat(f, g))) \in Seq(Int)
    BY <2>2, <2>4, CatType
  <2>6. Cat(c, Cat(d, Cat(e, Cat(f, g)))) \in Seq(Int)
    BY <2>2, <2>5, CatType
  <2>7. QED  BY <1>6, <2>1, <2>6
<1>12. y \in Seq(Int)
  <2>1. PICK c, d, e : c = ParamsText(b.params) /\ d = <<Place(b.type)>> /\ e = Numbers(b.weight)
    OBVIOUS
  <2>2. c \in Seq(Int) /\ d \in Seq(Int) /\ e \in Seq(Int)
    BY <1>1, <2>1, ConditionTextParts
  <2>3. Cat(d, e) \in Seq(Int)
    BY <2>2, CatType
  <2>4. Cat(c, Cat(d, e)) \in Seq(Int)
    BY <2>2, <2>3, CatType
  <2>5. QED  BY <1>7, <2>1, <2>4
<1>13. /\ Tells(Cat(one, x), Cat(two, y)) /\ Cat(one, x) # Cat(two, y)
       /\ Tells(Cat(two, y), Cat(one, x))
  BY <1>10, <1>11, <1>12, TellsTwo
<1>14. QED  BY <1>9, <1>13 DEF Telling

\* Two trees in normal form have one text only if they are one tree.
LEMMA TreesTell ==
  ASSUME NEW root, NormalTree(root), NEW m, NormalTree(m)
  PROVE  Telling(root, m)
<1> DEFINE P == {n \in Subtrees(root) : \A d : NormalTree(d) => Telling(n, d)}
<1>1. ASSUME NEW n \in Subtrees(root), ToSet(Children(n)) \subseteq P  PROVE n \in P
  <2> SUFFICES ASSUME NEW d, NormalTree(d)  PROVE Telling(n, d)
    OBVIOUS
  <2>1. NormalTree(n)
    BY NormalParts
  <2>2. \A c \in ToSet(Children(n)) : \A e : NormalTree(e) => Telling(c, e)
    BY <1>1
  <2> HIDE DEF P
  <2>3. CASE n.kind = "operator" /\ d.kind = "operator"
    BY <2>1, <2>2, <2>3, OperatorsTell
  <2>4. CASE n.kind # "operator" /\ d.kind # "operator"
    BY <2>1, <2>4, ConditionsTell
  <2>5. CASE n.kind = "operator" /\ d.kind # "operator"
    BY <2>1, <2>5, KindsTell
  <2>6. CASE n.kind # "operator" /\ d.kind = "operator"
    BY <2>1, <2>6, KindsTell
  <2>7. QED  BY <2>3, <2>4, <2>5, <2>6
<1>2. Finite(root) /\ root \in Subtrees(root)
  BY NormalParts DEF IsTree
<1>3. Subtrees(root) \subseteq P
  <2> HIDE DEF P
  <2>1. QED  BY <1>1, <1>2, TreeInduction
<1>4. QED  BY <1>2, <1>3

\* Two canonical trees with one sort key (nodeSortKey) are one tree: siblings
\* that the sort of canonicalizePolicyAst leaves side by side because their
\* keys agree are repetitions, and no other siblings are left in the order they
\* were written in.
THEOREM KeysTell ==
  ASSUME NEW a, NEW b, NormalTree(a), NormalTree(b), NodeSortKey(a) = NodeSortKey(b)
  PROVE  a = b
<1>1. IsTree(a) /\ IsTree(b) /\ IsNode(a) /\ IsNode(b)
  BY NormalParts, TreeParts
<1>2. a.weight \in Seq(Int) /\ b.weight \in Seq(Int)
  BY <1>1 DEF IsNode, Optional
<1>3. PICK p, q : p = Numbers(a.weight) /\ q = Numbers(b.weight)
  OBVIOUS
<1>4. PICK r, s : r = JsonText(a) /\ s = JsonText(b)
  OBVIOUS
<1>5. /\ r \in Seq(Int) /\ s \in Seq(Int)
      /\ NodeSortKey(a) = p \o r /\ NodeSortKey(b) = q \o s
  BY <1>1, <1>3, <1>4, KeyType
<1>6. p \in Seq(Int) /\ q \in Seq(Int) /\ Tells(p, q)
  BY <1>2, <1>3, NumbersType, NumbersTell
<1>7. Cat(p, r) = Cat(q, s)
  BY <1>5 DEF Cat
<1>8. r = s
  BY <1>5, <1>6, <1>7 DEF Tells
<1>9. QED  BY <1>4, <1>8, TreesTell DEF Telling

-----------------------------------------------------------------------------
(* Siblings in normal form have one order.                                 *)

AllNormal(S) == \A c \in S : NormalTree(c)

LEMMA KeyOrder ==
  ASSUME NEW a, NEW b, NEW c, NormalTree(a), NormalTree(b), NormalTree(c)
  PROVE  /\ ~KeyBefore(a, a)
         /\ KeyBefore(a, b) /\ KeyBefore(b, c) => KeyBefore(a, c)
         /\ ~KeyBefore(a, b) /\ ~KeyBefore(b, c) => ~KeyBefore(a, c)
         /\ ~(KeyBefore(a, b) /\ KeyBefore(b, a))
         /\ a # b => KeyBefore(a, b) \/ KeyBefore(b, a)
<1>1. PICK p, q, r : p = NodeSortKey(a) /\ q = NodeSortKey(b) /\ r = NodeSortKey(c)
  OBVIOUS
<1>2. p \in Seq(Int) /\ q \in Seq(Int) /\ r \in Seq(Int)
  BY <1>1, NormalParts, KeyType
<1>3. a # b => p # q
  BY <1>1, KeysTell
<1>4. /\ ~Before(p, p)
      /\ Before(p, q) /\ Before(q, r) => Before(p, r)
      /\ ~Before(p, q) /\ ~Before(q, r) => ~Before(p, r)
      /\ ~(Before(p, q) /\ Before(q, p))
      /\ p # q => Before(p, q) \/ Before(q, p)
  BY <1>2, BeforeIsOrder
<1>5. QED  BY <1>1, <1>3, <1>4 DEF KeyBefore

\* In order and without a repeated neighbour, siblings strictly ascend.
Ascends(s) == \A i, j \in 1 .. Len(s) : i < j => KeyBefore(s[i], s[j])

LEMMA AscendsFrom ==
  ASSUME NEW S, AllNormal(S), NEW s \in Seq(S), InOrder(s), Unlike(s)
  PROVE  Ascends(s)
<1>1. PICK n \in Nat : n = Len(s)
  BY LenProperties
<1>2. \A i \in 1 .. n : NormalTree(s[i])
  BY <1>1, ElementOfSeq DEF AllNormal
<1>3. ASSUME NEW i \in 1 .. n, NEW j \in 1 .. n, i < j  PROVE KeyBefore(s[i], s[j])
  <2>1. i + 1 \in 2 .. n /\ i + 1 \in 1 .. n /\ (i + 1) - 1 = i /\ i < i + 1
    BY <1>3
  <2>2. PICK x, y, z : x = s[i] /\ y = s[i + 1] /\ z = s[j]
    OBVIOUS
  <2>3. NormalTree(x) /\ NormalTree(y) /\ NormalTree(z)
    BY <1>2, <2>1, <2>2
  <2>4. x # y
    BY <1>1, <2>1, <2>2 DEF Unlike
  <2>5. ~KeyBefore(y, x)
    BY <1>1, <2>1, <2>2 DEF InOrder
  <2>6. KeyBefore(x, y)
    BY <2>3, <2>4, <2>5, KeyOrder
  <2>7. ~KeyBefore(z, y)
    <3>1. CASE i + 1 = j
      BY <2>2, <2>3, <3>1, KeyOrder
    <3>2. CASE i + 1 < j
      BY <1>1, <2>1, <2>2, <3>2 DEF InOrder
    <3>3. QED  BY <1>3, <3>1, <3>2
  <2>8. KeyBefore(x, z)
    BY <2>3, <2>6, <2>7, KeyOrder
  <2>9. QED  BY <2>2, <2>8
<1>4. QED  BY <1>1, <1>3 DEF Ascends

\* Ascending siblings that are the same ones begin the same, as far as both go.
LEMMA AscendAlike ==
  ASSUME NEW S, AllNormal(S), NEW s \in Seq(S), NEW t \in Seq(S), Ascends(s), Ascends(t),
         ToSet(s) = ToSet(t)
  PROVE  Len(s) <= Len(t) /\ \A i \in 1 .. Len(s) : s[i] = t[i]
<1>1. PICK n \in Nat : n = Len(s) /\ DOMAIN s = 1 .. n
  BY LenProperties
<1>2. PICK m \in Nat : m = Len(t) /\ DOMAIN t = 1 .. m
  BY LenProperties
<1>3. /\ \A i \in 1 .. n : NormalTree(s[i])
      /\ \A i \in 1 .. m : NormalTree(t[i])
  BY <1>1, <1>2, ElementOfSeq DEF AllNormal
<1>4. /\ \A i \in 1 .. n : \E j \in 1 .. m : s[i] = t[j]
      /\ \A j \in 1 .. m : \E i \in 1 .. n : s[i] = t[j]
  BY <1>1, <1>2 DEF ToSet
<1>5. /\ \A i, j \in 1 .. n : i < j => KeyBefore(s[i], s[j])
      /\ \A i, j \in 1 .. m : i < j => KeyBefore(t[i], t[j])
  BY <1>1, <1>2 DEF Ascends
<1>6. /\ \A i, j \in 1 .. n : KeyBefore(s[i], s[j]) => i < j
      /\ \A i, j \in 1 .. m : KeyBefore(t[i], t[j]) => i < j
  <2>1. ASSUME NEW i \in 1 .. n, NEW j \in 1 .. n, KeyBefore(s[i], s[j]), j <= i  PROVE FALSE
    <3>1. j = i \/ KeyBefore(s[j], s[i])
      BY <1>5, <2>1
    <3>2. QED  BY <1>3, <2>1, <3>1, KeyOrder
  <2>2. ASSUME NEW i \in 1 .. m, NEW j \in 1 .. m, KeyBefore(t[i], t[j]), j <= i  PROVE FALSE
    <3>1. j = i \/ KeyBefore(t[j], t[i])
      BY <1>5, <2>2
    <3>2. QED  BY <1>3, <2>2, <3>1, KeyOrder
  <2>3. QED  BY <2>1, <2>2
<1> DEFINE G == {k \in Nat : k <= n => k <= m /\ \A i \in 1 .. k : s[i] = t[i]}
<1>7. 0 \in G
  OBVIOUS
<1>8. ASSUME NEW k \in Nat, k \in G  PROVE k + 1 \in G
  <2> SUFFICES ASSUME k + 1 <= n
               PROVE  k + 1 <= m /\ \A i \in 1 .. k + 1 : s[i] = t[i]
    OBVIOUS
  <2>1. k <= m /\ \A i \in 1 .. k : s[i] = t[i]
    BY <1>8
  <2> HIDE DEF G
  <2>2. k + 1 \in 1 .. n
    OBVIOUS
  <2>3. PICK j \in 1 .. m : s[k + 1] = t[j]
    BY <1>4, <2>2
  <2>4. j > k
    <3> SUFFICES ASSUME j <= k  PROVE FALSE
      OBVIOUS
    <3>1. j \in 1 .. k /\ j \in 1 .. n /\ j < k + 1
      OBVIOUS
    <3>2. s[j] = s[k + 1]
      BY <2>1, <2>3, <3>1
    <3>3. KeyBefore(s[j], s[k + 1]) /\ NormalTree(s[j])
      BY <1>3, <1>5, <2>2, <3>1
    <3>4. QED  BY <3>2, <3>3, KeyOrder
  <2>5. k + 1 <= m /\ k + 1 \in 1 .. m
    BY <2>4
  <2>6. j = k + 1
    <3> SUFFICES ASSUME k + 1 < j  PROVE FALSE
      BY <2>4
    <3>1. PICK i \in 1 .. n : s[i] = t[k + 1]
      BY <1>4, <2>5
    <3>2. KeyBefore(t[k + 1], t[j])
      BY <1>5, <2>5
    <3>3. KeyBefore(s[i], s[k + 1])
      BY <2>3, <3>1, <3>2
    <3>4. i < k + 1
      BY <1>6, <2>2, <3>3
    <3>5. i \in 1 .. k /\ i \in 1 .. m
      BY <2>1, <3>4
    <3>6. t[i] = t[k + 1] /\ NormalTree(t[i])
      BY <1>3, <2>1, <3>1, <3>5
    <3>7. KeyBefore(t[i], t[k + 1])
      BY <1>5, <2>5, <3>4, <3>5
    <3>8. QED  BY <3>6, <3>7, KeyOrder
  <2>7. \A i \in 1 .. k + 1 : i \in 1 .. k \/ i = k + 1
    OBVIOUS
  <2>8. QED  BY <2>1, <2>3, <2>5, <2>6, <2>7
<1>9. n \in G
  <2> HIDE DEF G
  <2>1. \A k \in Nat : k \in G
    BY <1>7, <1>8, CountUp
  <2>2. QED  BY <2>1
<1>10. QED
  <2>1. n <= n
    OBVIOUS
  <2>2. n <= m /\ \A i \in 1 .. n : s[i] = t[i]
    BY <1>9, <2>1
  <2>3. QED  BY <1>1, <1>2, <2>2

\* So a set of siblings is written in one way without repetition.
LEMMA AscendingUnique ==
  ASSUME NEW S, AllNormal(S), NEW s \in Seq(S), NEW t \in Seq(S), Ascends(s), Ascends(t),
         ToSet(s) = ToSet(t)
  PROVE  s = t
<1>1. Len(s) <= Len(t) /\ \A i \in 1 .. Len(s) : s[i] = t[i]
  BY AscendAlike
<1>2. Len(t) <= Len(s)
  BY AscendAlike
<1>3. Len(s) \in Nat /\ Len(t) \in Nat
  BY LenProperties
<1>4. Len(s) = Len(t)
  BY <1>1, <1>2, <1>3
<1>5. QED  BY <1>1, <1>4, SeqEqual

\* s and t hold the same things equally often.
PlacesIn(s, X) == {i \in DOMAIN s : s[i] \in X}
SameCounts(s, t) ==
  DOMAIN s = DOMAIN t /\ \A X : Cardinality(PlacesIn(s, X)) = Cardinality(PlacesIn(t, X))

LEMMA PermutesCounts ==
  ASSUME NEW l \in Nat, NEW s, NEW t, NEW p, DOMAIN s = 1 .. l, Permutes(p, s, t)
  PROVE  SameCounts(s, t)
<1>1. /\ p \in [1 .. l -> 1 .. l] /\ DOMAIN t = 1 .. l
      /\ \A k \in 1 .. l : t[k] = s[p[k]]
      /\ \A j, k \in 1 .. l : p[j] = p[k] => j = k
      /\ \A k \in 1 .. l : \E j \in 1 .. l : p[j] = k
  BY DEF Permutes, Bijection, Injection, Surjection, IsInjective
<1>2. ASSUME NEW X  PROVE Cardinality(PlacesIn(s, X)) = Cardinality(PlacesIn(t, X))
  <2>1. PICK A, B : A = PlacesIn(s, X) /\ B = PlacesIn(t, X)
    OBVIOUS
  <2>2. /\ \A k \in 1 .. l : k \in B <=> p[k] \in A
        /\ A \subseteq 1 .. l /\ B \subseteq 1 .. l
    BY <1>1, <2>1 DEF PlacesIn
  <2>3. PICK f : f = [k \in B |-> p[k]]
    OBVIOUS
  <2>4. f \in [B -> A]
    BY <1>1, <2>2, <2>3
  <2>5. \A j, k \in B : f[j] = f[k] => j = k
    BY <1>1, <2>2, <2>3
  <2>6. \A k \in A : \E j \in B : f[j] = k
    BY <1>1, <2>2, <2>3
  <2>7. f \in Bijection(B, A)
    BY <2>4, <2>5, <2>6 DEF Bijection, Injection, Surjection, IsInjective
  <2>8. IsFiniteSet(B)
    <3>1. IsFiniteSet(1 .. l)
      BY FS_Interval
    <3>2. QED  BY <2>2, <3>1, FS_Subset
  <2>9. Cardinality(A) = Cardinality(B)
    BY <2>7, <2>8, FS_Bijection DEF ExistsBijection
  <2>10. QED  BY <2>1, <2>9
<1>3. QED  BY <1>1, <1>2 DEF SameCounts

\* Of two orders of the same siblings, neither runs ahead of the other.
LEMMA NoneAhead ==
  ASSUME NEW S, AllNormal(S), NEW n \in Nat, NEW s \in Seq(S), NEW t \in Seq(S),
         Len(s) = n, Len(t) = n, InOrder(s), InOrder(t), SameCounts(s, t), NEW k \in 1 .. n
  PROVE  ~KeyBefore(s[k], t[k])
<1> SUFFICES ASSUME KeyBefore(s[k], t[k])  PROVE FALSE
  OBVIOUS
<1>1. DOMAIN s = 1 .. n /\ DOMAIN t = 1 .. n
  BY LenProperties
<1>2. /\ \A i \in 1 .. n : s[i] \in S /\ NormalTree(s[i])
      /\ \A i \in 1 .. n : t[i] \in S /\ NormalTree(t[i])
  BY ElementOfSeq DEF AllNormal
<1>3. PICK x : x = s[k]
  OBVIOUS
<1>4. PICK X : X = {y \in S : ~KeyBefore(x, y)}
  OBVIOUS
<1>5. PICK A, B : A = PlacesIn(s, X) /\ B = PlacesIn(t, X)
  OBVIOUS
<1>6. ASSUME NEW i \in 1 .. k  PROVE i \in A
  <2>1. i \in 1 .. n
    OBVIOUS
  <2>2. i = k \/ i < k
    OBVIOUS
  <2>3. ~KeyBefore(x, s[i])
    <3>1. CASE i = k
      BY <1>2, <1>3, <3>1, KeyOrder
    <3>2. CASE i < k
      BY <1>3, <2>1, <3>2 DEF InOrder
    <3>3. QED  BY <2>2, <3>1, <3>2
  <2>4. s[i] \in X
    BY <1>2, <1>4, <2>1, <2>3
  <2>5. QED  BY <1>1, <1>5, <2>1, <2>4 DEF PlacesIn
<1>7. ASSUME NEW i \in B  PROVE i \in 1 .. k - 1
  <2>1. i \in 1 .. n /\ t[i] \in X
    BY <1>1, <1>5, <1>7 DEF PlacesIn
  <2>2. ~KeyBefore(x, t[i])
    BY <1>4, <2>1
  <2>3. ~(k <= i)
    <3> SUFFICES ASSUME k <= i  PROVE FALSE
      OBVIOUS
    <3>1. PICK y, z : y = t[k] /\ z = t[i]
      OBVIOUS
    <3>2. NormalTree(x) /\ NormalTree(y) /\ NormalTree(z)
      BY <1>2, <1>3, <2>1, <3>1
    <3>3. ~KeyBefore(z, y)
      <4>1. CASE k = i
        <5>1. ~KeyBefore(t[k], t[k])
          BY <3>1, <3>2, KeyOrder
        <5>2. QED  BY <3>1, <4>1, <5>1
      <4>2. CASE k < i
        BY <2>1, <3>1, <4>2 DEF InOrder
      <4>3. QED  BY <2>1, <4>1, <4>2
    <3>4. ~KeyBefore(x, y)
      BY <2>2, <3>1, <3>2, <3>3, KeyOrder
    <3>5. QED  BY <1>3, <3>1, <3>4
  <2>4. QED  BY <2>1, <2>3
<1>8. IsFiniteSet(A) /\ IsFiniteSet(1 .. k) /\ Cardinality(1 .. k) = k
  <2>1. A \subseteq 1 .. n
    BY <1>1, <1>5 DEF PlacesIn
  <2>2. IsFiniteSet(1 .. n) /\ IsFiniteSet(1 .. k) /\ Cardinality(1 .. k) = k
    BY FS_Interval
  <2>3. QED  BY <2>1, <2>2, FS_Subset
<1>9. Cardinality(A) \in Nat /\ k <= Cardinality(A)
  <2>1. 1 .. k \subseteq A
    BY <1>6
  <2>2. QED  BY <1>8, <2>1, FS_Subset, FS_CardinalityType
<1>10. Cardinality(B) \in Nat /\ Cardinality(B) <= k - 1
  <2>1. B \subseteq 1 .. k - 1
    BY <1>7
  <2>2. IsFiniteSet(1 .. k - 1) /\ Cardinality(1 .. k - 1) = k - 1
    <3>1. k - 1 \in Nat
      OBVIOUS
    <3>2. QED  BY <3>1, FS_Interval
  <2>3. QED  BY <2>1, <2>2, FS_Subset, FS_CardinalityType
<1>11. Cardinality(A) = Cardinality(B)
  BY <1>5 DEF SameCounts
<1>12. QED  BY <1>9, <1>10, <1>11

LEMMA OrderUnique ==
  ASSUME NEW S, AllNormal(S), NEW s \in Seq(S), NEW t \in Seq(S),
         InOrder(s), InOrder(t), SameCounts(s, t)
  PROVE  s = t
<1>1. PICK n \in Nat : n = Len(s) /\ n = Len(t)
  BY LenProperties DEF SameCounts
<1>2. SameCounts(t, s)
  BY DEF SameCounts
<1>3. ASSUME NEW k \in 1 .. n  PROVE s[k] = t[k]
  <2>1. ~KeyBefore(s[k], t[k])
    BY <1>1, NoneAhead
  <2>2. ~KeyBefore(t[k], s[k])
    BY <1>1, <1>2, NoneAhead
  <2>3. NormalTree(s[k]) /\ NormalTree(t[k])
    BY <1>1, ElementOfSeq DEF AllNormal
  <2>4. QED  BY <2>1, <2>2, <2>3, KeyOrder
<1>4. QED  BY <1>1, <1>3, SeqEqual

\* Sorting forgets the order it is given.
LEMMA SortedForgets ==
  ASSUME NEW S, AllNormal(S), NEW s \in Seq(S), NEW t \in Seq(S), SameCounts(s, t),
         NEW op \in Commutative
  PROVE  Sorted(op, s) = Sorted(op, t)
<1>1. \A c \in S : IsTree(c)
  BY NormalParts DEF AllNormal
<1>2. PICK n \in Nat : DOMAIN s = 1 .. n /\ DOMAIN t = 1 .. n
  BY LenProperties DEF SameCounts
<1>3. PICK u, v : u = Sorted(op, s) /\ v = Sorted(op, t)
  OBVIOUS
<1>4. u \in Seq(S) /\ InOrder(u) /\ \E p : Permutes(p, s, u)
  BY <1>1, <1>3, SortedFacts
<1>5. v \in Seq(S) /\ InOrder(v) /\ \E p : Permutes(p, t, v)
  BY <1>1, <1>3, SortedFacts
<1>6. SameCounts(s, u) /\ SameCounts(t, v)
  BY <1>2, <1>4, <1>5, PermutesCounts
<1>7. SameCounts(u, v)
  BY <1>6 DEF SameCounts
<1>8. u = v
  BY <1>4, <1>5, <1>7, OrderUnique
<1>9. QED  BY <1>3, <1>8

-----------------------------------------------------------------------------
(* Every writing of a policy has one canonical form.                       *)

\* l trees in normal form.
Normals(K, l) ==
  l \in Nat /\ K = [i \in 1 .. l |-> K[i]] /\ \A i \in 1 .. l : NormalTree(K[i])

\* The canonical children of an operator that does not mind repetition are
\* settled by which they are,
LEMMA ChildrenOfSet ==
  ASSUME NEW n, IsNode(n), n.kind = "operator", n.operator \in DuplicateInsensitive,
         NEW l, NEW K, Normals(K, l), NEW m, NEW L, Normals(L, m),
         ToSet(Flattened(n.operator, K)) = ToSet(Flattened(n.operator, L))
  PROVE  CanonicalChildren(n.operator, K) = CanonicalChildren(n.operator, L)
<1>1. n.operator \in Operators /\ n.operator \in Commutative
  BY DEF Operators, OperatorNames, ToSet, DuplicateInsensitive, Commutative
<1>2. PICK op : op = n.operator
  OBVIOUS
<1>3. PICK u, v : u = CanonicalChildren(op, K) /\ v = CanonicalChildren(op, L)
  OBVIOUS
<1>4. PICK F : F = ToSet(Flattened(op, K))
  OBVIOUS
<1>5. PICK a, b : a = CanonicalNode(n, K) /\ b = CanonicalNode(n, L)
  OBVIOUS
<1>6. /\ NormalTree(a) /\ SameHead(n, a) /\ a.children = u
      /\ ToSet(u) = F /\ u \in Seq(F)
  BY <1>1, <1>2, <1>3, <1>4, <1>5, CanonicalOperator DEF Normals
<1>7. /\ NormalTree(b) /\ SameHead(n, b) /\ b.children = v
      /\ ToSet(v) = F /\ v \in Seq(F)
  BY <1>1, <1>2, <1>3, <1>4, <1>5, CanonicalOperator DEF Normals
<1>8. a.kind = "operator" /\ a.operator = op /\ b.kind = "operator" /\ b.operator = op
  BY <1>2, <1>6, <1>7 DEF SameHead
<1>9. Good(op, u) /\ Good(op, v)
  BY <1>6, <1>7, <1>8, NormalParts DEF NormalNode
<1>10. InOrder(u) /\ Unlike(u) /\ InOrder(v) /\ Unlike(v)
  BY <1>1, <1>2, <1>9 DEF Good
<1>11. AllNormal(F)
  <2>1. Children(a) = u
    BY <1>6, <1>8 DEF Children
  <2>2. F \subseteq Subtrees(a)
    <3>1. Finite(a)
      BY <1>6, NormalParts DEF IsTree
    <3>2. a \in Subtrees(a) /\ ToSet(Children(a)) \subseteq Subtrees(a)
      BY <3>1, SubtreeFacts
    <3>3. QED  BY <1>6, <2>1, <3>2
  <2>3. \A c \in Subtrees(a) : NormalTree(c)
    BY <1>6, NormalParts
  <2>4. QED  BY <2>2, <2>3 DEF AllNormal
<1>12. Ascends(u) /\ Ascends(v)
  BY <1>6, <1>7, <1>10, <1>11, AscendsFrom
<1>13. u = v
  BY <1>6, <1>7, <1>11, <1>12, AscendingUnique
<1>14. QED  BY <1>2, <1>3, <1>13

\* and those of one that only does not mind order, by how often each occurs.
LEMMA ChildrenOfCounts ==
  ASSUME NEW op \in Commutative, op \notin Associative, NEW l,
         NEW K, Normals(K, l), NEW L, Normals(L, l), SameCounts(K, L)
  PROVE  CanonicalChildren(op, K) = CanonicalChildren(op, L)
<1> DEFINE S == {K[i] : i \in 1 .. l} \cup {L[i] : i \in 1 .. l}
<1>1. AllNormal(S)
  BY DEF AllNormal, Normals
<1>2. l \in Nat /\ K \in [1 .. l -> S] /\ L \in [1 .. l -> S]
  BY DEF Normals
<1> HIDE DEF S
<1>3. K \in Seq(S) /\ L \in Seq(S)
  BY ONLY <1>2, FunctionIsSeq
<1>4. Sorted(op, K) = Sorted(op, L)
  BY <1>1, <1>3, SortedForgets
<1>5. Flattened(op, K) = K /\ Flattened(op, L) = L
  BY DEF Flattened
<1>6. QED  BY <1>4, <1>5 DEF CanonicalChildren

\* What flattening makes of a list is a matter of what is in it.
Spread(op, S) == UNION {IF IsOperator(c, op) THEN ToSet(c.children) ELSE {c} : c \in S}

LEMMA FlattenedSpread ==
  ASSUME NEW op, NEW l, NEW K, Normals(K, l)
  PROVE  ToSet(Flattened(op, K)) =
           IF op \in Associative THEN Spread(op, ToSet(K)) ELSE ToSet(K)
<1> DEFINE S == UNION {Subtrees(K[i]) : i \in 1 .. l}
<1> l \in Nat /\ K = [i \in 1 .. l |-> K[i]] /\ \A i \in 1 .. l : NormalTree(K[i])
  BY DEF Normals
<1>1. CASE op \notin Associative
  BY <1>1 DEF Flattened
<1>2. CASE op \in Associative
  <2>1. ASSUME NEW i \in 1 .. l, IsOperator(K[i], op)
        PROVE  K[i].children \in Seq(S)
    <3>1. PICK c : c = K[i]
      OBVIOUS
    <3>2. IsTree(c) /\ IsNode(c) /\ Children(c) = c.children /\ Finite(c)
      BY <2>1, <3>1, NormalParts, TreeParts DEF IsOperator, Children
    <3>3. c.children \in Seq(ToSet(Children(c))) /\ ToSet(Children(c)) \subseteq Subtrees(c)
      BY <3>2, NodeChildren, SubtreeFacts
    <3>4. Subtrees(c) \subseteq S
      BY <3>1
    <3> HIDE DEF S
    <3>5. ToSet(Children(c)) \subseteq S
      BY <3>3, <3>4
    <3>6. c.children \in Seq(S)
      BY <3>3, <3>5
    <3>7. QED  BY <3>1, <3>6
  <2>2. \A i \in 1 .. l : K[i] \in S
    BY NormalParts
  <2> HIDE DEF S
  <2>3. K \in [1 .. l -> S]
    BY <2>2
  <2>4. K \in Seq(S) /\ Len(K) = l
    BY <2>3, FunctionIsSeq
  <2>5. ToSet(Flattened(op, K)) =
          UNION {IF IsOperator(K[i], op) THEN ToSet(K[i].children)
                 ELSE {K[i]} : i \in 1 .. Len(K)}
    BY <1>2, <2>1, <2>4, FlattenedFacts
  <2>6. ToSet(K) = {K[i] : i \in 1 .. l} /\ DOMAIN K = 1 .. l
    BY DEF ToSet
  <2>7. Spread(op, ToSet(K)) =
          UNION {IF IsOperator(K[i], op) THEN ToSet(K[i].children)
                 ELSE {K[i]} : i \in 1 .. l}
    <3>1. PICK T : T = ToSet(K)
      OBVIOUS
    <3>2. T = {K[i] : i \in 1 .. l}
      BY <2>6, <3>1
    <3>3. QED  BY ONLY <3>1, <3>2 DEF Spread
  <2>8. QED  BY <1>2, <2>4, <2>5, <2>7
<1>3. QED  BY <1>1, <1>2

-----------------------------------------------------------------------------
(* What a writing of a policy differs in does not reach its canonical form. *)

Canonicals(kids) == [i \in DOMAIN kids |-> Canonical(kids[i])]

\* Two nodes that differ in their children only have one canonical form where
\* their canonical children are the same.
LEMMA Rechildren ==
  ASSUME NEW n, IsNode(n), n.kind = "operator", NEW m \in Nat, NEW L,
         L = [i \in 1 .. m |-> L[i]], \A i \in 1 .. m : Finite(L[i]), NEW K,
         CanonicalChildren(n.operator, K) = CanonicalChildren(n.operator, Canonicals(L))
  PROVE  /\ Finite([n EXCEPT !.children = L])
         /\ Canonical([n EXCEPT !.children = L]) = CanonicalNode(n, K)
<1>1. PICK other : other = [n EXCEPT !.children = L]
  OBVIOUS
<1>2. n \in [kind : {"operator"}, operator : ToSet(Texts), children : {n.children},
             k : Optional(Int), weights : Optional(Seq(Int)), threshold : Optional(Int),
             weight : Optional(Int)]
  BY DEF IsNode
<1>3. /\ other.kind = "operator" /\ other.operator = n.operator /\ other.children = L
      /\ other.k = n.k /\ other.threshold = n.threshold
  BY <1>1, <1>2
<1>4. Children(other) = L
  BY <1>3 DEF Children
<1>5. DOMAIN L = 1 .. m /\ Len(L) = m
  <2> DEFINE S == {L[i] : i \in 1 .. m}
  <2>1. L \in [1 .. m -> S]
    OBVIOUS
  <2> HIDE DEF S
  <2>2. QED  BY <2>1, FunctionIsSeq
<1>6. Finite(other)
  <2>1. \A c \in ToSet(L) : Finite(c)
    BY <1>5 DEF ToSet
  <2>2. QED  BY <1>4, <1>5, <2>1, FiniteFrom
<1>7. PICK M : M = Canonicals(L)
  OBVIOUS
<1>8. Canonical(other) = CanonicalNode(other, M)
  BY <1>4, <1>6, <1>7, CanonicalRule DEF Canonicals
<1>9. PICK u : u = CanonicalChildren(n.operator, K) /\ u = CanonicalChildren(n.operator, M)
  BY <1>7
<1>10. CanonicalNode(other, M) =
         [other EXCEPT !.children = u, !.k = IF n.k = <<>> THEN n.threshold ELSE n.k,
                       !.threshold = <<>>]
  BY <1>3, <1>9 DEF CanonicalNode
<1>11. CanonicalNode(n, K) =
         [n EXCEPT !.children = u, !.k = IF n.k = <<>> THEN n.threshold ELSE n.k,
                   !.threshold = <<>>]
  BY <1>9 DEF CanonicalNode
<1>12. CanonicalNode(other, M) = CanonicalNode(n, K)
  BY <1>1, <1>2, <1>10, <1>11
<1>13. QED  BY <1>1, <1>6, <1>8, <1>12

\* An operator over l children, which are canonicalized one by one.
ParentOf(n, l) ==
  /\ IsNode(n) /\ n.kind = "operator" /\ n.operator \in Operators
  /\ l \in Nat /\ Len(n.children) = l /\ DOMAIN n.children = 1 .. l
  /\ n.children = [i \in 1 .. l |-> n.children[i]]
  /\ \A i \in 1 .. l : Finite(n.children[i]) /\ NormalTree(Canonical(n.children[i]))

LEMMA ChildrenCanonical ==
  ASSUME NEW n, IsTree(n), Known(n), n.kind = "operator"
  PROVE  /\ ParentOf(n, Len(n.children))
         /\ Canonical(n) = CanonicalNode(n, Canonicals(n.children))
<1>1. PICK kids : kids = n.children /\ Children(n) = kids
  BY DEF Children
<1>2. IsNode(n) /\ Finite(n) /\ n \in Subtrees(n) /\ \A c \in ToSet(kids) : IsTree(c)
  BY <1>1, TreeParts, SubtreeFacts
<1>3. PICK l \in Nat : /\ l = Len(kids) /\ DOMAIN kids = 1 .. l
                       /\ kids \in Seq(ToSet(kids)) /\ ToSet(kids) = {kids[i] : i \in 1 .. l}
  BY <1>1, <1>2, NodeChildren
<1>4. \A c \in ToSet(kids) : Subtrees(c) \subseteq Subtrees(n)
  BY <1>1, <1>2, SubtreeFacts
<1>5. \A c \in ToSet(kids) : Finite(c) /\ NormalTree(Canonical(c))
  <2> SUFFICES ASSUME NEW c \in ToSet(kids)  PROVE Finite(c) /\ NormalTree(Canonical(c))
    OBVIOUS
  <2>1. IsTree(c) /\ Finite(c)
    BY <1>2, TreeParts
  <2>2. Known(c)
    BY <1>4 DEF Known
  <2>3. QED  BY <2>1, <2>2, CanonicalIsNormal
<1>6. kids = [i \in 1 .. l |-> kids[i]]
  BY <1>3
<1>7. n.operator \in Operators
  BY <1>2 DEF Known
<1>8. ParentOf(n, l)
  <2>1. \A i \in 1 .. l : Finite(kids[i]) /\ NormalTree(Canonical(kids[i]))
    BY <1>3, <1>5
  <2>2. QED  BY <1>1, <1>2, <1>3, <1>6, <1>7, <2>1 DEF ParentOf
<1>9. Canonical(n) = CanonicalNode(n, Canonicals(kids))
  BY <1>1, <1>2, CanonicalRule DEF Canonicals
<1>10. QED  BY <1>1, <1>3, <1>8, <1>9

\* A writing that goes back to n.
Returns(other, n) == Finite(other) /\ Canonical(other) = CanonicalNode(n, Canonicals(n.children))

LEMMA ReplacedReturns ==
  ASSUME NEW n, NEW l, ParentOf(n, l), NEW j \in 1 .. l, NEW r, Finite(r),
         Canonical(r) = Canonical(n.children[j])
  PROVE  Returns([n EXCEPT !.children = ReplaceAt(n.children, j, r)], n)
<1>1. PICK kids : kids = n.children
  OBVIOUS
<1>2. PICK L : L = ReplaceAt(kids, j, r)
  OBVIOUS
<1>3. L = [i \in 1 .. l |-> L[i]] /\ \A i \in 1 .. l : L[i] = IF i = j THEN r ELSE kids[i]
  BY <1>1, <1>2 DEF ParentOf, ReplaceAt
<1>4. \A i \in 1 .. l : Finite(L[i]) /\ Canonical(L[i]) = Canonical(kids[i])
  <2> SUFFICES ASSUME NEW i \in 1 .. l
               PROVE  Finite(L[i]) /\ Canonical(L[i]) = Canonical(kids[i])
    OBVIOUS
  <2>1. CASE i = j
    <3>1. L[i] = r /\ kids[i] = n.children[j]
      BY <1>1, <1>3, <2>1
    <3>2. QED  BY <3>1
  <2>2. CASE i # j
    <3>1. L[i] = kids[i] /\ Finite(kids[i])
      BY <1>1, <1>3, <2>2 DEF ParentOf
    <3>2. QED  BY <3>1
  <2>3. QED  BY <2>1, <2>2
<1>5. Canonicals(L) = Canonicals(kids)
  BY <1>1, <1>3, <1>4 DEF ParentOf, Canonicals
<1>6. IsNode(n) /\ n.kind = "operator" /\ l \in Nat
  BY DEF ParentOf
<1>7. PICK K : K = Canonicals(kids)
  OBVIOUS
<1>8. /\ Finite([n EXCEPT !.children = L])
      /\ Canonical([n EXCEPT !.children = L]) = CanonicalNode(n, K)
  BY <1>3, <1>4, <1>5, <1>6, <1>7, Rechildren
<1>9. QED  BY <1>1, <1>2, <1>7, <1>8 DEF Returns

\* One operator over the same children, with k under its other name.
LEMMA RenamedReturns ==
  ASSUME NEW n, NEW l, ParentOf(n, l)
  PROVE  Returns([n EXCEPT !.k = <<>>,
                           !.threshold = IF n.k = <<>> THEN @ ELSE n.k], n)
<1>1. PICK other : other = [n EXCEPT !.k = <<>>, !.threshold = IF n.k = <<>> THEN @ ELSE n.k]
  OBVIOUS
<1>2. n \in [kind : {"operator"}, operator : ToSet(Texts), children : {n.children},
             k : Optional(Int), weights : Optional(Seq(Int)), threshold : Optional(Int),
             weight : Optional(Int)]
  BY DEF ParentOf, IsNode
<1>3. /\ other.kind = "operator" /\ other.operator = n.operator
      /\ other.children = n.children /\ other.k = <<>>
      /\ other.threshold = IF n.k = <<>> THEN n.threshold ELSE n.k
  BY <1>1, <1>2
<1>4. Children(other) = n.children
  BY <1>3 DEF Children
<1>5. Finite(other)
  <2>1. \A c \in ToSet(n.children) : Finite(c)
    BY DEF ParentOf, ToSet
  <2>2. QED  BY <1>4, <2>1, FiniteFrom DEF ParentOf
<1>6. PICK K : K = Canonicals(n.children)
  OBVIOUS
<1>7. Canonical(other) = CanonicalNode(other, K)
  BY <1>4, <1>5, <1>6, CanonicalRule DEF Canonicals
<1>8. PICK u : u = CanonicalChildren(n.operator, K)
  OBVIOUS
<1>9. CanonicalNode(other, K) =
        [other EXCEPT !.children = u, !.k = other.threshold, !.threshold = <<>>]
  BY <1>3, <1>8 DEF CanonicalNode
<1>10. CanonicalNode(n, K) =
         [n EXCEPT !.children = u, !.k = IF n.k = <<>> THEN n.threshold ELSE n.k,
                   !.threshold = <<>>]
  BY <1>2, <1>8 DEF CanonicalNode
<1>11. CanonicalNode(other, K) = CanonicalNode(n, K)
  BY <1>1, <1>2, <1>3, <1>9, <1>10
<1>12. QED  BY <1>1, <1>5, <1>6, <1>7, <1>11 DEF Returns

\* What an operator that does not mind repetition forgets.
LEMMA SameSetReturns ==
  ASSUME NEW n, NEW l, ParentOf(n, l), n.operator \in DuplicateInsensitive,
         NEW m \in Nat, NEW L, L = [i \in 1 .. m |-> L[i]],
         \A i \in 1 .. m : Finite(L[i]) /\ NormalTree(Canonical(L[i])),
         ToSet(Flattened(n.operator, Canonicals(n.children))) =
           ToSet(Flattened(n.operator, Canonicals(L)))
  PROVE  Returns([n EXCEPT !.children = L], n)
<1>1. PICK K, M : K = Canonicals(n.children) /\ M = Canonicals(L)
  OBVIOUS
<1>2. Normals(K, l)
  BY <1>1 DEF ParentOf, Canonicals, Normals
<1>3. Normals(M, m)
  BY <1>1 DEF Canonicals, Normals
<1>4. IsNode(n) /\ n.kind = "operator" /\ l \in Nat
  BY DEF ParentOf
<1>5. CanonicalChildren(n.operator, K) = CanonicalChildren(n.operator, M)
  BY <1>1, <1>2, <1>3, <1>4, ChildrenOfSet
<1>6. /\ Finite([n EXCEPT !.children = L])
      /\ Canonical([n EXCEPT !.children = L]) = CanonicalNode(n, K)
  BY <1>1, <1>4, <1>5, Rechildren
<1>7. QED  BY <1>1, <1>6 DEF Returns

LEMMA ReversedReturns ==
  ASSUME NEW n, NEW l, ParentOf(n, l), n.operator \in Commutative
  PROVE  Returns([n EXCEPT !.children = Reverse(n.children)], n)
<1>1. PICK kids, L : kids = n.children /\ L = Reverse(kids)
  OBVIOUS
<1>2. PICK K, M : K = Canonicals(kids) /\ M = Canonicals(L)
  OBVIOUS
<1>3. l \in Nat /\ Len(kids) = l /\ DOMAIN kids = 1 .. l
  BY <1>1 DEF ParentOf
<1>4. \A i \in 1 .. l : (l - i) + 1 \in 1 .. l /\ (l - ((l - i) + 1)) + 1 = i
  BY <1>3
<1>5. L = [i \in 1 .. l |-> L[i]] /\ \A i \in 1 .. l : L[i] = kids[(l - i) + 1]
  BY <1>1, <1>3 DEF Reverse
<1>6. \A i \in 1 .. l : Finite(L[i]) /\ NormalTree(Canonical(L[i]))
  BY <1>1, <1>4, <1>5 DEF ParentOf
<1>7. /\ K = [i \in 1 .. l |-> K[i]] /\ M = [i \in 1 .. l |-> M[i]]
      /\ \A i \in 1 .. l : M[i] = K[(l - i) + 1]
      /\ \A i \in 1 .. l : NormalTree(K[i]) /\ NormalTree(M[i])
  <2>1. DOMAIN L = 1 .. l
    BY <1>5
  <2>2. K = [i \in 1 .. l |-> Canonical(kids[i])] /\ M = [i \in 1 .. l |-> Canonical(L[i])]
    BY <1>2, <1>3, <2>1 DEF Canonicals
  <2>3. \A i \in 1 .. l : M[i] = K[(l - i) + 1]
    BY <1>4, <1>5, <2>2
  <2>4. \A i \in 1 .. l : NormalTree(K[i]) /\ NormalTree(M[i])
    BY <1>1, <1>6, <2>2 DEF ParentOf
  <2>5. QED  BY <2>2, <2>3, <2>4
<1> Normals(K, l) /\ Normals(M, l)
  BY <1>3, <1>7 DEF Normals
<1>8. CASE n.operator \in DuplicateInsensitive
  <2>1. ToSet(K) = ToSet(M)
    <3>1. ToSet(K) = {K[i] : i \in 1 .. l} /\ ToSet(M) = {M[i] : i \in 1 .. l}
      BY <1>7 DEF ToSet
    <3>2. \A i \in 1 .. l : K[i] = M[(l - i) + 1]
      BY <1>4, <1>7
    <3>3. (\A i \in 1 .. l : K[i] \in ToSet(M)) /\ \A i \in 1 .. l : M[i] \in ToSet(K)
      BY <1>4, <1>7, <3>1, <3>2
    <3>4. QED  BY <3>1, <3>3
  <2>2. ToSet(Flattened(n.operator, K)) = ToSet(Flattened(n.operator, M))
    BY <2>1, FlattenedSpread
  <2>3. QED  BY <1>1, <1>2, <1>3, <1>5, <1>6, <1>8, <2>2, SameSetReturns
<1>9. CASE n.operator \notin DuplicateInsensitive
  <2>1. n.operator \notin Associative
    BY <1>9 DEF Associative, DuplicateInsensitive
  <2>2. SameCounts(K, M)
    <3>1. PICK p : p = [i \in 1 .. l |-> (l - i) + 1]
      OBVIOUS
    <3>2. DOMAIN K = 1 .. l /\ DOMAIN M = 1 .. l
      BY <1>7
    <3>3. /\ p \in [1 .. l -> 1 .. l]
          /\ \A i, j \in 1 .. l : p[i] = p[j] => i = j
          /\ \A i \in 1 .. l : \E j \in 1 .. l : p[j] = i
      <4>1. \A i \in 1 .. l : p[i] = (l - i) + 1
        BY <3>1
      <4>2. p \in [1 .. l -> 1 .. l]
        BY <1>4, <3>1
      <4>3. \A i, j \in 1 .. l : p[i] = p[j] => i = j
        BY <1>3, <4>1
      <4>4. \A i \in 1 .. l : p[(l - i) + 1] = i
        BY <1>4, <4>1
      <4>5. QED  BY <1>4, <4>2, <4>3, <4>4
    <3>4. p \in Bijection(1 .. l, 1 .. l)
      BY <3>3 DEF Bijection, Injection, Surjection, IsInjective
    <3>5. \A i \in 1 .. l : M[i] = K[p[i]]
      BY <1>7, <3>1
    <3>6. Permutes(p, K, M)
      BY <3>2, <3>4, <3>5 DEF Permutes
    <3>7. QED  BY <1>3, <3>2, <3>6, PermutesCounts
  <2>3. CanonicalChildren(n.operator, K) = CanonicalChildren(n.operator, M)
    BY <2>1, <2>2, ChildrenOfCounts
  <2>4. IsNode(n) /\ n.kind = "operator"
    BY DEF ParentOf
  <2>5. /\ Finite([n EXCEPT !.children = L])
        /\ Canonical([n EXCEPT !.children = L]) = CanonicalNode(n, K)
    BY <1>2, <1>3, <1>5, <1>6, <2>3, <2>4, Rechildren
  <2>6. QED  BY <1>1, <1>2, <2>5 DEF Returns
<1>10. QED  BY <1>8, <1>9

LEMMA RepeatedReturns ==
  ASSUME NEW n, NEW l, ParentOf(n, l), n.operator \in DuplicateInsensitive, l # 0
  PROVE  Returns([n EXCEPT !.children = Append(n.children, n.children[1])], n)
<1>1. PICK kids, L : kids = n.children /\ L = Append(kids, kids[1])
  OBVIOUS
<1>2. l \in Nat /\ Len(kids) = l /\ DOMAIN kids = 1 .. l /\ l + 1 \in Nat /\ 1 \in 1 .. l
      /\ kids = [i \in 1 .. l |-> kids[i]]
  BY <1>1 DEF ParentOf
<1>3. L = [i \in 1 .. l + 1 |-> L[i]] /\ \A i \in 1 .. l + 1 : L[i] = IF i <= l THEN kids[i] ELSE kids[1]
  <2> DEFINE S == {kids[i] : i \in 1 .. l}
  <2>1. kids \in [1 .. l -> S]
    BY <1>2
  <2> HIDE DEF S
  <2>2. kids \in Seq(S) /\ kids[1] \in S
    BY <1>2, <2>1, FunctionIsSeq
  <2>3. L \in Seq(S) /\ Len(L) = l + 1
        /\ \A i \in 1 .. l + 1 : L[i] = IF i <= l THEN kids[i] ELSE kids[1]
    BY <1>1, <1>2, <2>2
  <2>4. L = [i \in 1 .. l + 1 |-> L[i]]
    BY <2>3
  <2>5. QED  BY <2>3, <2>4
<1>4. \A i \in 1 .. l + 1 : Finite(L[i]) /\ NormalTree(Canonical(L[i]))
  <2>1. \A i \in 1 .. l + 1 : \E j \in 1 .. l : L[i] = kids[j]
    BY <1>2, <1>3
  <2>2. \A j \in 1 .. l : Finite(kids[j]) /\ NormalTree(Canonical(kids[j]))
    BY <1>1 DEF ParentOf
  <2>3. QED  BY <2>1, <2>2
<1>5. PICK K, M : K = Canonicals(kids) /\ M = Canonicals(L)
  OBVIOUS
<1>6. /\ K = [i \in 1 .. l |-> K[i]] /\ \A i \in 1 .. l : NormalTree(K[i])
      /\ M = [i \in 1 .. l + 1 |-> M[i]] /\ \A i \in 1 .. l + 1 : NormalTree(M[i])
      /\ \A i \in 1 .. l + 1 : M[i] = IF i <= l THEN K[i] ELSE K[1]
  <2>1. DOMAIN L = 1 .. l + 1
    BY <1>3
  <2>2. K = [i \in 1 .. l |-> Canonical(kids[i])] /\ M = [i \in 1 .. l + 1 |-> Canonical(L[i])]
    BY <1>2, <1>5, <2>1 DEF Canonicals
  <2>3. \A i \in 1 .. l + 1 : M[i] = IF i <= l THEN K[i] ELSE K[1]
    BY <1>2, <1>3, <2>2
  <2>4. (\A i \in 1 .. l : NormalTree(K[i])) /\ \A i \in 1 .. l + 1 : NormalTree(M[i])
    BY <1>1, <1>4, <2>2 DEF ParentOf
  <2>5. QED  BY <2>2, <2>3, <2>4
<1>7. ToSet(K) = ToSet(M)
  <2>1. ToSet(K) = {K[i] : i \in 1 .. l} /\ ToSet(M) = {M[i] : i \in 1 .. l + 1}
    BY <1>6 DEF ToSet
  <2>2. \A i \in 1 .. l + 1 : \E j \in 1 .. l : M[i] = K[j]
    BY <1>2, <1>6
  <2>3. \A i \in 1 .. l : i \in 1 .. l + 1 /\ M[i] = K[i]
    BY <1>2, <1>6
  <2>4. QED  BY <2>1, <2>2, <2>3
<1>8. ToSet(Flattened(n.operator, K)) = ToSet(Flattened(n.operator, M))
  <2>1. Normals(K, l) /\ Normals(M, l + 1)
    BY <1>2, <1>6 DEF Normals
  <2>2. QED  BY <1>7, <2>1, FlattenedSpread
<1>9. QED  BY <1>1, <1>2, <1>3, <1>4, <1>5, <1>8, SameSetReturns

LEMMA SpreadUnion ==
  ASSUME NEW op, NEW S, NEW T
  PROVE  Spread(op, S \cup T) = Spread(op, S) \cup Spread(op, T)
BY DEF Spread

LEMMA SpreadOne ==
  ASSUME NEW op, NEW c, IsOperator(c, op)
  PROVE  Spread(op, {c}) = ToSet(c.children)
BY DEF Spread

\* The first of n's children grouped under an operator of their own.
LEMMA GroupFacts ==
  ASSUME NEW n, NEW l, ParentOf(n, l), n.operator \in Associative, NEW j \in 1 .. l
  PROVE  \A g : g = Operator(n.operator, SubSeq(n.children, 1, j)) =>
           /\ Finite(g) /\ NormalTree(Canonical(g)) /\ IsOperator(Canonical(g), n.operator)
           /\ ToSet(Canonical(g).children) =
                Spread(n.operator, {Canonical(n.children[i]) : i \in 1 .. j})
<1> SUFFICES ASSUME NEW g, g = Operator(n.operator, SubSeq(n.children, 1, j))
             PROVE  /\ Finite(g) /\ NormalTree(Canonical(g)) /\ IsOperator(Canonical(g), n.operator)
                    /\ ToSet(Canonical(g).children) =
                         Spread(n.operator, {Canonical(n.children[i]) : i \in 1 .. j})
  OBVIOUS
<1>1. PICK op, kids, H : op = n.operator /\ kids = n.children /\ H = SubSeq(kids, 1, j)
  OBVIOUS
<1>2. /\ l \in Nat /\ Len(kids) = l /\ DOMAIN kids = 1 .. l /\ kids = [i \in 1 .. l |-> kids[i]]
      /\ \A i \in 1 .. l : Finite(kids[i]) /\ NormalTree(Canonical(kids[i]))
  BY <1>1 DEF ParentOf
<1>3. j \in Nat /\ j <= l /\ \A i \in 1 .. j : i \in 1 .. l
  <2>1. l \in Nat
    BY <1>2
  <2>2. QED  BY ONLY <2>1, j \in 1 .. l
<1>4. H = [i \in 1 .. j |-> H[i]] /\ Len(H) = j /\ H \in Seq(ToSet(H))
      /\ \A i \in 1 .. j : H[i] = kids[i]
  <2> DEFINE S == {kids[i] : i \in 1 .. l}
  <2>1. kids \in [1 .. l -> S]
    BY <1>2
  <2> HIDE DEF S
  <2>2. kids \in Seq(S)
    BY <1>2, <2>1, FunctionIsSeq
  <2>3. Len(H) = j /\ \A i \in 1 .. j : H[i] = kids[i]
    BY <1>1, <1>2, <1>3, <2>2
  <2>4. H = [i \in 1 .. j |-> H[i]]
    BY <1>1, <1>2, <1>3, <2>2
  <2>5. H \in [1 .. j -> ToSet(H)]
    <3>1. \A i \in 1 .. j : H[i] \in ToSet(H)
      BY <2>4 DEF ToSet
    <3>2. QED  BY <2>4, <3>1
  <2>6. H \in Seq(ToSet(H))
    BY <1>3, <2>5, FunctionIsSeq
  <2>7. QED  BY <2>3, <2>4, <2>6
<1>5. /\ g.kind = "operator" /\ g.operator = op /\ g.children = H
      /\ Children(g) = H
  BY <1>1 DEF Operator, Children
<1>6. op \in ToSet(Texts) /\ op \in Operators
  BY <1>1 DEF ParentOf, IsNode
<1>7. IsNode(g)
  <2>1. <<>> \in Optional(Int) /\ <<>> \in Optional(Seq(Int))
    <3>1. <<>> \in Seq(Int) /\ <<>> \in Seq(Seq(Int)) /\ Len(<<>>) = 0
      OBVIOUS
    <3>2. QED  BY <3>1 DEF Optional
  <2>2. g \in [kind : {"operator"}, operator : ToSet(Texts), children : {g.children},
               k : Optional(Int), weights : Optional(Seq(Int)), threshold : Optional(Int),
               weight : Optional(Int)]
    BY <1>1, <1>5, <1>6, <2>1 DEF Operator
  <2>3. QED  BY <1>4, <1>5, <2>2 DEF IsNode
<1>8. Finite(g)
  <2>1. DOMAIN H = 1 .. j
    BY <1>4
  <2>2. \A c \in ToSet(H) : Finite(c)
    <3> SUFFICES ASSUME NEW c \in ToSet(H)  PROVE Finite(c)
      OBVIOUS
    <3>1. PICK i \in 1 .. j : c = H[i]
      BY <2>1 DEF ToSet
    <3>2. i \in 1 .. l /\ c = kids[i]
      BY <1>2, <1>3, <1>4, <3>1
    <3>3. QED  BY <1>2, <3>2
  <2>3. QED  BY <1>3, <1>4, <1>5, <2>1, <2>2, FiniteFrom
<1>9. PICK M, u : M = Canonicals(H) /\ u = CanonicalChildren(op, M)
  OBVIOUS
<1>10. Canonical(g) = CanonicalNode(g, M)
  BY <1>5, <1>8, <1>9, CanonicalRule DEF Canonicals
<1>11. Normals(M, j) /\ \A i \in 1 .. j : M[i] = Canonical(kids[i])
  <2>1. M = [i \in 1 .. j |-> Canonical(H[i])]
    <3>1. DOMAIN H = 1 .. j
      BY <1>4
    <3>2. QED  BY <1>9, <3>1 DEF Canonicals
  <2>2. \A i \in 1 .. j : M[i] = Canonical(kids[i]) /\ NormalTree(M[i])
    <3> SUFFICES ASSUME NEW i \in 1 .. j
                 PROVE  M[i] = Canonical(kids[i]) /\ NormalTree(M[i])
      OBVIOUS
    <3>1. i \in 1 .. l /\ H[i] = kids[i] /\ M[i] = Canonical(H[i])
      BY <1>2, <1>3, <1>4, <2>1
    <3>2. NormalTree(Canonical(kids[i]))
      BY <1>2, <3>1
    <3>3. QED  BY <3>1, <3>2
  <2>3. QED  BY <1>3, <2>1, <2>2 DEF Normals
<1>12. /\ NormalTree(Canonical(g)) /\ SameHead(g, Canonical(g)) /\ Canonical(g).children = u
       /\ ToSet(u) = ToSet(Flattened(op, M))
  BY <1>5, <1>6, <1>7, <1>9, <1>10, <1>11, CanonicalOperator DEF Normals
<1>13. ToSet(Flattened(op, M)) = Spread(op, ToSet(M))
  BY <1>1, <1>11, FlattenedSpread
<1>14. ToSet(M) = {Canonical(kids[i]) : i \in 1 .. j}
  <2>1. DOMAIN M = 1 .. j
    BY <1>11 DEF Normals
  <2>2. QED  BY <1>11, <2>1 DEF ToSet
<1>15. IsOperator(Canonical(g), op)
  BY <1>5, <1>12 DEF SameHead, IsOperator
<1>16. PICK T : T = ToSet(M)
  OBVIOUS
<1>17. ToSet(Canonical(g).children) = Spread(op, T) /\ T = {Canonical(kids[i]) : i \in 1 .. j}
  BY <1>12, <1>13, <1>14, <1>16
<1>18. T = {Canonical(n.children[i]) : i \in 1 .. j}
  BY <1>1, <1>17
<1>19. QED  BY <1>1, <1>8, <1>12, <1>15, <1>17, <1>18

LEMMA GroupedReturns ==
  ASSUME NEW n, NEW l, ParentOf(n, l), n.operator \in Associative, NEW j \in 1 .. l
  PROVE  Returns([n EXCEPT !.children = <<Operator(n.operator, SubSeq(n.children, 1, j))>>
                                        \o SubSeq(n.children, j + 1, l)], n)
<1>1. PICK op, kids, g, L : /\ op = n.operator /\ kids = n.children
                            /\ g = Operator(op, SubSeq(kids, 1, j))
                            /\ L = <<g>> \o SubSeq(kids, j + 1, l)
  OBVIOUS
<1>2. /\ l \in Nat /\ Len(kids) = l /\ DOMAIN kids = 1 .. l /\ kids = [i \in 1 .. l |-> kids[i]]
      /\ \A i \in 1 .. l : Finite(kids[i]) /\ NormalTree(Canonical(kids[i]))
  BY <1>1 DEF ParentOf
<1>3. PICK m \in Nat : m = (l - j) + 1
  BY <1>2
<1>4. L = [i \in 1 .. m |-> L[i]]
      /\ \A i \in 1 .. m : L[i] = IF i = 1 THEN g ELSE kids[i + j - 1]
  <2> DEFINE S == {kids[i] : i \in 1 .. l} \cup {g}
  <2>1. kids \in [1 .. l -> S]
    BY <1>2
  <2>2. g \in S
    OBVIOUS
  <2> HIDE DEF S
  <2>3. kids \in Seq(S)
    BY <1>2, <2>1, FunctionIsSeq
  <2>4. PICK t : t = SubSeq(kids, j + 1, l)
    OBVIOUS
  <2>5. t \in Seq(S) /\ Len(t) = l - j /\ \A i \in 1 .. l - j : t[i] = kids[i + j]
    <3>1. j + 1 \in Int /\ l \in Int /\ l - (j + 1) + 1 = l - j
          /\ (IF j + 1 <= l THEN l - (j + 1) + 1 ELSE 0) = l - j
      BY <1>2
    <3>2. \A i \in j + 1 .. l : kids[i] \in S
      BY <1>2, <2>3
    <3>3. /\ t \in Seq(S) /\ Len(t) = IF j + 1 <= l THEN l - (j + 1) + 1 ELSE 0
          /\ \A i \in 1 .. l - (j + 1) + 1 : t[i] = kids[(j + 1) + i - 1]
      BY ONLY <2>4, <3>1, <3>2, SubSeqProperties
    <3>4. \A i \in 1 .. l - j : i \in 1 .. l - (j + 1) + 1 /\ (j + 1) + i - 1 = i + j
      BY <1>2
    <3>5. \A i \in 1 .. l - j : t[i] = kids[i + j]
      BY ONLY <3>3, <3>4
    <3>6. QED  BY <3>1, <3>3, <3>5
  <2>6. <<g>> \in Seq(S) /\ Len(<<g>>) = 1 /\ <<g>>[1] = g
    BY <2>2
  <2>7. L \in Seq(S) /\ Len(L) = m
    <3>1. L = <<g>> \o t
      BY <1>1, <2>4
    <3>2. L \in Seq(S) /\ Len(L) = Len(<<g>>) + Len(t)
      BY ONLY <2>5, <2>6, <3>1, ConcatProperties
    <3>3. QED  BY <1>2, <1>3, <2>5, <2>6, <3>2
  <2>8. \A i \in 1 .. m : L[i] = IF i = 1 THEN g ELSE kids[i + j - 1]
    <3> SUFFICES ASSUME NEW i \in 1 .. m
                 PROVE  L[i] = IF i = 1 THEN g ELSE kids[i + j - 1]
      OBVIOUS
    <3>1. PICK q : q = <<g>>
      OBVIOUS
    <3>2. q \in Seq(S) /\ Len(q) = 1 /\ q[1] = g /\ L = q \o t
      BY <1>1, <2>4, <2>6, <3>1
    <3>3. i \in 1 .. Len(q) + Len(t)
      BY <1>2, <1>3, <2>5, <3>2
    <3>4. L[i] = IF i <= Len(q) THEN q[i] ELSE t[i - Len(q)]
      BY ONLY <2>5, <3>2, <3>3, ConcatProperties
    <3>5. CASE i = 1
      BY <3>2, <3>4, <3>5
    <3>6. CASE i # 1
      <4>1. i - 1 \in 1 .. l - j /\ ~(i <= 1) /\ (i - 1) + j = i + j - 1
        BY <1>2, <1>3, <3>6
      <4>2. L[i] = t[i - 1]
        BY <3>2, <3>4, <4>1
      <4>3. QED  BY <2>5, <3>6, <4>1, <4>2
    <3>7. QED  BY <3>5, <3>6
  <2>9. L = [i \in 1 .. m |-> L[i]]
    BY <2>7
  <2>10. QED  BY <2>8, <2>9
<1>5. /\ Finite(g) /\ NormalTree(Canonical(g)) /\ IsOperator(Canonical(g), op)
      /\ ToSet(Canonical(g).children) = Spread(op, {Canonical(kids[i]) : i \in 1 .. j})
  BY <1>1, GroupFacts
<1>6. \A i \in 1 .. m : i # 1 => i + j - 1 \in 1 .. l
  BY <1>2, <1>3
<1>7. \A i \in 1 .. m : Finite(L[i]) /\ NormalTree(Canonical(L[i]))
  <2> SUFFICES ASSUME NEW i \in 1 .. m
               PROVE  Finite(L[i]) /\ NormalTree(Canonical(L[i]))
    OBVIOUS
  <2>1. CASE i = 1
    <3>1. L[i] = g
      BY <1>4, <2>1
    <3>2. QED  BY <1>5, <3>1
  <2>2. CASE i # 1
    <3>1. PICK h \in 1 .. l : L[i] = kids[h]
      BY <1>4, <1>6, <2>2
    <3>2. QED  BY <1>2, <3>1
  <2>3. QED  BY <2>1, <2>2
<1>8. PICK K, M, c : K = Canonicals(kids) /\ M = Canonicals(L) /\ c = Canonical(g)
  OBVIOUS
<1>9. K = [i \in 1 .. l |-> Canonical(kids[i])] /\ Normals(K, l)
  BY <1>2, <1>8 DEF Canonicals, Normals
<1>10. M = [i \in 1 .. m |-> Canonical(L[i])] /\ Normals(M, m)
  <2>1. DOMAIN L = 1 .. m
    BY <1>4
  <2>2. QED  BY <1>7, <1>8, <2>1 DEF Canonicals, Normals
<1>11. PICK A, B : A = {K[i] : i \in 1 .. j} /\ B = {K[i] : i \in j + 1 .. l}
  OBVIOUS
<1>12. ToSet(K) = A \cup B
  <2>1. ToSet(K) = {K[i] : i \in 1 .. l}
    BY <1>9 DEF ToSet
  <2>2. \A i : i \in 1 .. l <=> i \in 1 .. j \/ i \in j + 1 .. l
    BY <1>2
  <2>3. QED  BY ONLY <1>11, <2>1, <2>2
<1>13. ToSet(M) = {c} \cup B
  <2>1. ToSet(M) = {M[i] : i \in 1 .. m}
    BY <1>10 DEF ToSet
  <2>2. 1 \in 1 .. m /\ M[1] = c
    <3>1. 1 \in 1 .. m
      BY <1>2, <1>3
    <3>2. L[1] = g
      BY <1>4, <3>1
    <3>3. M[1] = Canonical(L[1])
      BY <1>10, <3>1
    <3>4. QED  BY <1>8, <3>1, <3>2, <3>3
  <2>3. \A i \in 1 .. m : i # 1 => i + j - 1 \in j + 1 .. l /\ M[i] = K[i + j - 1]
    <3> SUFFICES ASSUME NEW i \in 1 .. m, i # 1
                 PROVE  i + j - 1 \in j + 1 .. l /\ M[i] = K[i + j - 1]
      OBVIOUS
    <3>1. PICK h : h = i + j - 1
      OBVIOUS
    <3>2. h \in j + 1 .. l /\ h \in 1 .. l
      BY <1>2, <1>3, <3>1
    <3>3. L[i] = kids[h]
      BY <1>4, <3>1
    <3>4. M[i] = Canonical(L[i]) /\ K[h] = Canonical(kids[h])
      BY <1>9, <1>10, <3>2
    <3>5. QED  BY <3>1, <3>2, <3>3, <3>4
  <2>4. \A i \in j + 1 .. l : (i - j) + 1 \in 1 .. m /\ M[(i - j) + 1] = K[i]
    <3> SUFFICES ASSUME NEW i \in j + 1 .. l
                 PROVE  (i - j) + 1 \in 1 .. m /\ M[(i - j) + 1] = K[i]
      OBVIOUS
    <3>1. PICK h : h = (i - j) + 1
      OBVIOUS
    <3>2. h \in 1 .. m /\ h # 1 /\ h + j - 1 = i
      BY <1>2, <1>3, <3>1
    <3>3. M[h] = K[h + j - 1]
      BY <2>3, <3>2
    <3>4. QED  BY <3>1, <3>2, <3>3
  <2>5. \A i \in 1 .. m : M[i] \in {c} \cup B
    BY <1>11, <2>2, <2>3
  <2>6. c \in ToSet(M) /\ \A i \in j + 1 .. l : K[i] \in ToSet(M)
    BY <2>1, <2>2, <2>4
  <2>7. QED  BY <1>11, <2>1, <2>5, <2>6
<1>14. A = {Canonical(kids[i]) : i \in 1 .. j}
  <2>1. \A i \in 1 .. j : K[i] = Canonical(kids[i])
    BY <1>2, <1>9
  <2>2. QED  BY <1>11, <2>1
<1>15. Spread(op, {c}) = Spread(op, A)
  BY <1>5, <1>8, <1>14, SpreadOne
<1>16. Spread(op, {c} \cup B) = Spread(op, A \cup B)
  <2>1. Spread(op, {c} \cup B) = Spread(op, {c}) \cup Spread(op, B)
    BY ONLY SpreadUnion
  <2>2. Spread(op, A \cup B) = Spread(op, A) \cup Spread(op, B)
    BY ONLY SpreadUnion
  <2>3. QED  BY <1>15, <2>1, <2>2
<1>17. ToSet(Flattened(op, K)) = Spread(op, A \cup B)
       /\ ToSet(Flattened(op, M)) = Spread(op, {c} \cup B)
  <2>1. ToSet(Flattened(op, K)) = Spread(op, ToSet(K))
        /\ ToSet(Flattened(op, M)) = Spread(op, ToSet(M))
    BY <1>1, <1>9, <1>10, FlattenedSpread
  <2>2. QED  BY <1>12, <1>13, <2>1
<1>18. n.operator \in DuplicateInsensitive
  BY DEF Associative, DuplicateInsensitive
<1>19. ToSet(Flattened(op, K)) = ToSet(Flattened(op, M))
  BY <1>16, <1>17
<1>20. ToSet(Flattened(n.operator, Canonicals(n.children))) =
         ToSet(Flattened(n.operator, Canonicals(L)))
  BY <1>1, <1>8, <1>19
<1>21. L = [i \in 1 .. m |-> L[i]]
  BY <1>4
<1>22. Returns([n EXCEPT !.children = L], n)
  BY ONLY ParentOf(n, l), m \in Nat, <1>7, <1>18, <1>20, <1>21, SameSetReturns
<1>23. L = <<Operator(n.operator, SubSeq(n.children, 1, j))>> \o SubSeq(n.children, j + 1, l)
  BY <1>1
<1>24. QED  BY <1>22, <1>23

LEMMA CanonicalizesKnown ==
  ASSUME NEW root, Canonicalizes(root)
  PROVE  Known(root)
BY DEF Canonicalizes, NodeAccepted, Known

\* What canonicalizePolicyAst takes, with the fields the types give it.
Writable(root) == IsTree(root) /\ Canonicalizes(root)

LEMMA WritableParts ==
  ASSUME NEW n, Writable(n)
  PROVE  /\ IsNode(n) /\ Finite(n) /\ NodeAccepted(n) /\ Known(n)
         /\ \A c \in ToSet(Children(n)) : Writable(c)
<1>1. IsTree(n) /\ Canonicalizes(n)
  BY DEF Writable
<1>2. IsNode(n) /\ Finite(n) /\ \A c \in ToSet(Children(n)) : IsTree(c)
  BY <1>1, TreeParts
<1>3. n \in Subtrees(n) /\ ToSet(Children(n)) \subseteq Subtrees(n)
      /\ \A m \in Subtrees(n) : Subtrees(m) \subseteq Subtrees(n)
  BY <1>2, SubtreeFacts
<1>4. NodeAccepted(n) /\ \A c \in ToSet(Children(n)) : Canonicalizes(c)
  BY <1>1, <1>3 DEF Canonicalizes
<1>5. Known(n)
  BY <1>1, CanonicalizesKnown
<1>6. QED  BY <1>2, <1>4, <1>5 DEF Writable

LEMMA WritableFrom ==
  ASSUME NEW n, IsNode(n), NodeAccepted(n), \A c \in ToSet(Children(n)) : Writable(c)
  PROVE  Writable(n)
<1>1. \A c \in ToSet(Children(n)) : IsTree(c) /\ Canonicalizes(c)
  BY DEF Writable
<1>2. IsTree(n)
  BY <1>1, TreeFrom
<1>3. Subtrees(n) = {n} \cup UNION {Subtrees(c) : c \in ToSet(Children(n))}
  BY <1>2, TreeParts, SubtreeFacts
<1>4. \A m \in Subtrees(n) : NodeAccepted(m)
  BY <1>1, <1>3 DEF Canonicalizes
<1>5. QED  BY <1>2, <1>4 DEF Writable, Canonicalizes

\* A sequence over a set is one over what it holds.
LEMMA RowOfSet ==
  ASSUME NEW S, NEW L \in Seq(S)
  PROVE  L \in Seq(ToSet(L)) /\ ToSet(L) \subseteq S
<1>1. PICK m \in Nat : DOMAIN L = 1 .. m /\ Len(L) = m
  BY LenProperties
<1>2. L = [i \in 1 .. m |-> L[i]] /\ \A i \in 1 .. m : L[i] \in S
  BY <1>1
<1>3. \A i \in 1 .. m : L[i] \in ToSet(L)
  BY <1>1 DEF ToSet
<1>4. L \in [1 .. m -> ToSet(L)]
  BY <1>2, <1>3
<1>5. L \in Seq(ToSet(L))
  BY ONLY <1>4, m \in Nat, FunctionIsSeq
<1>6. QED  BY <1>1, <1>2, <1>5 DEF ToSet

\* An operator stays one that is taken over other children that are.
LEMMA WritableOver ==
  ASSUME NEW n, IsNode(n), NodeAccepted(n), n.kind = "operator",
         NEW S, \A c \in S : Writable(c), NEW L \in Seq(S), L # <<>>,
         n.operator \in Unary => Len(L) = 1
  PROVE  Writable([n EXCEPT !.children = L])
<1>1. PICK other : other = [n EXCEPT !.children = L]
  OBVIOUS
<1>2. n \in [kind : {"operator"}, operator : ToSet(Texts), children : {n.children},
             k : Optional(Int), weights : Optional(Seq(Int)), threshold : Optional(Int),
             weight : Optional(Int)]
  BY DEF IsNode
<1>3. /\ other.kind = "operator" /\ other.operator = n.operator /\ other.children = L
      /\ other.k = n.k /\ other.threshold = n.threshold /\ other.weights = n.weights
      /\ other.weight = n.weight
  BY <1>1, <1>2
<1>4. other \in [kind : {"operator"}, operator : ToSet(Texts), children : {other.children},
                 k : Optional(Int), weights : Optional(Seq(Int)), threshold : Optional(Int),
                 weight : Optional(Int)]
  BY <1>1, <1>2
<1>5. L \in Seq(ToSet(L)) /\ ToSet(L) \subseteq S
  BY RowOfSet
<1>6. IsNode(other)
  BY <1>3, <1>4, <1>5 DEF IsNode
<1>7. NodeAccepted(other)
  <2>1. OperatorParamsAccepted(other)
    <3>1. OperatorParamsAccepted(n)
      BY DEF NodeAccepted
    <3>2. QED  BY <1>3, <3>1 DEF OperatorParamsAccepted
  <2>2. Every(other.weight, IsCount)
    BY <1>3 DEF NodeAccepted
  <2>3. n.operator \in Operators
    BY DEF NodeAccepted
  <2>4. QED  BY <1>3, <2>1, <2>2, <2>3 DEF NodeAccepted
<1>8. Children(other) = L
  BY <1>3 DEF Children
<1>9. Writable(other)
  BY <1>5, <1>6, <1>7, <1>8, WritableFrom
<1>10. QED  BY <1>1, <1>9

LEMMA RenamedWritable ==
  ASSUME NEW n, Writable(n), n.kind = "operator"
  PROVE  Writable([n EXCEPT !.k = <<>>, !.threshold = IF n.k = <<>> THEN @ ELSE n.k])
<1>1. PICK other : other = [n EXCEPT !.k = <<>>, !.threshold = IF n.k = <<>> THEN @ ELSE n.k]
  OBVIOUS
<1>2. IsNode(n) /\ NodeAccepted(n) /\ \A c \in ToSet(Children(n)) : Writable(c)
  BY WritableParts
<1>3. n \in [kind : {"operator"}, operator : ToSet(Texts), children : {n.children},
             k : Optional(Int), weights : Optional(Seq(Int)), threshold : Optional(Int),
             weight : Optional(Int)] /\ n.children \in Seq(ToSet(n.children))
  BY <1>2 DEF IsNode
<1>4. /\ other.kind = "operator" /\ other.operator = n.operator /\ other.children = n.children
      /\ other.k = <<>> /\ other.weights = n.weights /\ other.weight = n.weight
  BY <1>1, <1>3
<1>5. <<>> \in Optional(Int)
  <2>1. <<>> \in Seq(Int) /\ Len(<<>>) = 0
    OBVIOUS
  <2>2. QED  BY <2>1 DEF Optional
<1>6. other \in [kind : {"operator"}, operator : ToSet(Texts), children : {other.children},
                 k : Optional(Int), weights : Optional(Seq(Int)), threshold : Optional(Int),
                 weight : Optional(Int)]
  BY <1>1, <1>3, <1>5
<1>7. IsNode(other)
  BY <1>3, <1>4, <1>6 DEF IsNode
<1>8. NodeAccepted(other)
  <2>1. OperatorParamsAccepted(other)
    <3>1. Every(n.weights, LAMBDA ws : Every(ws, IsCount))
      BY <1>2 DEF NodeAccepted, OperatorParamsAccepted
    <3>2. Every(<<>>, IsCount)
      BY DEF Every
    <3>3. QED  BY <1>4, <3>1, <3>2 DEF OperatorParamsAccepted
  <2>2. QED  BY <1>2, <1>4, <2>1 DEF NodeAccepted
<1>9. Children(other) = Children(n)
  BY <1>4 DEF Children
<1>10. Writable(other)
  BY <1>2, <1>7, <1>8, <1>9, WritableFrom
<1>11. QED  BY <1>1, <1>10

=============================================================================
