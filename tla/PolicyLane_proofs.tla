-------------------------- MODULE PolicyLane_proofs --------------------------
(***************************************************************************)
(* Proofs about PolicyLane, for every set of configurations, documents,    *)
(* templates and selections whose trees end somewhere, on the lemmas of    *)
(* PolicyAst_proofs about those trees: what normalising, composing and     *)
(* encoding make of a tree; what the reference says of each result; and,   *)
(* from that, that every step of an application keeps the policy it holds  *)
(* whole, with its meaning and with its one REQKEY condition, and judges a *)
(* stored selection as a new one.                                          *)
(***************************************************************************)
EXTENDS PolicyLane, PolicyAst_proofs, FiniteSetTheorems, SequenceTheorems,
        WellFoundedInduction, TLAPS

-----------------------------------------------------------------------------
(* The walks that the lane takes over a tree: what each returns at a node,   *)
(* given what it returns below it.                                         *)

LEMMA EncodedRule ==
  ASSUME NEW root, Finite(root)
  PROVE  EncodedNode(root) =
           EncodedFields(root, [i \in DOMAIN Children(root) |-> EncodedNode(Children(root)[i])])
<1> DEFINE Kids(f, n) == [i \in DOMAIN Children(n) |-> f[Children(n)[i]]]
           Eq(f, r) == f = [n \in Subtrees(r) |-> EncodedFields(n, Kids(f, n))]
           Of(r) == CHOOSE f : Eq(f, r)
           Here(n) == EncodedFields(n, [i \in DOMAIN Children(n) |-> EncodedNode(Children(n)[i])])
           R == {m \in Subtrees(root) : EncodedNode(m) = Here(m)}
           P == {n \in Subtrees(root) : Subtrees(n) \subseteq R}
<1>1. \A r : EncodedNode(r) = Of(r)[r]
  BY DEF EncodedNode, Walk, Subtrees
<1>2. ASSUME NEW n \in Subtrees(root), ToSet(Children(n)) \subseteq P  PROVE n \in P
  <2> DEFINE g == [m \in Subtrees(n) |-> Here(m)]
             f == Of(n)
             Q == {m \in Subtrees(n) : f[m] = Here(m)}
  <2>1. /\ Finite(n) /\ n \in Subtrees(n) /\ Subtrees(n) \subseteq Subtrees(root)
        /\ Subtrees(n) = {n} \cup UNION {Subtrees(c) : c \in ToSet(Children(n))}
    BY <1>2, SubtreeFacts
  <2>2. \A m \in Subtrees(n) : \A i \in DOMAIN Children(m) :
          Children(m)[i] \in Subtrees(n) /\ Children(m)[i] \in R
    <3>1. \A c \in ToSet(Children(n)) : Subtrees(c) \subseteq R
      BY <1>2
    <3> HIDE DEF R
    <3>2. QED  BY <2>1, <3>1, BelowRuled
  <2>3. \A d \in R : EncodedNode(d) = Here(d)
    OBVIOUS
  <2> HIDE DEF Here, R
  <2>4. \A m \in Subtrees(n) : Here(m) = EncodedFields(m, Kids(g, m))
    <3> SUFFICES ASSUME NEW m \in Subtrees(n)  PROVE Here(m) = EncodedFields(m, Kids(g, m))
      OBVIOUS
    <3>1. \A i \in DOMAIN Children(m) : g[Children(m)[i]] = EncodedNode(Children(m)[i])
      BY <2>2, <2>3
    <3> HIDE DEF g
    <3>2. Kids(g, m) = [i \in DOMAIN Children(m) |-> EncodedNode(Children(m)[i])]
      BY <3>1
    <3>3. QED  BY <3>2 DEF Here
  <2>5. Eq(g, n)
    BY <2>4
  <2>6. Eq(f, n)
    <3> HIDE DEF Eq, g
    <3>1. QED  BY <2>5
  <2> HIDE DEF f, Of
  <2>7. ASSUME NEW m \in Subtrees(n), ToSet(Children(m)) \subseteq Q  PROVE m \in Q
    <3>1. \A i \in DOMAIN Children(m) : f[Children(m)[i]] = EncodedNode(Children(m)[i])
      BY <2>2, <2>3, <2>7 DEF ToSet
    <3>2. Kids(f, m) = [i \in DOMAIN Children(m) |-> EncodedNode(Children(m)[i])]
      BY <3>1
    <3>3. f[m] = EncodedFields(m, Kids(f, m))
      BY <2>6
    <3>4. QED  BY <3>2, <3>3 DEF Here
  <2>8. Subtrees(n) \subseteq Q
    <3> HIDE DEF Q
    <3>1. QED  BY <2>1, <2>7, TreeInduction
  <2>9. n \in R
    BY <1>1, <2>1, <2>8 DEF R, f
  <2>10. Subtrees(n) \subseteq R
    BY <1>2, <2>1, <2>9
  <2>11. QED  BY <2>10
<1>3. Subtrees(root) \subseteq P
  <2> HIDE DEF P
  <2>1. QED  BY <1>2, TreeInduction
<1>4. root \in Subtrees(root)
  BY SubtreeFacts
<1>5. QED  BY <1>3, <1>4

LEMMA NormalisedRule ==
  ASSUME NEW root, Finite(root), NEW isFrozen
  PROVE  Normalised(root, isFrozen) =
           NormalisedNode(root, [i \in DOMAIN Children(root) |-> Normalised(Children(root)[i], isFrozen)], isFrozen)
<1> DEFINE Kids(f, n) == [i \in DOMAIN Children(n) |-> f[Children(n)[i]]]
           Eq(f, r) == f = [n \in Subtrees(r) |-> NormalisedNode(n, Kids(f, n), isFrozen)]
           Of(r) == CHOOSE f : Eq(f, r)
           Here(n) == NormalisedNode(n, [i \in DOMAIN Children(n) |-> Normalised(Children(n)[i], isFrozen)], isFrozen)
           R == {m \in Subtrees(root) : Normalised(m, isFrozen) = Here(m)}
           P == {n \in Subtrees(root) : Subtrees(n) \subseteq R}
<1>1. \A r : Normalised(r, isFrozen) = Of(r)[r]
  BY DEF Normalised, Walk, Subtrees
<1>2. ASSUME NEW n \in Subtrees(root), ToSet(Children(n)) \subseteq P  PROVE n \in P
  <2> DEFINE g == [m \in Subtrees(n) |-> Here(m)]
             f == Of(n)
             Q == {m \in Subtrees(n) : f[m] = Here(m)}
  <2>1. /\ Finite(n) /\ n \in Subtrees(n) /\ Subtrees(n) \subseteq Subtrees(root)
        /\ Subtrees(n) = {n} \cup UNION {Subtrees(c) : c \in ToSet(Children(n))}
    BY <1>2, SubtreeFacts
  <2>2. \A m \in Subtrees(n) : \A i \in DOMAIN Children(m) :
          Children(m)[i] \in Subtrees(n) /\ Children(m)[i] \in R
    <3>1. \A c \in ToSet(Children(n)) : Subtrees(c) \subseteq R
      BY <1>2
    <3> HIDE DEF R
    <3>2. QED  BY <2>1, <3>1, BelowRuled
  <2>3. \A d \in R : Normalised(d, isFrozen) = Here(d)
    OBVIOUS
  <2> HIDE DEF Here, R
  <2>4. \A m \in Subtrees(n) : Here(m) = NormalisedNode(m, Kids(g, m), isFrozen)
    <3> SUFFICES ASSUME NEW m \in Subtrees(n)  PROVE Here(m) = NormalisedNode(m, Kids(g, m), isFrozen)
      OBVIOUS
    <3>1. \A i \in DOMAIN Children(m) : g[Children(m)[i]] = Normalised(Children(m)[i], isFrozen)
      BY <2>2, <2>3
    <3> HIDE DEF g
    <3>2. Kids(g, m) = [i \in DOMAIN Children(m) |-> Normalised(Children(m)[i], isFrozen)]
      BY <3>1
    <3>3. QED  BY <3>2 DEF Here
  <2>5. Eq(g, n)
    BY <2>4
  <2>6. Eq(f, n)
    <3> HIDE DEF Eq, g
    <3>1. QED  BY <2>5
  <2> HIDE DEF f, Of
  <2>7. ASSUME NEW m \in Subtrees(n), ToSet(Children(m)) \subseteq Q  PROVE m \in Q
    <3>1. \A i \in DOMAIN Children(m) : f[Children(m)[i]] = Normalised(Children(m)[i], isFrozen)
      BY <2>2, <2>3, <2>7 DEF ToSet
    <3>2. Kids(f, m) = [i \in DOMAIN Children(m) |-> Normalised(Children(m)[i], isFrozen)]
      BY <3>1
    <3>3. f[m] = NormalisedNode(m, Kids(f, m), isFrozen)
      BY <2>6
    <3>4. QED  BY <3>2, <3>3 DEF Here
  <2>8. Subtrees(n) \subseteq Q
    <3> HIDE DEF Q
    <3>1. QED  BY <2>1, <2>7, TreeInduction
  <2>9. n \in R
    BY <1>1, <2>1, <2>8 DEF R, f
  <2>10. Subtrees(n) \subseteq R
    BY <1>2, <2>1, <2>9
  <2>11. QED  BY <2>10
<1>3. Subtrees(root) \subseteq P
  <2> HIDE DEF P
  <2>1. QED  BY <1>2, TreeInduction
<1>4. root \in Subtrees(root)
  BY SubtreeFacts
<1>5. QED  BY <1>3, <1>4

LEMMA ReqkeysRule ==
  ASSUME NEW root, Finite(root)
  PROVE  ReqkeysOf(root) =
           NodeReqkeys(root, [i \in DOMAIN Children(root) |-> ReqkeysOf(Children(root)[i])])
<1> DEFINE Kids(f, n) == [i \in DOMAIN Children(n) |-> f[Children(n)[i]]]
           Eq(f, r) == f = [n \in Subtrees(r) |-> NodeReqkeys(n, Kids(f, n))]
           Of(r) == CHOOSE f : Eq(f, r)
           Here(n) == NodeReqkeys(n, [i \in DOMAIN Children(n) |-> ReqkeysOf(Children(n)[i])])
           R == {m \in Subtrees(root) : ReqkeysOf(m) = Here(m)}
           P == {n \in Subtrees(root) : Subtrees(n) \subseteq R}
<1>1. \A r : ReqkeysOf(r) = Of(r)[r]
  BY DEF ReqkeysOf, Walk, Subtrees
<1>2. ASSUME NEW n \in Subtrees(root), ToSet(Children(n)) \subseteq P  PROVE n \in P
  <2> DEFINE g == [m \in Subtrees(n) |-> Here(m)]
             f == Of(n)
             Q == {m \in Subtrees(n) : f[m] = Here(m)}
  <2>1. /\ Finite(n) /\ n \in Subtrees(n) /\ Subtrees(n) \subseteq Subtrees(root)
        /\ Subtrees(n) = {n} \cup UNION {Subtrees(c) : c \in ToSet(Children(n))}
    BY <1>2, SubtreeFacts
  <2>2. \A m \in Subtrees(n) : \A i \in DOMAIN Children(m) :
          Children(m)[i] \in Subtrees(n) /\ Children(m)[i] \in R
    <3>1. \A c \in ToSet(Children(n)) : Subtrees(c) \subseteq R
      BY <1>2
    <3> HIDE DEF R
    <3>2. QED  BY <2>1, <3>1, BelowRuled
  <2>3. \A d \in R : ReqkeysOf(d) = Here(d)
    OBVIOUS
  <2> HIDE DEF Here, R
  <2>4. \A m \in Subtrees(n) : Here(m) = NodeReqkeys(m, Kids(g, m))
    <3> SUFFICES ASSUME NEW m \in Subtrees(n)  PROVE Here(m) = NodeReqkeys(m, Kids(g, m))
      OBVIOUS
    <3>1. \A i \in DOMAIN Children(m) : g[Children(m)[i]] = ReqkeysOf(Children(m)[i])
      BY <2>2, <2>3
    <3> HIDE DEF g
    <3>2. Kids(g, m) = [i \in DOMAIN Children(m) |-> ReqkeysOf(Children(m)[i])]
      BY <3>1
    <3>3. QED  BY <3>2 DEF Here
  <2>5. Eq(g, n)
    BY <2>4
  <2>6. Eq(f, n)
    <3> HIDE DEF Eq, g
    <3>1. QED  BY <2>5
  <2> HIDE DEF f, Of
  <2>7. ASSUME NEW m \in Subtrees(n), ToSet(Children(m)) \subseteq Q  PROVE m \in Q
    <3>1. \A i \in DOMAIN Children(m) : f[Children(m)[i]] = ReqkeysOf(Children(m)[i])
      BY <2>2, <2>3, <2>7 DEF ToSet
    <3>2. Kids(f, m) = [i \in DOMAIN Children(m) |-> ReqkeysOf(Children(m)[i])]
      BY <3>1
    <3>3. f[m] = NodeReqkeys(m, Kids(f, m))
      BY <2>6
    <3>4. QED  BY <3>2, <3>3 DEF Here
  <2>8. Subtrees(n) \subseteq Q
    <3> HIDE DEF Q
    <3>1. QED  BY <2>1, <2>7, TreeInduction
  <2>9. n \in R
    BY <1>1, <2>1, <2>8 DEF R, f
  <2>10. Subtrees(n) \subseteq R
    BY <1>2, <2>1, <2>9
  <2>11. QED  BY <2>10
<1>3. Subtrees(root) \subseteq P
  <2> HIDE DEF P
  <2>1. QED  BY <1>2, TreeInduction
<1>4. root \in Subtrees(root)
  BY SubtreeFacts
<1>5. QED  BY <1>3, <1>4

LEMMA SatisfiedRule ==
  ASSUME NEW root, Finite(root), NEW env
  PROVE  Satisfied(root, env) =
           NodeSatisfied(root, [i \in DOMAIN Children(root) |-> Satisfied(Children(root)[i], env)], env)
<1> DEFINE Kids(f, n) == [i \in DOMAIN Children(n) |-> f[Children(n)[i]]]
           Eq(f, r) == f = [n \in Subtrees(r) |-> NodeSatisfied(n, Kids(f, n), env)]
           Of(r) == CHOOSE f : Eq(f, r)
           Here(n) == NodeSatisfied(n, [i \in DOMAIN Children(n) |-> Satisfied(Children(n)[i], env)], env)
           R == {m \in Subtrees(root) : Satisfied(m, env) = Here(m)}
           P == {n \in Subtrees(root) : Subtrees(n) \subseteq R}
<1>1. \A r : Satisfied(r, env) = Of(r)[r]
  BY DEF Satisfied, Walk, Subtrees
<1>2. ASSUME NEW n \in Subtrees(root), ToSet(Children(n)) \subseteq P  PROVE n \in P
  <2> DEFINE g == [m \in Subtrees(n) |-> Here(m)]
             f == Of(n)
             Q == {m \in Subtrees(n) : f[m] = Here(m)}
  <2>1. /\ Finite(n) /\ n \in Subtrees(n) /\ Subtrees(n) \subseteq Subtrees(root)
        /\ Subtrees(n) = {n} \cup UNION {Subtrees(c) : c \in ToSet(Children(n))}
    BY <1>2, SubtreeFacts
  <2>2. \A m \in Subtrees(n) : \A i \in DOMAIN Children(m) :
          Children(m)[i] \in Subtrees(n) /\ Children(m)[i] \in R
    <3>1. \A c \in ToSet(Children(n)) : Subtrees(c) \subseteq R
      BY <1>2
    <3> HIDE DEF R
    <3>2. QED  BY <2>1, <3>1, BelowRuled
  <2>3. \A d \in R : Satisfied(d, env) = Here(d)
    OBVIOUS
  <2> HIDE DEF Here, R
  <2>4. \A m \in Subtrees(n) : Here(m) = NodeSatisfied(m, Kids(g, m), env)
    <3> SUFFICES ASSUME NEW m \in Subtrees(n)  PROVE Here(m) = NodeSatisfied(m, Kids(g, m), env)
      OBVIOUS
    <3>1. \A i \in DOMAIN Children(m) : g[Children(m)[i]] = Satisfied(Children(m)[i], env)
      BY <2>2, <2>3
    <3> HIDE DEF g
    <3>2. Kids(g, m) = [i \in DOMAIN Children(m) |-> Satisfied(Children(m)[i], env)]
      BY <3>1
    <3>3. QED  BY <3>2 DEF Here
  <2>5. Eq(g, n)
    BY <2>4
  <2>6. Eq(f, n)
    <3> HIDE DEF Eq, g
    <3>1. QED  BY <2>5
  <2> HIDE DEF f, Of
  <2>7. ASSUME NEW m \in Subtrees(n), ToSet(Children(m)) \subseteq Q  PROVE m \in Q
    <3>1. \A i \in DOMAIN Children(m) : f[Children(m)[i]] = Satisfied(Children(m)[i], env)
      BY <2>2, <2>3, <2>7 DEF ToSet
    <3>2. Kids(f, m) = [i \in DOMAIN Children(m) |-> Satisfied(Children(m)[i], env)]
      BY <3>1
    <3>3. f[m] = NodeSatisfied(m, Kids(f, m), env)
      BY <2>6
    <3>4. QED  BY <3>2, <3>3 DEF Here
  <2>8. Subtrees(n) \subseteq Q
    <3> HIDE DEF Q
    <3>1. QED  BY <2>1, <2>7, TreeInduction
  <2>9. n \in R
    BY <1>1, <2>1, <2>8 DEF R, f
  <2>10. Subtrees(n) \subseteq R
    BY <1>2, <2>1, <2>9
  <2>11. QED  BY <2>10
<1>3. Subtrees(root) \subseteq P
  <2> HIDE DEF P
  <2>1. QED  BY <1>2, TreeInduction
<1>4. root \in Subtrees(root)
  BY SubtreeFacts
<1>5. QED  BY <1>3, <1>4

LEMMA OccurrencesRule ==
  ASSUME NEW root, Finite(root)
  PROVE  Occurrences(root) =
           NodeOccurrences(root, [i \in DOMAIN Children(root) |-> Occurrences(Children(root)[i])])
<1> DEFINE Kids(f, n) == [i \in DOMAIN Children(n) |-> f[Children(n)[i]]]
           Eq(f, r) == f = [n \in Subtrees(r) |-> NodeOccurrences(n, Kids(f, n))]
           Of(r) == CHOOSE f : Eq(f, r)
           Here(n) == NodeOccurrences(n, [i \in DOMAIN Children(n) |-> Occurrences(Children(n)[i])])
           R == {m \in Subtrees(root) : Occurrences(m) = Here(m)}
           P == {n \in Subtrees(root) : Subtrees(n) \subseteq R}
<1>1. \A r : Occurrences(r) = Of(r)[r]
  BY DEF Occurrences, Walk, Subtrees
<1>2. ASSUME NEW n \in Subtrees(root), ToSet(Children(n)) \subseteq P  PROVE n \in P
  <2> DEFINE g == [m \in Subtrees(n) |-> Here(m)]
             f == Of(n)
             Q == {m \in Subtrees(n) : f[m] = Here(m)}
  <2>1. /\ Finite(n) /\ n \in Subtrees(n) /\ Subtrees(n) \subseteq Subtrees(root)
        /\ Subtrees(n) = {n} \cup UNION {Subtrees(c) : c \in ToSet(Children(n))}
    BY <1>2, SubtreeFacts
  <2>2. \A m \in Subtrees(n) : \A i \in DOMAIN Children(m) :
          Children(m)[i] \in Subtrees(n) /\ Children(m)[i] \in R
    <3>1. \A c \in ToSet(Children(n)) : Subtrees(c) \subseteq R
      BY <1>2
    <3> HIDE DEF R
    <3>2. QED  BY <2>1, <3>1, BelowRuled
  <2>3. \A d \in R : Occurrences(d) = Here(d)
    OBVIOUS
  <2> HIDE DEF Here, R
  <2>4. \A m \in Subtrees(n) : Here(m) = NodeOccurrences(m, Kids(g, m))
    <3> SUFFICES ASSUME NEW m \in Subtrees(n)  PROVE Here(m) = NodeOccurrences(m, Kids(g, m))
      OBVIOUS
    <3>1. \A i \in DOMAIN Children(m) : g[Children(m)[i]] = Occurrences(Children(m)[i])
      BY <2>2, <2>3
    <3> HIDE DEF g
    <3>2. Kids(g, m) = [i \in DOMAIN Children(m) |-> Occurrences(Children(m)[i])]
      BY <3>1
    <3>3. QED  BY <3>2 DEF Here
  <2>5. Eq(g, n)
    BY <2>4
  <2>6. Eq(f, n)
    <3> HIDE DEF Eq, g
    <3>1. QED  BY <2>5
  <2> HIDE DEF f, Of
  <2>7. ASSUME NEW m \in Subtrees(n), ToSet(Children(m)) \subseteq Q  PROVE m \in Q
    <3>1. \A i \in DOMAIN Children(m) : f[Children(m)[i]] = Occurrences(Children(m)[i])
      BY <2>2, <2>3, <2>7 DEF ToSet
    <3>2. Kids(f, m) = [i \in DOMAIN Children(m) |-> Occurrences(Children(m)[i])]
      BY <3>1
    <3>3. f[m] = NodeOccurrences(m, Kids(f, m))
      BY <2>6
    <3>4. QED  BY <3>2, <3>3 DEF Here
  <2>8. Subtrees(n) \subseteq Q
    <3> HIDE DEF Q
    <3>1. QED  BY <2>1, <2>7, TreeInduction
  <2>9. n \in R
    BY <1>1, <2>1, <2>8 DEF R, f
  <2>10. Subtrees(n) \subseteq R
    BY <1>2, <2>1, <2>9
  <2>11. QED  BY <2>10
<1>3. Subtrees(root) \subseteq P
  <2> HIDE DEF P
  <2>1. QED  BY <1>2, TreeInduction
<1>4. root \in Subtrees(root)
  BY SubtreeFacts
<1>5. QED  BY <1>3, <1>4

-----------------------------------------------------------------------------
(* What normalisation does to a condition.                                 *)

IsFcn(f) == f = [k \in DOMAIN f |-> f[k]]

LEMMA ParamsFrom ==
  ASSUME NEW p, IsFcn(p), DOMAIN p \subseteq ToSet(Texts),
         \A k \in DOMAIN p : p[k] \in Values
  PROVE  IsParams(p)
BY DEF IsParams, IsFcn

LEMMA ParamsParts ==
  ASSUME NEW p, IsParams(p)
  PROVE  /\ IsFcn(p) /\ DOMAIN p \subseteq ToSet(Texts)
         /\ \A k \in DOMAIN p : p[k] \in Values
BY DEF IsParams, IsFcn

\* What a function is that lays one over another, and one that drops a key.
IsOver(h, f, g) ==
  /\ IsFcn(h) /\ DOMAIN h = DOMAIN f \cup DOMAIN g
  /\ \A k \in DOMAIN f : h[k] = f[k]
  /\ \A k \in DOMAIN g : k \notin DOMAIN f => h[k] = g[k]
IsWithout(h, f, key) ==
  /\ IsFcn(h) /\ DOMAIN h = DOMAIN f \ {key}
  /\ \A k \in DOMAIN f : k # key => h[k] = f[k]

LEMMA OverlayFacts ==
  ASSUME NEW f, NEW g
  PROVE  IsOver(Over(f, g), f, g)
BY DEF IsOver, Over, IsFcn

LEMMA WithoutFacts ==
  ASSUME NEW f, NEW key
  PROVE  IsWithout(Without(f, key), f, key)
BY DEF IsWithout, Without, IsFcn

LEMMA OverlayHas ==
  ASSUME NEW f, NEW g, NEW k
  PROVE  k \in DOMAIN Over(f, g) <=> k \in DOMAIN f \/ k \in DOMAIN g
BY DEF Over

LEMMA OverlayAt ==
  ASSUME NEW f, NEW g, NEW h, h = Over(f, g)
  PROVE  /\ \A k \in DOMAIN f : h[k] = f[k]
         /\ \A k \in DOMAIN g : k \notin DOMAIN f => h[k] = g[k]
BY DEF Over

LEMMA OverlayParams ==
  ASSUME NEW f, NEW g, IsParams(f), IsParams(g)
  PROVE  IsParams(Over(f, g))
<1> PICK h : h = Over(f, g)
  OBVIOUS
<1>1. IsOver(h, f, g)
  BY OverlayFacts
<1>2. DOMAIN h \subseteq ToSet(Texts) /\ \A k \in DOMAIN h : h[k] \in Values
  BY <1>1, ParamsParts DEF IsOver
<1>3. QED  BY <1>1, <1>2, ParamsFrom DEF IsOver

LEMMA WithoutParams ==
  ASSUME NEW f, IsParams(f), NEW key
  PROVE  IsParams(Without(f, key))
<1> PICK h : h = Without(f, key)
  OBVIOUS
<1>1. IsWithout(h, f, key)
  BY WithoutFacts
<1>2. DOMAIN h \subseteq ToSet(Texts) /\ \A k \in DOMAIN h : h[k] \in Values
  BY <1>1, ParamsParts DEF IsWithout
<1>3. QED  BY <1>1, <1>2, ParamsFrom DEF IsWithout

LEMMA WrittenParams ==
  /\ \A n \in Int : /\ IsParams([min |-> <<"number", n>>, max |-> <<"number", n>>])
                    /\ IsParams([value |-> <<"number", n>>])
  /\ IsParams([operator |-> <<"string", "EQ">>])
  /\ IsParams([selector |-> <<"string", "ANY">>])
<1>1. {"EQ", "ANY", "min", "max", "value", "operator", "selector"} \subseteq ToSet(Texts)
  BY LaneAssumption DEF Vocabulary
<1>2. ASSUME NEW n \in Int
      PROVE  /\ IsParams([min |-> <<"number", n>>, max |-> <<"number", n>>])
             /\ IsParams([value |-> <<"number", n>>])
  <2>1. <<"number", n>> \in Values
    BY DEF Values
  <2>2. QED  BY <1>1, <2>1 DEF IsParams
<1>3. <<"string", "EQ">> \in Values /\ <<"string", "ANY">> \in Values
  BY <1>1 DEF Values
<1>4. IsParams([operator |-> <<"string", "EQ">>])
  BY <1>1, <1>3 DEF IsParams
<1>5. IsParams([selector |-> <<"string", "ANY">>])
  BY <1>1, <1>3 DEF IsParams
<1>6. QED  BY <1>2, <1>4, <1>5

\* What the three conversions do to the parameters, key by key.
IsEquality(q, p) ==
  /\ IsFcn(q) /\ DOMAIN q = (DOMAIN p \ {"expected_value"}) \cup {"operator", "value"}
  /\ q["value"] = <<"number", IF WantsTrue(p) THEN 1 ELSE 0>>
  /\ q["operator"] = IF "operator" \in DOMAIN p THEN p["operator"] ELSE <<"string", "EQ">>
  /\ \A k \in DOMAIN p : k \notin {"expected_value", "operator", "value"} => q[k] = p[k]
IsRange(q, p, key, n) ==
  /\ IsFcn(q) /\ DOMAIN q = (DOMAIN p \ {key}) \cup {"min", "max"}
  /\ q["min"] = <<"number", n>> /\ q["max"] = <<"number", n>>
  /\ \A k \in DOMAIN p : k \notin {key, "min", "max"} => q[k] = p[k]
WithSelector(p) ==
  IF ~Truthy(p, "selector") THEN Over([selector |-> <<"string", "ANY">>], p) ELSE p
IsSelected(q, p) ==
  /\ DOMAIN q = DOMAIN p \cup {"selector"} /\ Truthy(q, "selector")
  /\ q["selector"] = IF Truthy(p, "selector") THEN p["selector"] ELSE <<"string", "ANY">>
  /\ \A k \in DOMAIN p : k # "selector" => q[k] = p[k]

LEMMA EqualityIs ==
  ASSUME NEW p, "expected_value" \in DOMAIN p
  PROVE  IsEquality(AsEquality(p), p)
<1>1. PICK n : n = IF WantsTrue(p) THEN 1 ELSE 0
  OBVIOUS
<1>2. PICK f : f = [value |-> <<"number", n>>]
  OBVIOUS
<1>3. PICK e : e = [operator |-> <<"string", "EQ">>]
  OBVIOUS
<1>4. PICK w : w = Without(p, "expected_value")
  OBVIOUS
<1>5. PICK g : g = Over(w, e)
  OBVIOUS
<1>6. PICK q : q = Over(f, g)
  OBVIOUS
<1>7. AsEquality(p) = q
  BY <1>1, <1>2, <1>3, <1>4, <1>5, <1>6 DEF AsEquality, EqualTo
<1>8. IsWithout(w, p, "expected_value")
  BY ONLY <1>4, WithoutFacts
<1>9. IsOver(g, w, e)
  BY ONLY <1>5, OverlayFacts
<1>10. IsOver(q, f, g)
  BY ONLY <1>6, OverlayFacts
<1>11. /\ DOMAIN f = {"value"} /\ f["value"] = <<"number", n>>
       /\ DOMAIN e = {"operator"} /\ e["operator"] = <<"string", "EQ">>
  BY <1>2, <1>3
<1>12. DOMAIN q = (DOMAIN p \ {"expected_value"}) \cup {"operator", "value"}
  BY <1>8, <1>9, <1>10, <1>11 DEF IsOver, IsWithout
<1>13. q["value"] = <<"number", n>>
  BY <1>10, <1>11 DEF IsOver
<1>14. q["operator"] = IF "operator" \in DOMAIN p THEN p["operator"] ELSE <<"string", "EQ">>
  <2>1. q["operator"] = g["operator"]
    BY <1>9, <1>10, <1>11 DEF IsOver
  <2>2. QED  BY <2>1, <1>8, <1>9, <1>11 DEF IsOver, IsWithout
<1>15. \A k \in DOMAIN p : k \notin {"expected_value", "operator", "value"} => q[k] = p[k]
  BY <1>8, <1>9, <1>10, <1>11 DEF IsOver, IsWithout
<1>16. IsFcn(q)
  BY <1>10 DEF IsOver
<1>17. QED  BY ONLY <1>1, <1>7, <1>12, <1>13, <1>14, <1>15, <1>16 DEF IsEquality

LEMMA RangeIs ==
  ASSUME NEW p, NEW key, NEW n
  PROVE  IsRange(Range255(p, key, n), p, key, n)
<1>1. PICK f : f = [min |-> <<"number", n>>, max |-> <<"number", n>>]
  OBVIOUS
<1>2. PICK w : w = Without(p, key)
  OBVIOUS
<1>3. PICK q : q = Over(f, w)
  OBVIOUS
<1>4. Range255(p, key, n) = q
  BY <1>1, <1>2, <1>3 DEF Range255
<1>5. IsWithout(w, p, key)
  BY ONLY <1>2, WithoutFacts
<1>6. IsOver(q, f, w)
  BY ONLY <1>3, OverlayFacts
<1>7. DOMAIN f = {"min", "max"} /\ f["min"] = <<"number", n>> /\ f["max"] = <<"number", n>>
  BY <1>1
<1>8. IsRange(q, p, key, n)
  BY <1>5, <1>6, <1>7 DEF IsOver, IsWithout, IsRange
<1>9. QED  BY ONLY <1>4, <1>8

LEMMA SelectorIs ==
  ASSUME NEW p
  PROVE  IsSelected(WithSelector(p), p)
<1>1. CASE Truthy(p, "selector")
  BY <1>1 DEF Truthy, WithSelector, IsSelected
<1>2. CASE ~Truthy(p, "selector")
  <2>1. PICK f : f = [selector |-> <<"string", "ANY">>]
    OBVIOUS
  <2>2. PICK q : q = Over(f, p)
    OBVIOUS
  <2>3. WithSelector(p) = q
    BY <1>2, <2>1, <2>2 DEF WithSelector
  <2>4. DOMAIN f = {"selector"} /\ f["selector"] = <<"string", "ANY">>
    BY <2>1
  <2>5. IsOver(q, f, p)
    BY ONLY <2>2, OverlayFacts
  <2>6. <<"string", "ANY">> \notin Falsy
    BY DEF Falsy
  <2>7. Truthy(q, "selector")
    BY <2>4, <2>5, <2>6 DEF Truthy, IsOver
  <2>8. IsSelected(q, p)
    BY <1>2, <2>4, <2>5, <2>7 DEF IsOver, IsSelected
  <2>9. QED  BY ONLY <2>3, <2>8
<1>3. QED  BY <1>1, <1>2

LEMMA EqualityFacts ==
  ASSUME NEW p, IsParams(p)
  PROVE  IsParams(AsEquality(p)) /\ AsEquality(AsEquality(p)) = AsEquality(p)
<1>1. CASE "expected_value" \notin DOMAIN p
  BY <1>1 DEF AsEquality
<1>2. CASE "expected_value" \in DOMAIN p
  <2>1. PICK n \in Int : n = IF WantsTrue(p) THEN 1 ELSE 0
    OBVIOUS
  <2>2. PICK q : q = AsEquality(p)
    OBVIOUS
  <2>3. q = Over([value |-> <<"number", n>>],
                 Over(Without(p, "expected_value"), [operator |-> <<"string", "EQ">>]))
    BY <1>2, <2>1, <2>2 DEF AsEquality, EqualTo
  <2>4. IsParams(q)
    BY <2>3, WrittenParams, WithoutParams, OverlayParams
  <2>5. "expected_value" \notin DOMAIN q
    <3>1. IsEquality(q, p)
      BY ONLY <1>2, <2>2, EqualityIs
    <3>2. QED  BY <3>1 DEF IsEquality
  <2>6. QED  BY <2>2, <2>4, <2>5 DEF AsEquality
<1>3. QED  BY <1>1, <1>2

\* The name a condition is given a byte by, and the byte.
LEMMA EnumIs ==
  ASSUME NEW c, ~RefusedCondition(c)
  PROVE  /\ EnumOf(c) # <<>> =>
              /\ EnumOf(c)[1] \in {"sighash_type", "script_type"}
              /\ EnumOf(c)[2][c.params[EnumOf(c)[1]][2]] \in Int
              /\ NamesGiven(c) = {EnumOf(c)[1]}
              /\ ByteNamed[EnumOf(c)[1]][c.params[EnumOf(c)[1]][2]]
                   = EnumOf(c)[2][c.params[EnumOf(c)[1]][2]]
         /\ EnumOf(c) = <<>> => NamesGiven(c) = {}
<1>1. PICK p, type : p = c.params /\ type = c.type
  OBVIOUS
<1>2. /\ DOMAIN ByteNamed["sighash_type"] = DOMAIN SighashTypes
      /\ \A x \in DOMAIN SighashTypes : /\ SighashTypes[x] \in Int
                                        /\ ByteNamed["sighash_type"][x] = SighashTypes[x]
  BY DEF ByteNamed, SighashTypes, AnyoneCanPay
<1>3. /\ DOMAIN ByteNamed["script_type"] = DOMAIN ScriptTypes
      /\ \A x \in DOMAIN ScriptTypes : /\ ScriptTypes[x] \in Int
                                       /\ ByteNamed["script_type"][x] = ScriptTypes[x]
  BY DEF ByteNamed, ScriptTypes
<1>4. EnumOf(c) # <<>> => p[EnumOf(c)[1]][2] \in DOMAIN EnumOf(c)[2]
  BY <1>1 DEF RefusedCondition
<1>5. CASE type = "INPUT_SIGHASH_TYPE"
  <2>1. EnumOf(c) = IF Has(p, "sighash_type", "string") THEN <<"sighash_type", SighashTypes>>
                    ELSE <<>>
    BY <1>1, <1>5 DEF EnumOf
  <2>2. NamesGiven(c) = {k \in {"sighash_type"} : /\ Has(p, k, "string")
                                                  /\ p[k][2] \in DOMAIN ByteNamed[k]}
    BY <1>1, <1>5 DEF NamesGiven, NamesOf
  <2>3. QED  BY <1>1, <1>2, <1>4, <2>1, <2>2
<1>6. CASE type \in {"INPUT_SCRIPT_TYPE", "OUTPUT_SCRIPT_TYPE"}
  <2>1. EnumOf(c) = IF Has(p, "script_type", "string") THEN <<"script_type", ScriptTypes>>
                    ELSE <<>>
    BY <1>1, <1>6 DEF EnumOf
  <2>2. NamesGiven(c) = {k \in {"script_type"} : /\ Has(p, k, "string")
                                                 /\ p[k][2] \in DOMAIN ByteNamed[k]}
    BY <1>1, <1>6 DEF NamesGiven, NamesOf
  <2>3. QED  BY <1>1, <1>3, <1>4, <2>1, <2>2
<1>7. CASE type \notin {"INPUT_SIGHASH_TYPE", "INPUT_SCRIPT_TYPE", "OUTPUT_SCRIPT_TYPE"}
  <2>1. EnumOf(c) = <<>> /\ NamesGiven(c) = {}
    BY <1>1, <1>7 DEF EnumOf, NamesGiven, NamesOf
  <2>2. QED  BY <2>1
<1>8. QED  BY <1>5, <1>6, <1>7

\* A condition that is not refused takes one form for good.
LEMMA NormalConditionFacts ==
  ASSUME NEW c, IsNode(c), c.kind = "condition", ~RefusedCondition(c)
  PROVE  /\ IsNode(NormalCondition(c)) /\ NormalCondition(c).kind = "condition"
         /\ NormalCondition(c).type = c.type /\ NormalCondition(c).weight = c.weight
         /\ NormalCondition(c).params = NormalParams(c)
         /\ ~RefusedCondition(NormalCondition(c))
         /\ NormalCondition(NormalCondition(c)) = NormalCondition(c)
         /\ c.type = "REQKEY" => NormalCondition(c) = c
         /\ AtomOf(NormalCondition(c)) = AtomOf(c)
<1>1. PICK p, type, d : p = c.params /\ type = c.type /\ d = NormalCondition(c)
  OBVIOUS
<1>2. /\ IsParams(p) /\ IsFcn(p)
      /\ c \in [kind : {"condition"}, type : ToSet(Texts), params : {p}, weight : Optional(Int)]
  BY <1>1, ParamsParts DEF IsNode
<1>3. PICK q : q = NormalParams(c)
  OBVIOUS
<1>4. /\ d = [c EXCEPT !.params = q]
      /\ d.kind = "condition" /\ d.type = type /\ d.weight = c.weight /\ d.params = q
      /\ d \in [kind : {"condition"}, type : ToSet(Texts), params : {q}, weight : Optional(Int)]
  BY <1>1, <1>2, <1>3 DEF NormalCondition
<1>5. q = p => d = c
  BY <1>1, <1>2, <1>4
<1> DEFINE Done == IsParams(q) /\ ~RefusedCondition(d) /\ NormalParams(d) = q
                   /\ AtomOf(d) = AtomOf(c)
<1>6. ASSUME type \in BooleanDerived  PROVE Done
  <2>1. \A e \in {c, d} : EnumOf(e) = <<>> /\ NamesGiven(e) = {}
    BY <1>1, <1>4, <1>6 DEF EnumOf, BooleanDerived, NamesGiven, NamesOf
  <2>2. type \notin SelectorRequired /\ type \notin SelectorMandatory
        /\ type \notin {"INPUT_SOURCE_IS_IN_SETS", "OUTPUT_DEST_IS_IN_SETS"}
        /\ type \notin Selective
    BY <1>6 DEF BooleanDerived, SelectorRequired, SelectorMandatory, Selective
  <2>3. q = AsEquality(p) /\ NormalParams(d) = AsEquality(q)
    BY <1>1, <1>3, <1>4, <1>6, <2>1, <2>2 DEF NormalParams
  <2>4. ~RefusedCondition(d)
    BY <1>4, <2>1, <2>2 DEF RefusedCondition
  <2>5. AtomOf(d) = AtomOf(c)
    <3>1. CASE "expected_value" \notin DOMAIN p
      BY <1>5, <2>3, <3>1 DEF AsEquality
    <3>2. CASE "expected_value" \in DOMAIN p
      <4>1. /\ DOMAIN q = (DOMAIN p \ {"expected_value"}) \cup {"operator", "value"}
            /\ q["value"] = <<"number", IF WantsTrue(p) THEN 1 ELSE 0>>
            /\ q["operator"] = IF "operator" \in DOMAIN p THEN p["operator"]
                               ELSE <<"string", "EQ">>
            /\ \A k \in DOMAIN p : k \notin {"expected_value", "operator", "value"} => q[k] = p[k]
        <5>1. IsEquality(q, p)
          BY ONLY <2>3, <3>2, EqualityIs
        <5>2. QED  BY <5>1 DEF IsEquality
      <4>2. IsDerived(c) /\ ~IsDerived(d)
        BY <1>1, <1>4, <1>6, <3>2, <4>1 DEF IsDerived, BooleanDerived
      <4>3. WantsTrue(p) <=> p["expected_value"] \in TrueWritings
        BY <3>2 DEF WantsTrue, TrueWritings
      <4>4. Demanded(d) = Demanded(c)
        BY <1>1, <1>4, <4>1, <4>2, <4>3 DEF Demanded, Given
      <4>5. Bounds(d) = Bounds(c) /\ Selected(d) = Selected(c)
        <5>1. \A k \in {"min", "max", "selector"} : Given(q, k) = Given(p, k)
          BY <4>1 DEF Given
        <5>2. QED  BY <1>1, <1>4, <2>1, <2>2, <5>1 DEF Bounds, Selected
      <4>6. PICK S, R : /\ S = {"operator", "value", "min", "max", "selector", "weight"}
                        /\ R = S \cup {"expected_value"}
        OBVIOUS
      <4>7. [k \in DOMAIN q \ S |-> q[k]] = [k \in DOMAIN p \ R |-> p[k]]
        <5>1. DOMAIN q \ S = DOMAIN p \ R /\ \A k \in DOMAIN p \ R : q[k] = p[k]
          BY <4>1, <4>6
        <5>2. QED  BY <5>1
      <4>8. /\ AtomOf(d) = [type |-> type, demanded |-> Demanded(d), bounds |-> Bounds(d),
                            selected |-> Selected(d), rest |-> [k \in DOMAIN q \ S |-> q[k]]]
            /\ AtomOf(c) = [type |-> type, demanded |-> Demanded(c), bounds |-> Bounds(c),
                            selected |-> Selected(c), rest |-> [k \in DOMAIN p \ R |-> p[k]]]
        <5>1. S \cup {} \cup {} = S /\ S \cup {"expected_value"} \cup {} = R
          BY <4>6
        <5>2. QED  BY <1>1, <1>4, <2>1, <4>2, <4>6, <5>1 DEF AtomOf
      <4>9. QED  BY <4>4, <4>5, <4>7, <4>8
    <3>3. QED  BY <3>1, <3>2
  <2>6. QED  BY <1>2, <2>3, <2>4, <2>5, EqualityFacts
<1>7. ASSUME type \in SelectorRequired  PROVE Done
  <2>1. type \notin BooleanDerived /\ type \notin SelectorMandatory /\ type \in Selective
        /\ type \notin {"INPUT_SOURCE_IS_IN_SETS", "OUTPUT_DEST_IS_IN_SETS"}
    BY <1>7 DEF BooleanDerived, SelectorRequired, SelectorMandatory, Selective
  <2>2. PICK r : r = IF EnumOf(c) = <<>> THEN p
                     ELSE Range255(p, EnumOf(c)[1], EnumOf(c)[2][p[EnumOf(c)[1]][2]])
    OBVIOUS
  <2>3. q = IF ~Truthy(r, "selector") THEN Over([selector |-> <<"string", "ANY">>], r) ELSE r
    BY <1>1, <1>3, <1>7, <2>1, <2>2 DEF NormalParams
  <2>4. IsParams(r) /\ IsFcn(r)
    <3>1. CASE EnumOf(c) = <<>>
      BY <1>2, <2>2, <3>1
    <3>2. CASE EnumOf(c) # <<>>
      <4>1. PICK n \in Int : n = EnumOf(c)[2][p[EnumOf(c)[1]][2]]
        BY <1>1, <3>2, EnumIs
      <4>2. r = Over([min |-> <<"number", n>>, max |-> <<"number", n>>], Without(p, EnumOf(c)[1]))
        BY <2>2, <3>2, <4>1 DEF Range255
      <4>3. IsParams(r)
        BY <1>2, <4>2, WrittenParams, WithoutParams, OverlayParams
      <4>4. QED  BY <4>3, ParamsParts
    <3>3. QED  BY <3>1, <3>2
  <2>5. IsParams(q)
    BY <2>3, <2>4, WrittenParams, OverlayParams
  <2>6. /\ DOMAIN q = DOMAIN r \cup {"selector"} /\ Truthy(q, "selector")
        /\ q["selector"] = IF Truthy(r, "selector") THEN r["selector"] ELSE <<"string", "ANY">>
        /\ \A k \in DOMAIN r : k # "selector" => q[k] = r[k]
    <3>1. q = WithSelector(r)
      BY <2>3 DEF WithSelector
    <3>2. IsSelected(q, r)
      BY ONLY <3>1, SelectorIs
    <3>3. QED  BY <3>2 DEF IsSelected
  <2>7. PICK G : G = NamesGiven(c)
    OBVIOUS
  <2>8. /\ G \subseteq {"sighash_type", "script_type"}
        /\ DOMAIN r = (DOMAIN p \ G) \cup (IF G = {} THEN {} ELSE {"min", "max"})
        /\ \A k \in DOMAIN p \ G : G = {} \/ k \notin {"min", "max"} => r[k] = p[k]
        /\ Bounds(c) = <<Given(r, "min"), Given(r, "max")>>
    <3>1. CASE EnumOf(c) = <<>>
      <4>1. G = {} /\ r = p
        BY <2>2, <2>7, <3>1, EnumIs
      <4>2. QED  BY <1>1, <2>7, <4>1 DEF Bounds
    <3>2. CASE EnumOf(c) # <<>>
      <4>1. PICK e, n : e = EnumOf(c)[1] /\ n = EnumOf(c)[2][p[EnumOf(c)[1]][2]]
        OBVIOUS
      <4>2. /\ e \in {"sighash_type", "script_type"} /\ G = {e} /\ ByteNamed[e][p[e][2]] = n
        BY <1>1, <2>7, <3>2, <4>1, EnumIs
      <4>3. /\ DOMAIN r = (DOMAIN p \ {e}) \cup {"min", "max"}
            /\ r["min"] = <<"number", n>> /\ r["max"] = <<"number", n>>
            /\ \A k \in DOMAIN p : k \notin {e, "min", "max"} => r[k] = p[k]
        <5>1. r = Range255(p, e, n)
          BY <2>2, <3>2, <4>1
        <5>2. IsRange(r, p, e, n)
          BY ONLY <5>1, RangeIs
        <5>3. QED  BY <5>2 DEF IsRange
      <4>4. Bounds(c) = <<<<<<"number", n>>>>, <<<<"number", n>>>>>>
        <5>1. PICK key : key = CHOOSE k \in G : TRUE
          OBVIOUS
        <5>2. key = e
          BY <4>2, <5>1
        <5>3. QED  BY <1>1, <2>7, <4>2, <5>1, <5>2 DEF Bounds
      <4>5. Given(r, "min") = <<<<"number", n>>>> /\ Given(r, "max") = <<<<"number", n>>>>
        BY <4>3 DEF Given
      <4>6. QED  BY <4>2, <4>3, <4>4, <4>5
    <3>3. QED  BY <3>1, <3>2
  <2>9. EnumOf(d) = <<>> /\ NamesGiven(d) = {}
    <3>1. ASSUME NEW k \in {"sighash_type", "script_type"}, Has(q, k, "string"),
                 \/ k = "sighash_type" /\ type = "INPUT_SIGHASH_TYPE"
                 \/ k = "script_type" /\ type \in {"INPUT_SCRIPT_TYPE", "OUTPUT_SCRIPT_TYPE"}
          PROVE  FALSE
      <4>1. k \in DOMAIN r /\ r[k] = q[k]
        BY <2>6, <3>1 DEF Has
      <4>2. k \in DOMAIN p /\ k \notin G /\ r[k] = p[k]
        BY <2>8, <3>1, <4>1
      <4>3. Has(p, k, "string")
        BY <3>1, <4>1, <4>2 DEF Has
      <4>4. EnumOf(c) # <<>> /\ EnumOf(c)[1] = k
        BY <1>1, <3>1, <4>3 DEF EnumOf
      <4>5. G = {k}
        BY <2>7, <4>4, EnumIs
      <4>6. QED  BY <4>2, <4>5
    <3>2. EnumOf(d) = <<>>
      BY <1>4, <3>1 DEF EnumOf
    <3>3. NamesGiven(d) = {}
      BY <1>4, <3>1 DEF NamesGiven, NamesOf
    <3>4. QED  BY <3>2, <3>3
  <2>10. ~RefusedCondition(d)
    BY <1>4, <2>1, <2>9 DEF RefusedCondition
  <2>11. NormalParams(d) = q
    BY <1>4, <1>7, <2>1, <2>6, <2>9 DEF NormalParams
  <2>12. AtomOf(d) = AtomOf(c)
    <3>1. ~IsDerived(c) /\ ~IsDerived(d)
      BY <1>1, <1>4, <2>1 DEF IsDerived, BooleanDerived
    <3>2. Demanded(d) = Demanded(c)
      <4>1. \A k \in {"operator", "value"} : Given(q, k) = Given(p, k)
        BY <2>6, <2>8 DEF Given
      <4>2. QED  BY <1>1, <1>4, <3>1, <4>1 DEF Demanded
    <3>3. Bounds(d) = Bounds(c)
      <4>1. \A k \in {"min", "max"} : Given(q, k) = Given(r, k)
        BY <2>6 DEF Given
      <4>2. QED  BY <1>4, <2>8, <2>9, <4>1 DEF Bounds
    <3>4. Selected(d) = Selected(c)
      <4>1. Truthy(r, "selector") <=> Truthy(p, "selector")
        BY <2>8 DEF Truthy
      <4>2. Truthy(p, "selector") => Given(p, "selector") = <<r["selector"]>>
        BY <2>8 DEF Given, Truthy
      <4>3. Given(q, "selector") = <<q["selector"]>>
        BY <2>6 DEF Given
      <4>4. QED  BY <1>1, <1>4, <2>1, <2>6, <4>1, <4>2, <4>3 DEF Selected
    <3>5. PICK S : S = {"operator", "value", "min", "max", "selector", "weight"}
      OBVIOUS
    <3>6. [k \in DOMAIN q \ S |-> q[k]] = [k \in DOMAIN p \ (S \cup G) |-> p[k]]
      <4>1. /\ DOMAIN q \ S = DOMAIN p \ (S \cup G)
            /\ \A k \in DOMAIN p \ (S \cup G) : q[k] = p[k]
        BY <2>6, <2>8, <3>5
      <4>2. QED  BY <4>1
    <3>7. /\ AtomOf(d) = [type |-> type, demanded |-> Demanded(d), bounds |-> Bounds(d),
                          selected |-> Selected(d), rest |-> [k \in DOMAIN q \ S |-> q[k]]]
          /\ AtomOf(c) = [type |-> type, demanded |-> Demanded(c), bounds |-> Bounds(c),
                          selected |-> Selected(c),
                          rest |-> [k \in DOMAIN p \ (S \cup G) |-> p[k]]]
      <4>1. S \cup {} \cup {} = S /\ S \cup {} \cup G = S \cup G
        OBVIOUS
      <4>2. QED  BY <1>1, <1>4, <2>7, <2>9, <3>1, <3>5, <4>1 DEF AtomOf
    <3>8. QED  BY <3>2, <3>3, <3>4, <3>6, <3>7
  <2>13. QED  BY <2>5, <2>10, <2>11, <2>12
<1>8. ASSUME type \notin BooleanDerived, type \notin SelectorRequired  PROVE Done
  <2>1. EnumOf(c) = <<>>
    BY <1>1, <1>8 DEF EnumOf, SelectorRequired
  <2>2. q = p
    BY <1>1, <1>3, <1>8, <2>1 DEF NormalParams
  <2>3. QED  BY <1>1, <1>2, <1>3, <1>5, <2>2
<1>9. Done
  BY <1>6, <1>7, <1>8
<1>10. IsNode(d)
  BY <1>4, <1>9 DEF IsNode
<1>11. NormalCondition(d) = d
  <2>1. NormalCondition(d) = [d EXCEPT !.params = q]
    BY <1>9 DEF NormalCondition
  <2>2. QED  BY <1>4, <2>1
<1>12. type = "REQKEY" => d = c
  <2>1. SUFFICES ASSUME type = "REQKEY"  PROVE q = p
    BY <1>5
  <2>2. EnumOf(c) = <<>>
    BY <1>1, <2>1 DEF EnumOf
  <2>3. QED  BY <1>1, <1>3, <2>1, <2>2 DEF NormalParams, BooleanDerived, SelectorRequired
<1>13. QED  BY <1>1, <1>3, <1>4, <1>9, <1>10, <1>11, <1>12

-----------------------------------------------------------------------------
(* What the normalisation walk does to a tree.                             *)

\* An operator is satisfied by its fields and the number of its children.
LEMMA HoldsForSame ==
  ASSUME NEW n, NEW m, NEW sat, n.operator = m.operator, n.k = m.k,
         n.threshold = m.threshold, n.weights = m.weights,
         Len(n.children) = Len(m.children)
  PROVE  HoldsFor(n, sat) = HoldsFor(m, sat)
BY DEF HoldsFor

\* An operator with other children.
IsRow(s, l) == s = [i \in 1 .. l |-> s[i]]

LEMMA Rechilded ==
  ASSUME NEW n, IsNode(n), n.kind = "operator", NEW s, NEW l \in Nat,
         IsRow(s, l), NEW m, m = [n EXCEPT !.children = s]
  PROVE  /\ m.kind = "operator" /\ m.operator = n.operator /\ m.k = n.k
         /\ m.weights = n.weights /\ m.threshold = n.threshold /\ m.weight = n.weight
         /\ m.children = s /\ Children(m) = s /\ DOMAIN s = 1 .. l /\ Len(s) = l
         /\ IsNode(m) /\ ToSet(s) = {s[i] : i \in 1 .. l}
<1>1. n \in [kind : {"operator"}, operator : ToSet(Texts), children : {n.children},
             k : Optional(Int), weights : Optional(Seq(Int)), threshold : Optional(Int),
             weight : Optional(Int)]
  BY DEF IsNode
<1>2. /\ m.kind = "operator" /\ m.operator = n.operator /\ m.k = n.k
      /\ m.weights = n.weights /\ m.threshold = n.threshold /\ m.weight = n.weight
      /\ m.children = s
      /\ m \in [kind : {"operator"}, operator : ToSet(Texts), children : {m.children},
                k : Optional(Int), weights : Optional(Seq(Int)), threshold : Optional(Int),
                weight : Optional(Int)]
  BY <1>1
<1>3. DOMAIN s = 1 .. l /\ ToSet(s) = {s[i] : i \in 1 .. l}
  BY DEF ToSet, IsRow
<1>4. s \in Seq(ToSet(s)) /\ Len(s) = l
  <2>1. s \in [1 .. l -> ToSet(s)]
    BY <1>3 DEF IsRow
  <2>2. QED  BY <2>1, FunctionIsSeq
<1>5. IsNode(m)
  BY <1>2, <1>4 DEF IsNode
<1>6. Children(m) = s
  BY <1>2 DEF Children
<1>7. QED  BY <1>2, <1>3, <1>4, <1>5, <1>6

\* The nodes that are told from their bytes.
Plain(node) ==
  /\ IsNode(node)
  /\ node.kind = "operator" => node.operator \in Operators /\ node.threshold = <<>>
\* The trees of an AST, canonical or not.
PlainTree(root) == IsTree(root) /\ \A n \in Subtrees(root) : Plain(n)

LEMMA PlainParts ==
  ASSUME NEW root, IsTree(root)
  PROVE  PlainTree(root) <=> Plain(root) /\ \A c \in ToSet(Children(root)) : PlainTree(c)
<1>1. /\ root \in Subtrees(root)
      /\ Subtrees(root) = {root} \cup UNION {Subtrees(c) : c \in ToSet(Children(root))}
  BY SubtreeFacts DEF IsTree
<1>2. \A c \in ToSet(Children(root)) : IsTree(c)
  BY TreeParts
<1>3. \A c \in ToSet(Children(root)) : Subtrees(c) \subseteq Subtrees(root)
  BY <1>1
<1>4. ASSUME PlainTree(root)
      PROVE  Plain(root) /\ \A c \in ToSet(Children(root)) : PlainTree(c)
  BY <1>1, <1>2, <1>3, <1>4 DEF PlainTree
<1>5. ASSUME Plain(root), \A c \in ToSet(Children(root)) : PlainTree(c)
      PROVE  PlainTree(root)
  <2>1. ASSUME NEW n \in Subtrees(root)  PROVE Plain(n)
    <3>1. n = root \/ \E c \in ToSet(Children(root)) : n \in Subtrees(c)
      BY <1>1
    <3>2. QED  BY <1>5, <3>1 DEF PlainTree
  <2>2. QED  BY <2>1 DEF PlainTree
<1>6. QED  BY <1>4, <1>5

\* Nothing a policy means changes from one tree to the other.
Alike(n, m) ==
  /\ IsTree(m) /\ m.kind = n.kind
  /\ PlainTree(n) => PlainTree(m)
  /\ ReqkeysOf(m) = ReqkeysOf(n)
  /\ \A env : Satisfied(m, env) = Satisfied(n, env)

LEMMA AlikeOperators ==
  ASSUME NEW n, IsTree(n), n.kind = "operator", NEW l \in Nat, l = Len(Children(n)),
         NEW s, IsRow(s, l),
         \A i \in 1 .. l : Alike(Children(n)[i], s[i])
  PROVE  Alike(n, [n EXCEPT !.children = s])
<1>1. IsNode(n) /\ Finite(n)
  BY TreeParts
<1>2. PICK m : m = [n EXCEPT !.children = s]
  OBVIOUS
<1>3. /\ m.kind = "operator" /\ m.operator = n.operator /\ m.k = n.k
      /\ m.weights = n.weights /\ m.threshold = n.threshold
      /\ m.children = s /\ Children(m) = s /\ DOMAIN s = 1 .. l /\ Len(s) = l
      /\ IsNode(m) /\ ToSet(s) = {s[i] : i \in 1 .. l}
  BY <1>1, <1>2, Rechilded
<1>4. Children(n) = n.children /\ DOMAIN Children(n) = 1 .. l
  BY <1>1, NodeChildren DEF Children
<1>5. IsTree(m)
  <2>1. \A c \in ToSet(Children(m)) : IsTree(c)
    BY <1>3 DEF Alike
  <2>2. QED  BY <1>3, <2>1, TreeFrom
<1>6. Finite(m)
  BY <1>5 DEF IsTree
<1>7. ReqkeysOf(m) = ReqkeysOf(n)
  <2>1. PICK a, b : /\ a = [i \in DOMAIN Children(n) |-> ReqkeysOf(Children(n)[i])]
                    /\ b = [i \in DOMAIN Children(m) |-> ReqkeysOf(Children(m)[i])]
    OBVIOUS
  <2>2. a = b
    <3>1. \A i \in 1 .. l : ReqkeysOf(s[i]) = ReqkeysOf(Children(n)[i])
      BY DEF Alike
    <3>2. QED  BY <1>3, <1>4, <2>1, <3>1
  <2>3. ReqkeysOf(n) = NodeReqkeys(n, a) /\ ReqkeysOf(m) = NodeReqkeys(m, b)
    BY <1>1, <1>6, <2>1, ReqkeysRule
  <2>4. NodeReqkeys(n, a) = FlattenSeq(a) /\ NodeReqkeys(m, b) = FlattenSeq(b)
    BY <1>3 DEF NodeReqkeys
  <2>5. QED  BY <2>2, <2>3, <2>4
<1>8. ASSUME NEW env  PROVE Satisfied(m, env) = Satisfied(n, env)
  <2>1. PICK a, b : /\ a = [i \in DOMAIN Children(n) |-> Satisfied(Children(n)[i], env)]
                    /\ b = [i \in DOMAIN Children(m) |-> Satisfied(Children(m)[i], env)]
    OBVIOUS
  <2>2. a = b
    <3>1. \A i \in 1 .. l : Satisfied(s[i], env) = Satisfied(Children(n)[i], env)
      BY DEF Alike
    <3>2. QED  BY <1>3, <1>4, <2>1, <3>1
  <2>3. Satisfied(n, env) = NodeSatisfied(n, a, env) /\ Satisfied(m, env) = NodeSatisfied(m, b, env)
    BY <1>1, <1>6, <2>1, SatisfiedRule
  <2>4. PICK sat : sat = {i \in DOMAIN a : a[i]}
    OBVIOUS
  <2>5. NodeSatisfied(n, a, env) = HoldsFor(n, sat) /\ NodeSatisfied(m, b, env) = HoldsFor(m, sat)
    BY <1>3, <2>2, <2>4 DEF NodeSatisfied
  <2>6. HoldsFor(m, sat) = HoldsFor(n, sat)
    BY <1>3, <1>4, HoldsForSame
  <2>7. QED  BY <2>3, <2>5, <2>6
<1>9. ASSUME PlainTree(n)  PROVE PlainTree(m)
  <2>1. Plain(n) /\ \A i \in 1 .. l : PlainTree(Children(n)[i])
    BY <1>4, <1>9, PlainParts DEF ToSet
  <2>2. \A i \in 1 .. l : PlainTree(s[i])
    BY <2>1 DEF Alike
  <2>3. Plain(m)
    BY <1>3, <2>1 DEF Plain
  <2>4. \A c \in ToSet(Children(m)) : PlainTree(c)
    BY <1>3, <2>2
  <2>5. QED  BY <1>5, <2>3, <2>4, PlainParts
<1>10. QED  BY <1>2, <1>3, <1>5, <1>7, <1>8, <1>9 DEF Alike

LEMMA AlikeSame ==
  ASSUME NEW n, IsTree(n)
  PROVE  Alike(n, n)
BY DEF Alike

LEMMA AlikeCondition ==
  ASSUME NEW c, IsTree(c), c.kind = "condition", ~RefusedCondition(c)
  PROVE  Alike(c, NormalCondition(c)) /\ IsTree(NormalCondition(c))
<1>1. IsNode(c) /\ Finite(c)
  BY TreeParts
<1>2. PICK d : d = NormalCondition(c)
  OBVIOUS
<1>3. /\ IsNode(d) /\ d.kind = "condition" /\ d.type = c.type
      /\ c.type = "REQKEY" => d = c
      /\ AtomOf(d) = AtomOf(c)
  BY <1>1, <1>2, NormalConditionFacts
<1>4. Children(d) = <<>> /\ Children(c) = <<>>
  BY <1>3 DEF Children
<1>5. IsTree(d)
  BY <1>3, <1>4, TreeFrom, ShortSets
<1>6. Finite(d)
  BY <1>5 DEF IsTree
<1>7. ReqkeysOf(d) = ReqkeysOf(c)
  <2>1. PICK a, b : /\ a = [i \in DOMAIN Children(c) |-> ReqkeysOf(Children(c)[i])]
                    /\ b = [i \in DOMAIN Children(d) |-> ReqkeysOf(Children(d)[i])]
    OBVIOUS
  <2>2. ReqkeysOf(c) = NodeReqkeys(c, a) /\ ReqkeysOf(d) = NodeReqkeys(d, b)
    BY <1>1, <1>6, <2>1, ReqkeysRule
  <2>3. QED  BY <1>3, <2>2 DEF NodeReqkeys
<1>8. PlainTree(d)
  <2>1. ToSet(Children(d)) = {}
    BY <1>4, ShortSets
  <2>2. Plain(d)
    BY <1>3 DEF Plain
  <2>3. QED  BY <1>5, <2>1, <2>2, PlainParts
<1>9. ASSUME NEW env  PROVE Satisfied(d, env) = Satisfied(c, env)
  <2>1. PICK a, b : /\ a = [i \in DOMAIN Children(c) |-> Satisfied(Children(c)[i], env)]
                    /\ b = [i \in DOMAIN Children(d) |-> Satisfied(Children(d)[i], env)]
    OBVIOUS
  <2>2. Satisfied(c, env) = NodeSatisfied(c, a, env) /\ Satisfied(d, env) = NodeSatisfied(d, b, env)
    BY <1>1, <1>6, <2>1, SatisfiedRule
  <2>3. QED  BY <1>3, <2>2 DEF NodeSatisfied
<1>10. QED  BY <1>2, <1>3, <1>5, <1>7, <1>8, <1>9 DEF Alike

\* A tree normalisation leaves alone.
Clean(m) == Normalised(m, FALSE) = [node |-> m, error |-> "none"]

LEMMA CleanOperator ==
  ASSUME NEW m, IsTree(m), m.kind = "operator",
         \A i \in DOMAIN Children(m) : Clean(Children(m)[i])
  PROVE  Clean(m)
<1>1. IsNode(m) /\ Finite(m)
  BY TreeParts
<1>2. PICK l \in Nat : /\ l = Len(Children(m)) /\ DOMAIN Children(m) = 1 .. l
                       /\ Children(m) \in Seq(ToSet(Children(m)))
  BY <1>1, NodeChildren
<1>3. PICK s : s = Children(m)
  OBVIOUS
<1>4. s = m.children /\ DOMAIN s = 1 .. l /\ s = [i \in 1 .. l |-> s[i]]
  <2>1. s \in [1 .. l -> ToSet(s)]
    BY <1>2, <1>3, LenProperties
  <2>2. QED  BY <1>2, <1>3, <2>1 DEF Children
<1>5. PICK v : v = [i \in DOMAIN Children(m) |-> Normalised(Children(m)[i], FALSE)]
  OBVIOUS
<1>6. Normalised(m, FALSE) = NormalisedNode(m, v, FALSE)
  BY <1>1, <1>5, NormalisedRule
<1>7. DOMAIN v = 1 .. l /\ \A i \in 1 .. l : v[i] = [node |-> s[i], error |-> "none"]
  BY <1>3, <1>4, <1>5 DEF Clean
<1>8. PICK t : t = [i \in DOMAIN v |-> IF \A j \in 1 .. i - 1 : v[j].error = "none"
                                       THEN v[i].node ELSE m.children[i]]
  OBVIOUS
<1>9. t = s
  <2>1. \A i \in 1 .. l : v[i].node = s[i] /\ m.children[i] = s[i]
    BY <1>4, <1>7
  <2>2. QED  BY <1>4, <1>7, <1>8, <2>1
<1>10. {i \in DOMAIN v : v[i].error # "none" /\ \A j \in 1 .. i - 1 : v[j].error = "none"} = {}
  BY <1>7
<1>11. NormalisedNode(m, v, FALSE) = [node |-> [m EXCEPT !.children = t], error |-> "none"]
  BY <1>8, <1>10 DEF NormalisedNode
<1>12. [m EXCEPT !.children = s] = m
  BY <1>1, <1>4 DEF IsNode
<1>13. QED  BY <1>6, <1>9, <1>11, <1>12 DEF Clean

\* What a walk returns of a tree, whether it comes to the end or not.
Walked(n, isFrozen) ==
  /\ Alike(n, Normalised(n, isFrozen).node)
  /\ isFrozen => Normalised(n, isFrozen).node = n
  /\ Normalised(n, isFrozen).error = "none" => Clean(Normalised(n, isFrozen).node)

LEMMA WalkedOperator ==
  ASSUME NEW n, IsTree(n), n.kind = "operator", NEW isFrozen \in BOOLEAN,
         \A i \in DOMAIN Children(n) : Walked(Children(n)[i], isFrozen)
  PROVE  Walked(n, isFrozen)
<1>1. IsNode(n) /\ Finite(n)
  BY TreeParts
<1>2. PICK l \in Nat : /\ l = Len(Children(n)) /\ DOMAIN Children(n) = 1 .. l
                       /\ Children(n) \in Seq(ToSet(Children(n)))
  BY <1>1, NodeChildren
<1>3. PICK c : c = Children(n)
  OBVIOUS
<1>4. c = n.children /\ DOMAIN c = 1 .. l /\ c = [i \in 1 .. l |-> c[i]]
  <2>1. c \in [1 .. l -> ToSet(c)]
    BY <1>2, <1>3, LenProperties
  <2>2. QED  BY <1>2, <1>3, <2>1 DEF Children
<1>5. PICK v : v = [i \in DOMAIN Children(n) |-> Normalised(Children(n)[i], isFrozen)]
  OBVIOUS
<1>6. Normalised(n, isFrozen) = NormalisedNode(n, v, isFrozen)
  BY <1>1, <1>5, NormalisedRule
<1>7. DOMAIN v = 1 .. l /\ \A i \in 1 .. l : v[i] = Normalised(c[i], isFrozen)
  BY <1>3, <1>4, <1>5
<1>8. \A i \in 1 .. l : IsTree(c[i]) /\ Walked(c[i], isFrozen)
  <2>1. \A x \in ToSet(Children(n)) : IsTree(x)
    BY TreeParts
  <2>2. QED  BY <1>3, <1>4, <2>1 DEF ToSet
<1> DEFINE reached(i) == \A j \in 1 .. i - 1 : v[j].error = "none"
           thrown == {i \in DOMAIN v : v[i].error # "none" /\ reached(i)}
<1>9. PICK s : s = [i \in DOMAIN v |-> IF reached(i) THEN v[i].node ELSE n.children[i]]
  OBVIOUS
<1>10. PICK e : e = IF thrown # {} THEN v[CHOOSE i \in thrown : TRUE].error
                    ELSE IF isFrozen THEN "TypeError" ELSE "none"
  OBVIOUS
<1>11. NormalisedNode(n, v, isFrozen) = [node |-> [n EXCEPT !.children = s], error |-> e]
  BY <1>9, <1>10 DEF NormalisedNode
<1>12. DOMAIN s = 1 .. l /\ IsRow(s, l)
       /\ \A i \in 1 .. l : s[i] = IF reached(i) THEN v[i].node ELSE c[i]
  BY <1>4, <1>7, <1>9 DEF IsRow
<1>13. PICK m : m = [n EXCEPT !.children = s]
  OBVIOUS
<1>14. Normalised(n, isFrozen).node = m /\ Normalised(n, isFrozen).error = e
  BY <1>6, <1>11, <1>13
<1>15. \A i \in 1 .. l : Alike(Children(n)[i], s[i])
  <2> HIDE DEF reached
  <2> SUFFICES ASSUME NEW i \in 1 .. l  PROVE Alike(c[i], s[i])
    BY <1>3
  <2>1. Alike(c[i], v[i].node) /\ Alike(c[i], c[i])
    BY <1>7, <1>8, AlikeSame DEF Walked
  <2>2. QED  BY <1>12, <2>1
<1>16. Alike(n, m)
  BY <1>2, <1>12, <1>13, <1>15, AlikeOperators
<1>17. isFrozen => m = n
  <2> HIDE DEF reached
  <2>1. ASSUME isFrozen  PROVE m = n
    <3>1. \A i \in 1 .. l : v[i].node = c[i]
      BY <1>7, <1>8, <2>1 DEF Walked
    <3>2. \A i \in 1 .. l : s[i] = c[i]
      BY <1>12, <3>1
    <3>3. s = c
      BY <1>4, <1>12, <3>2 DEF IsRow
    <3>4. [n EXCEPT !.children = n.children] = n
      BY <1>1 DEF IsNode
    <3>5. QED  BY <1>4, <1>13, <3>3, <3>4
  <2>2. QED  BY <2>1
<1>18. ASSUME e = "none"  PROVE Clean(m)
  <2>1. thrown = {}
    <3>1. SUFFICES ASSUME thrown # {}  PROVE FALSE
      OBVIOUS
    <3>2. PICK i : i = CHOOSE k \in thrown : TRUE
      OBVIOUS
    <3>3. i \in thrown
      BY <3>1, <3>2
    <3>4. e = v[i].error
      BY <1>10, <3>1, <3>2
    <3>5. QED  BY <1>18, <3>3, <3>4
  <2>2. \A i \in 1 .. l : v[i].error = "none"
    <3> DEFINE T == {i \in 1 .. l : v[i].error # "none"}
    <3>1. SUFFICES ASSUME T # {}  PROVE FALSE
      OBVIOUS
    <3>2. PICK i \in T : \A j \in T : i <= j
      <4>1. T \in SUBSET Nat
        OBVIOUS
      <4> HIDE DEF T
      <4>2. QED  BY <3>1, <4>1, MinNat
    <3>3. reached(i)
      <4> SUFFICES ASSUME NEW j \in 1 .. i - 1  PROVE v[j].error = "none"
        OBVIOUS
      <4>1. j \in 1 .. l /\ ~(i <= j)
        OBVIOUS
      <4>2. QED  BY <3>2, <4>1
    <3>4. QED  BY <1>7, <2>1, <3>2, <3>3
  <2>3. \A i \in 1 .. l : reached(i)
    BY <2>2
  <2> HIDE DEF reached, thrown
  <2>4. \A i \in 1 .. l : s[i] = v[i].node /\ Clean(s[i])
    BY <1>7, <1>8, <1>12, <2>2, <2>3 DEF Walked
  <2>5. /\ m.kind = "operator" /\ Children(m) = s
    BY <1>1, <1>12, <1>13, Rechilded
  <2>6. IsTree(m)
    BY <1>16 DEF Alike
  <2>7. \A i \in DOMAIN Children(m) : Clean(Children(m)[i])
    BY <1>12, <2>4, <2>5
  <2>8. QED  BY <2>5, <2>6, <2>7, CleanOperator
<1>19. QED  BY <1>14, <1>16, <1>17, <1>18 DEF Walked

LEMMA WalkedCondition ==
  ASSUME NEW n, IsTree(n), n.kind = "condition", NEW isFrozen \in BOOLEAN
  PROVE  Walked(n, isFrozen)
<1>1. IsNode(n) /\ Finite(n)
  BY TreeParts
<1>2. \A c, f : IsTree(c) /\ c.kind = "condition" =>
        \E v : Normalised(c, f) = NormalisedNode(c, v, f)
  BY TreeParts, NormalisedRule
<1>3. PICK w : w = Normalised(n, isFrozen)
  OBVIOUS
<1>4. \/ w.node = n /\ w.error # "none"
      \/ /\ w = [node |-> NormalCondition(n), error |-> "none"]
         /\ ~RefusedCondition(n) /\ (isFrozen => NormalCondition(n) = n)
  <2>1. PICK v : w = NormalisedNode(n, v, isFrozen)
    BY <1>2, <1>3
  <2>2. QED  BY <2>1 DEF NormalisedNode
<1>5. CASE w.node = n /\ w.error # "none"
  BY <1>3, <1>5, AlikeSame DEF Walked
<1>6. CASE /\ w = [node |-> NormalCondition(n), error |-> "none"]
           /\ ~RefusedCondition(n) /\ (isFrozen => NormalCondition(n) = n)
  <2>1. PICK d : d = NormalCondition(n)
    OBVIOUS
  <2>2. Alike(n, d) /\ IsTree(d)
    BY <1>6, <2>1, AlikeCondition
  <2>3. ~RefusedCondition(d) /\ NormalCondition(d) = d /\ d.kind = "condition"
    BY <1>1, <1>6, <2>1, NormalConditionFacts
  <2>4. PICK v : Normalised(d, FALSE) = NormalisedNode(d, v, FALSE)
    BY <1>2, <2>2, <2>3
  <2>5. Clean(d)
    BY <2>3, <2>4 DEF Clean, NormalisedNode
  <2>6. QED  BY <1>3, <1>6, <2>1, <2>2, <2>5 DEF Walked
<1>7. QED  BY <1>4, <1>5, <1>6

\* Normalisation keeps what a policy means, does nothing to one that is frozen,
\* and leaves nothing to do to one it came to the end of.
LEMMA NormalisedFacts ==
  ASSUME NEW root, IsTree(root), NEW isFrozen \in BOOLEAN
  PROVE  Walked(root, isFrozen)
<1> DEFINE P == {n \in Subtrees(root) : Walked(n, isFrozen)}
<1>1. ASSUME NEW n \in Subtrees(root), ToSet(Children(n)) \subseteq P
      PROVE  Walked(n, isFrozen)
  <2>1. IsTree(n) /\ IsNode(n)
    BY TreeParts
  <2>2. \A i \in DOMAIN Children(n) : Walked(Children(n)[i], isFrozen)
    BY <1>1 DEF ToSet
  <2>3. n.kind = "operator" \/ n.kind = "condition"
    BY <2>1 DEF IsNode
  <2>4. QED  BY <2>1, <2>2, <2>3, WalkedOperator, WalkedCondition
<1>2. Finite(root) /\ root \in Subtrees(root)
  BY TreeParts, SubtreeFacts
<1>3. \A n \in Subtrees(root) : ToSet(Children(n)) \subseteq P => n \in P
  BY <1>1
<1>4. Subtrees(root) \subseteq P
  <2> HIDE DEF P
  <2>1. QED  BY <1>2, <1>3, TreeInduction
<1>5. QED  BY <1>2, <1>4

-----------------------------------------------------------------------------
(* Which REQKEY conditions are in a tree, and that the canonical form does *)
(* not lose or repeat the only one.                                        *)

AllIn(s, B) == \A i \in 1 .. Len(s) : s[i] \in B
OneIn(s, O, B) ==
  \E i \in 1 .. Len(s) : s[i] \in O /\ \A j \in 1 .. Len(s) : j # i => s[j] \in B

LEMMA ConcatOne ==
  ASSUME NEW S, NEW s \in Seq(S), NEW t \in Seq(S), NEW O, NEW B
  PROVE  /\ AllIn(s, B) /\ AllIn(t, B) => AllIn(s \o t, B)
         /\ OneIn(s, O, B) /\ AllIn(t, B) => OneIn(s \o t, O, B)
         /\ AllIn(s, B) /\ OneIn(t, O, B) => OneIn(s \o t, O, B)
<1>1. PICK m \in Nat : m = Len(s)
  BY LenProperties
<1>2. PICK n \in Nat : n = Len(t)
  BY LenProperties
<1>3. PICK u : u = s \o t
  OBVIOUS
<1>4. /\ Len(u) = m + n
      /\ \A i \in 1 .. m + n : u[i] = IF i <= m THEN s[i] ELSE t[i - m]
  BY <1>1, <1>2, <1>3, ConcatProperties
<1>5. \A i \in 1 .. m : i \in 1 .. m + n /\ u[i] = s[i]
  BY <1>4
<1>6. \A i \in 1 .. n : m + i \in 1 .. m + n /\ u[m + i] = t[i]
  BY <1>4
<1>7. \A i \in 1 .. m + n : i \in 1 .. m \/ (i - m \in 1 .. n /\ u[i] = t[i - m])
  BY <1>4
<1>8. AllIn(s, B) /\ AllIn(t, B) => AllIn(u, B)
  BY <1>1, <1>2, <1>4, <1>5, <1>7 DEF AllIn
<1>9. ASSUME OneIn(s, O, B), AllIn(t, B)  PROVE OneIn(u, O, B)
  <2>1. PICK i \in 1 .. m : s[i] \in O /\ \A j \in 1 .. m : j # i => s[j] \in B
    BY <1>1, <1>9 DEF OneIn
  <2>2. i \in 1 .. m + n /\ u[i] \in O
    BY <1>5, <2>1
  <2>3. \A j \in 1 .. m + n : j # i => u[j] \in B
    BY <1>2, <1>5, <1>7, <1>9, <2>1 DEF AllIn
  <2>4. QED  BY <1>4, <2>2, <2>3 DEF OneIn
<1>10. ASSUME AllIn(s, B), OneIn(t, O, B)  PROVE OneIn(u, O, B)
  <2>1. PICK i \in 1 .. n : t[i] \in O /\ \A j \in 1 .. n : j # i => t[j] \in B
    BY <1>2, <1>10 DEF OneIn
  <2>2. m + i \in 1 .. m + n /\ u[m + i] \in O
    BY <1>6, <2>1
  <2>3. \A j \in 1 .. m + n : j # m + i => u[j] \in B
    <3> SUFFICES ASSUME NEW j \in 1 .. m + n, j # m + i  PROVE u[j] \in B
      OBVIOUS
    <3>1. CASE j \in 1 .. m
      BY <1>1, <1>5, <1>10, <3>1 DEF AllIn
    <3>2. CASE j \notin 1 .. m
      <4>1. j - m \in 1 .. n /\ u[j] = t[j - m]
        BY <1>7, <3>2
      <4>2. j - m # i
        OBVIOUS
      <4>3. QED  BY <2>1, <4>1, <4>2
    <3>3. QED  BY <3>1, <3>2
  <2>4. QED  BY <1>4, <2>2, <2>3 DEF OneIn
<1>11. QED  BY <1>3, <1>8, <1>9, <1>10

LEMMA FlattenAll ==
  ASSUME NEW S, NEW ss \in Seq(Seq(S)), NEW B, \A i \in 1 .. Len(ss) : AllIn(ss[i], B)
  PROVE  AllIn(FlattenSeq(ss), B)
<1>1. PICK n \in Nat : n = Len(ss) /\ \A i \in 1 .. n : ss[i] \in Seq(S)
  BY LenProperties, ElementOfSeq
<1>2. PICK F : /\ Flattens(F, ss) /\ FlattenSeq(ss) = F[n]
               /\ \A k \in 0 .. n : F[k] \in Seq(S)
  BY <1>1, FlattenRule
<1> DEFINE T == {k \in Nat : k <= n => AllIn(F[k], B)}
<1>3. 0 \in T
  <2>1. F[0] = <<>> /\ Len(<<>>) = 0
    BY <1>2, EmptySeq DEF Flattens
  <2>2. QED  BY <2>1 DEF AllIn
<1>4. ASSUME NEW k \in Nat, k \in T  PROVE k + 1 \in T
  <2>1. ASSUME k + 1 <= n  PROVE AllIn(F[k + 1], B)
    <3>1. k + 1 \in 1 .. n /\ (k + 1) - 1 = k /\ k \in 0 .. n
      BY <2>1
    <3>2. F[k + 1] = F[k] \o ss[k + 1]
      BY <1>1, <1>2, <3>1 DEF Flattens
    <3>3. F[k] \in Seq(S) /\ ss[k + 1] \in Seq(S) /\ AllIn(F[k], B) /\ AllIn(ss[k + 1], B)
      BY <1>1, <1>2, <1>4, <3>1
    <3>4. QED  BY ONLY <3>2, <3>3, ConcatOne
  <2>2. QED  BY <2>1
<1>5. n \in T
  <2> HIDE DEF T
  <2>1. QED  BY <1>3, <1>4, CountUp
<1>6. QED  BY <1>2, <1>5

LEMMA FlattenOne ==
  ASSUME NEW S, NEW ss \in Seq(Seq(S)), NEW O, NEW B, NEW i \in 1 .. Len(ss),
         OneIn(ss[i], O, B), \A j \in 1 .. Len(ss) : j # i => AllIn(ss[j], B)
  PROVE  OneIn(FlattenSeq(ss), O, B)
<1>1. PICK n \in Nat : n = Len(ss) /\ \A k \in 1 .. n : ss[k] \in Seq(S)
  BY LenProperties, ElementOfSeq
<1>2. PICK F : /\ Flattens(F, ss) /\ FlattenSeq(ss) = F[n]
               /\ \A k \in 0 .. n : F[k] \in Seq(S)
  BY <1>1, FlattenRule
<1> DEFINE Holds(k, f) == IF i <= k THEN OneIn(f, O, B) ELSE AllIn(f, B)
           T == {k \in Nat : k <= n => Holds(k, F[k])}
<1>3. 0 \in T
  <2>1. F[0] = <<>> /\ Len(<<>>) = 0
    BY <1>2, EmptySeq DEF Flattens
  <2>2. QED  BY <1>1, <2>1 DEF AllIn
<1>4. ASSUME NEW k \in Nat, k \in T  PROVE k + 1 \in T
  <2>1. ASSUME k + 1 <= n  PROVE Holds(k + 1, F[k + 1])
    <3>1. k + 1 \in 1 .. n /\ (k + 1) - 1 = k /\ k \in 0 .. n
      BY <2>1
    <3>2. F[k + 1] = F[k] \o ss[k + 1]
      BY <1>1, <1>2, <3>1 DEF Flattens
    <3>3. F[k] \in Seq(S) /\ ss[k + 1] \in Seq(S) /\ Holds(k, F[k])
      BY <1>1, <1>2, <1>4, <3>1
    <3>4. CASE i <= k
      <4>0. k + 1 # i /\ i <= k + 1
        BY <1>1, <3>4
      <4>1. OneIn(F[k], O, B) /\ AllIn(ss[k + 1], B) /\ i <= k + 1
        BY <1>1, <3>1, <3>3, <3>4, <4>0
      <4>2. QED  BY <3>2, <3>3, <4>1, ConcatOne
    <3>5. CASE i = k + 1
      <4>1. AllIn(F[k], B) /\ OneIn(ss[k + 1], O, B) /\ i <= k + 1
        BY <1>1, <3>1, <3>3, <3>5
      <4>2. QED  BY <3>2, <3>3, <4>1, ConcatOne
    <3>6. CASE ~(i <= k + 1)
      <4>0. k + 1 # i /\ ~(i <= k)
        BY <1>1, <3>6
      <4>1. AllIn(F[k], B) /\ AllIn(ss[k + 1], B)
        BY <1>1, <3>1, <3>3, <4>0
      <4>2. QED  BY <3>2, <3>3, <3>6, <4>1, ConcatOne
    <3>7. QED  BY <1>1, <3>4, <3>5, <3>6
  <2>2. QED  BY <2>1
<1>5. n \in T
  <2> HIDE DEF T
  <2>1. QED  BY <1>3, <1>4, CountUp
<1>6. QED  BY <1>1, <1>2, <1>5

\* A single element comes from a single part.
LEMMA FlattenSingle ==
  ASSUME NEW S, NEW ss \in Seq(Seq(S)), NEW p \in S
  PROVE  /\ FlattenSeq(ss) = <<>> => \A i \in 1 .. Len(ss) : ss[i] = <<>>
         /\ FlattenSeq(ss) = <<p>> =>
              \E i \in 1 .. Len(ss) : /\ ss[i] = <<p>>
                                      /\ \A j \in 1 .. Len(ss) : j # i => ss[j] = <<>>
<1>1. PICK n \in Nat : n = Len(ss) /\ \A k \in 1 .. n : ss[k] \in Seq(S)
  BY LenProperties, ElementOfSeq
<1>2. PICK F : /\ Flattens(F, ss) /\ FlattenSeq(ss) = F[n]
               /\ \A k \in 0 .. n : F[k] \in Seq(S)
  BY <1>1, FlattenRule
<1> DEFINE None(k) == \A i \in 1 .. k : ss[i] = <<>>
           Just(k) == \E i \in 1 .. k : ss[i] = <<p>> /\ \A j \in 1 .. k : j # i => ss[j] = <<>>
           Other(f) == Len(f) > 1 \/ (Len(f) = 1 /\ f[1] # p)
           Holds(k, f) == \/ f = <<>> /\ None(k)
                          \/ f = <<p>> /\ Just(k)
                          \/ Other(f)
           T == {k \in Nat : k <= n => Holds(k, F[k])}
<1>3. 0 \in T
  BY <1>2 DEF Flattens
<1>4. ASSUME NEW k \in Nat, k + 1 <= n, Holds(k, F[k])  PROVE Holds(k + 1, F[k + 1])
  <2>1. k + 1 \in 1 .. n /\ (k + 1) - 1 = k /\ k \in 0 .. n /\ k + 1 \in 0 .. n
    BY <1>4
  <2>2. PICK f, g, h : f = F[k] /\ g = ss[k + 1] /\ h = F[k + 1]
    OBVIOUS
  <2>3. f \in Seq(S) /\ g \in Seq(S) /\ h = f \o g /\ h \in Seq(S)
    <3>1. F[k + 1] = F[k] \o ss[k + 1]
      BY <1>1, <1>2, <2>1 DEF Flattens
    <3>2. QED  BY <1>1, <1>2, <2>1, <2>2, <3>1
  <2>4. PICK a \in Nat, b \in Nat : a = Len(f) /\ b = Len(g)
    BY <2>3, LenProperties
  <2>5. /\ Len(h) = a + b
        /\ \A i \in 1 .. a + b : h[i] = IF i <= a THEN f[i] ELSE g[i - a]
    BY <2>3, <2>4, ConcatProperties
  <2>6. \A i \in 1 .. k + 1 : i \in 1 .. k \/ i = k + 1
    OBVIOUS
  <2>7. g = <<>> \/ g = <<p>> \/ Other(g)
    <3>1. CASE b = 0
      BY <2>3, <2>4, <3>1, EmptySeq
    <3>2. CASE b = 1
      <4>1. CASE g[1] = p
        <5>1. DOMAIN g = 1 .. 1 /\ g = [i \in 1 .. 1 |-> g[i]]
          BY <2>3, <2>4, <3>2, LenProperties
        <5>2. g = [i \in 1 .. 1 |-> p]
          BY <4>1, <5>1
        <5>3. <<p>> = [i \in 1 .. 1 |-> p]
          OBVIOUS
        <5>4. QED  BY <5>2, <5>3
      <4>2. QED  BY <2>4, <3>2, <4>1
    <3>3. QED  BY <2>4, <3>1, <3>2
  <2>8. Holds(k, f)
    BY <1>4, <2>2
  <2>9. CASE f = <<>> /\ None(k)
    <3>1. h = g
      BY <2>3, <2>9, ConcatEmptySeq
    <3>2. CASE g = <<>>
      BY <2>2, <2>6, <2>9, <3>1, <3>2
    <3>3. CASE g = <<p>>
      <4>1. Just(k + 1)
        <5>1. ss[k + 1] = <<p>> /\ k + 1 \in 1 .. k + 1
          BY <2>2, <3>3
        <5>2. \A j \in 1 .. k + 1 : j # k + 1 => ss[j] = <<>>
          BY <2>6, <2>9
        <5>3. QED  BY <5>1, <5>2
      <4>2. QED  BY <2>2, <3>1, <3>3, <4>1
    <3>4. CASE Other(g)
      BY <2>2, <3>1, <3>4
    <3>5. QED  BY <2>7, <3>2, <3>3, <3>4
  <2>10. CASE f = <<p>> /\ Just(k)
    <3>1. a = 1
      BY <2>4, <2>10
    <3>2. CASE g = <<>>
      <4>1. h = f
        BY <2>3, <3>2, ConcatEmptySeq
      <4>2. Just(k + 1)
        <5>1. PICK i \in 1 .. k : ss[i] = <<p>> /\ \A j \in 1 .. k : j # i => ss[j] = <<>>
          BY <2>10
        <5>2. ss[k + 1] = <<>> /\ i \in 1 .. k + 1
          BY <2>2, <3>2
        <5>3. \A j \in 1 .. k + 1 : j # i => ss[j] = <<>>
          BY <2>6, <5>1, <5>2
        <5>4. QED  BY <5>1, <5>2, <5>3
      <4>3. QED  BY <2>2, <2>10, <4>1, <4>2
    <3>3. CASE g # <<>>
      <4>1. b > 0
        BY <2>3, <2>4, <3>3, EmptySeq
      <4>2. QED  BY <2>2, <2>5, <3>1, <4>1
    <3>4. QED  BY <3>2, <3>3
  <2>11. CASE Other(f)
    <3>1. a > 1 \/ (a = 1 /\ f[1] # p)
      BY <2>4, <2>11
    <3>2. a + b > 1 \/ (a + b = 1 /\ h[1] # p)
      BY <2>5, <3>1
    <3>3. QED  BY <2>2, <2>5, <3>2
  <2>12. QED  BY <2>8, <2>9, <2>10, <2>11
<1>5. n \in T
  <2> HIDE DEF Holds
  <2>1. ASSUME NEW k \in Nat, k \in T  PROVE k + 1 \in T
    <3>1. k + 1 <= n => Holds(k + 1, F[k + 1])
      BY <1>4, <2>1
    <3>2. QED  BY <3>1
  <2> HIDE DEF T
  <2>2. QED  BY <1>3, <2>1, CountUp
<1>6. Holds(n, F[n])
  BY <1>5
<1>7. \A x : Len(<<x>>) = 1 /\ <<x>>[1] = x
  OBVIOUS
<1>8. Len(<<>>) = 0
  OBVIOUS
<1>9. F[n] = <<>> => None(n)
  BY <1>6, <1>7, <1>8
<1>10. F[n] = <<p>> => Just(n)
  BY <1>6, <1>7, <1>8
<1>11. QED  BY <1>1, <1>2, <1>9, <1>10

\* Trees without a REQKEY condition, and those with just the one p belongs to.
Bare(S) == {n \in S : ReqkeysOf(n) = <<>>}
Bearer(S, p) == {n \in S : ReqkeysOf(n) = <<p>>}

LEMMA EmptyAll ==
  ASSUME NEW S, NEW s \in Seq(S)
  PROVE  AllIn(s, {}) <=> s = <<>>
<1>1. PICK n \in Nat : n = Len(s)
  BY LenProperties
<1>2. n = 0 <=> s = <<>>
  BY <1>1, EmptySeq
<1>3. AllIn(s, {}) <=> n = 0
  BY <1>1 DEF AllIn
<1>4. QED  BY <1>2, <1>3

LEMMA SingleOne ==
  ASSUME NEW S, NEW s \in Seq(S), NEW p
  PROVE  OneIn(s, {p}, {}) <=> s = <<p>>
<1>1. PICK n \in Nat : n = Len(s) /\ s \in [1 .. n -> S]
  BY LenProperties
<1>2. ASSUME OneIn(s, {p}, {})  PROVE s = <<p>>
  <2>1. PICK i \in 1 .. n : s[i] = p /\ \A j \in 1 .. n : j # i => s[j] \in {}
    BY <1>1, <1>2 DEF OneIn
  <2>2. n = 1
    <3>1. SUFFICES ASSUME n # 1  PROVE FALSE
      OBVIOUS
    <3>2. n > 1
      BY <2>1, <3>1
    <3>3. IF i = 1 THEN 2 \in 1 .. n /\ 2 # i ELSE 1 \in 1 .. n /\ 1 # i
      BY <2>1, <3>2
    <3>4. QED  BY <2>1, <3>3
  <2>3. s = [j \in 1 .. 1 |-> s[j]] /\ s[1] = p
    BY <1>1, <2>1, <2>2
  <2>4. s = [j \in 1 .. 1 |-> p]
    BY <2>3
  <2>5. <<p>> = [j \in 1 .. 1 |-> p]
    OBVIOUS
  <2>6. QED  BY <2>4, <2>5
<1>3. OneIn(<<p>>, {p}, {})
  BY DEF OneIn
<1>4. QED  BY <1>2, <1>3

\* The parameters of the REQKEY conditions of a tree.
LEMMA ReqkeysType ==
  ASSUME NEW root, IsTree(root), NEW V,
         \A c \in ConditionsOf(root) : c.type = "REQKEY" => c.params \in V
  PROVE  ReqkeysOf(root) \in Seq(V)
<1> DEFINE P == {n \in Subtrees(root) : ReqkeysOf(n) \in Seq(V)}
<1>1. ASSUME NEW n \in Subtrees(root), ToSet(Children(n)) \subseteq P
      PROVE  ReqkeysOf(n) \in Seq(V)
  <2>1. IsNode(n) /\ Finite(n)
    BY TreeParts
  <2>2. PICK l \in Nat : l = Len(Children(n)) /\ DOMAIN Children(n) = 1 .. l
    BY <2>1, NodeChildren
  <2>3. PICK a : a = [i \in DOMAIN Children(n) |-> ReqkeysOf(Children(n)[i])]
    OBVIOUS
  <2>4. ReqkeysOf(n) = NodeReqkeys(n, a)
    BY <2>1, <2>3, ReqkeysRule
  <2>5. CASE n.kind = "operator"
    <3>1. \A i \in 1 .. l : ReqkeysOf(Children(n)[i]) \in Seq(V)
      BY <1>1, <2>2 DEF ToSet
    <3>2. a \in [1 .. l -> Seq(V)]
      BY <2>2, <2>3, <3>1
    <3>3. a \in Seq(Seq(V))
      BY <3>2, FunctionIsSeq
    <3>4. FlattenSeq(a) \in Seq(V)
      BY <3>3, FlattenType
    <3>5. QED  BY <2>4, <2>5, <3>4 DEF NodeReqkeys
  <2>6. CASE n.kind # "operator"
    <3>1. n \in ConditionsOf(root)
      BY <2>1, <2>6 DEF IsNode, ConditionsOf
    <3>2. CASE n.type = "REQKEY"
      <4>1. n.params \in V
        BY <3>1, <3>2
      <4>2. QED  BY <2>4, <2>6, <3>2, <4>1 DEF NodeReqkeys
    <3>3. CASE n.type # "REQKEY"
      BY <2>4, <2>6, <3>3, EmptySeq DEF NodeReqkeys
    <3>4. QED  BY <3>2, <3>3
  <2>7. QED  BY <2>5, <2>6
<1>2. Finite(root) /\ root \in Subtrees(root)
  BY TreeParts, SubtreeFacts
<1>3. \A n \in Subtrees(root) : ToSet(Children(n)) \subseteq P => n \in P
  BY <1>1
<1>4. Subtrees(root) \subseteq P
  <2> HIDE DEF P
  <2>1. QED  BY <1>2, <1>3, TreeInduction
<1>5. QED  BY <1>2, <1>4

\* The REQKEY conditions of an operator are its children's.
LEMMA OperatorReqkeys ==
  ASSUME NEW n, IsTree(n), n.kind = "operator", NEW S, ToSet(Children(n)) \subseteq S
  PROVE  /\ ReqkeysOf(n) = <<>> <=> AllIn(Children(n), Bare(S))
         /\ \A p : ReqkeysOf(n) = <<p>> <=> OneIn(Children(n), Bearer(S, p), Bare(S))
<1>1. IsNode(n) /\ Finite(n) /\ n \in Subtrees(n) /\ ToSet(Children(n)) \subseteq Subtrees(n)
  BY TreeParts, SubtreeFacts
<1>0. PICK c : c = Children(n)
  OBVIOUS
<1>2. PICK l \in Nat : c = Children(n) /\ l = Len(c) /\ DOMAIN c = 1 .. l
  BY <1>0, <1>1, NodeChildren
<1>3. PICK a : a = [i \in DOMAIN Children(n) |-> ReqkeysOf(Children(n)[i])]
  OBVIOUS
<1>4. ReqkeysOf(n) = FlattenSeq(a)
  <2>1. ReqkeysOf(n) = NodeReqkeys(n, a)
    BY <1>1, <1>3, ReqkeysRule
  <2>2. QED  BY <2>1 DEF NodeReqkeys
<1>5. \A i \in 1 .. l : a[i] = ReqkeysOf(c[i]) /\ c[i] \in S
  BY <1>2, <1>3 DEF ToSet
<1> DEFINE V(p) == {m.params : m \in ConditionsOf(n)} \cup {p}
<1>6. ASSUME NEW p  PROVE a \in Seq(Seq(V(p))) /\ Len(a) = l /\ ReqkeysOf(n) \in Seq(V(p))
  <2>1. ASSUME NEW m, m \in Subtrees(n)  PROVE ReqkeysOf(m) \in Seq(V(p))
    <3>1. IsTree(m) /\ Subtrees(m) \subseteq Subtrees(n)
      BY <1>1, <2>1, TreeParts, SubtreeFacts
    <3>2. \A x \in ConditionsOf(m) : x.params \in V(p)
      BY <3>1 DEF ConditionsOf
    <3> HIDE DEF V
    <3>3. QED  BY <3>1, <3>2, ReqkeysType
  <2>2. \A i \in 1 .. l : c[i] \in Subtrees(n)
    BY <1>1, <1>2 DEF ToSet
  <2> HIDE DEF V
  <2>3. a \in [1 .. l -> Seq(V(p))]
    BY <1>2, <1>3, <2>1, <2>2
  <2>4. QED  BY <1>1, <2>1, <2>3, FunctionIsSeq
<1> HIDE DEF V
<1>7. ASSUME ReqkeysOf(n) = <<>>  PROVE AllIn(c, Bare(S))
  <2>1. PICK p : p \in V(<<>>)
    BY DEF V
  <2>2. \A i \in 1 .. l : a[i] = <<>>
    <3>1. a \in Seq(Seq(V(<<>>))) /\ Len(a) = l /\ FlattenSeq(a) = <<>>
      BY <1>4, <1>6, <1>7
    <3>2. QED  BY ONLY <2>1, <3>1, FlattenSingle
  <2>3. QED  BY <1>2, <1>5, <2>2 DEF AllIn, Bare
<1>8. ASSUME AllIn(c, Bare(S))  PROVE ReqkeysOf(n) = <<>>
  <2>1. \A i \in 1 .. l : AllIn(a[i], {})
    <3>1. \A i \in 1 .. l : a[i] = <<>>
      BY <1>2, <1>5, <1>8 DEF AllIn, Bare
    <3>2. AllIn(<<>>, {})
      BY DEF AllIn
    <3>3. QED  BY <3>1, <3>2
  <2>2. AllIn(FlattenSeq(a), {})
    BY <1>6, <2>1, FlattenAll
  <2>3. QED  BY <1>4, <1>6, <2>2, EmptyAll
<1>9. ASSUME NEW p, ReqkeysOf(n) = <<p>>  PROVE OneIn(c, Bearer(S, p), Bare(S))
  <2>1. p \in V(p)
    BY DEF V
  <2>2. PICK i \in 1 .. l : a[i] = <<p>> /\ \A j \in 1 .. l : j # i => a[j] = <<>>
    <3>1. a \in Seq(Seq(V(p))) /\ Len(a) = l /\ FlattenSeq(a) = <<p>>
      BY <1>4, <1>6, <1>9
    <3>2. QED  BY ONLY <2>1, <3>1, FlattenSingle
  <2>3. /\ c[i] \in Bearer(S, p)
        /\ \A j \in 1 .. l : j # i => c[j] \in Bare(S)
    BY <1>5, <2>2 DEF Bare, Bearer
  <2>4. QED  BY <1>2, <2>3 DEF OneIn
<1>10. ASSUME NEW p, OneIn(c, Bearer(S, p), Bare(S))  PROVE ReqkeysOf(n) = <<p>>
  <2>1. PICK i \in 1 .. l : a[i] = <<p>> /\ \A j \in 1 .. l : j # i => a[j] = <<>>
    BY <1>2, <1>5, <1>10 DEF OneIn, Bare, Bearer
  <2>2. OneIn(<<p>>, {p}, {}) /\ AllIn(<<>>, {})
    BY DEF OneIn, AllIn
  <2>3. OneIn(a[i], {p}, {}) /\ \A j \in 1 .. l : j # i => AllIn(a[j], {})
    BY <2>1, <2>2
  <2>4. a \in Seq(Seq(V(p))) /\ Len(a) = l
    BY <1>6
  <2>5. OneIn(FlattenSeq(a), {p}, {})
    BY ONLY <2>1, <2>3, <2>4, FlattenOne
  <2>6. ReqkeysOf(n) \in Seq(V(p)) /\ OneIn(ReqkeysOf(n), {p}, {})
    BY <1>4, <1>6, <2>5
  <2>7. QED  BY ONLY <2>6, SingleOne
<1>11. QED  BY <1>2, <1>7, <1>8, <1>9, <1>10

LEMMA FlattenedOne ==
  ASSUME NEW S, NEW kids \in Seq(S), NEW op \in Associative, NEW O, NEW B,
         \A i \in 1 .. Len(kids) : IsOperator(kids[i], op) =>
           /\ kids[i].children \in Seq(S)
           /\ kids[i] \in B => AllIn(kids[i].children, B)
           /\ kids[i] \in O => OneIn(kids[i].children, O, B)
  PROVE  /\ AllIn(kids, B) => AllIn(Flattened(op, kids), B)
         /\ OneIn(kids, O, B) => OneIn(Flattened(op, kids), O, B)
<1> DEFINE part(i) == IF IsOperator(kids[i], op) THEN kids[i].children ELSE <<kids[i]>>
<1>1. PICK n \in Nat : /\ n = Len(kids) /\ DOMAIN kids = 1 .. n
                       /\ \A i \in 1 .. n : kids[i] \in S
  BY LenProperties, ElementOfSeq
<1>2. PICK f : f = [i \in 1 .. n |-> part(i)]
  OBVIOUS
<1>3. Flattened(op, kids) = FlattenSeq(f)
  BY <1>1, <1>2 DEF Flattened
<1>4. \A i \in 1 .. n : f[i] = part(i) /\ part(i) \in Seq(S)
  BY <1>1, <1>2
<1>5. f \in Seq(Seq(S)) /\ Len(f) = n
  <2> HIDE DEF part
  <2>1. f \in [1 .. n -> Seq(S)]
    BY <1>2, <1>4
  <2>2. QED  BY <2>1, FunctionIsSeq
<1>6. \A i \in 1 .. n : /\ kids[i] \in B => AllIn(f[i], B)
                        /\ kids[i] \in O => OneIn(f[i], O, B)
  <2> SUFFICES ASSUME NEW i \in 1 .. n
               PROVE  /\ kids[i] \in B => AllIn(f[i], B)
                      /\ kids[i] \in O => OneIn(f[i], O, B)
    OBVIOUS
  <2>1. CASE IsOperator(kids[i], op)
    BY <1>1, <1>4, <2>1
  <2>2. CASE ~IsOperator(kids[i], op)
    <3>1. f[i] = <<kids[i]>>
      BY <1>4, <2>2
    <3>2. kids[i] \in B => AllIn(<<kids[i]>>, B)
      BY DEF AllIn
    <3>3. kids[i] \in O => OneIn(<<kids[i]>>, O, B)
      BY DEF OneIn
    <3>4. QED  BY <3>1, <3>2, <3>3
  <2>3. QED  BY <2>1, <2>2
<1> HIDE DEF part
<1>7. ASSUME AllIn(kids, B)  PROVE AllIn(FlattenSeq(f), B)
  <2>1. \A i \in 1 .. n : AllIn(f[i], B)
    BY <1>1, <1>6, <1>7 DEF AllIn
  <2>2. QED  BY <1>5, <2>1, FlattenAll
<1>8. ASSUME OneIn(kids, O, B)  PROVE OneIn(FlattenSeq(f), O, B)
  <2>1. PICK i \in 1 .. n : kids[i] \in O /\ \A j \in 1 .. n : j # i => kids[j] \in B
    BY <1>1, <1>8 DEF OneIn
  <2>2. OneIn(f[i], O, B) /\ \A j \in 1 .. n : j # i => AllIn(f[j], B)
    BY <1>6, <2>1
  <2>3. QED  BY ONLY <1>5, <2>1, <2>2, FlattenOne
<1>9. QED  BY <1>3, <1>7, <1>8

LEMMA PermutedOne ==
  ASSUME NEW S, NEW s \in Seq(S), NEW t \in Seq(S), Len(t) = Len(s),
         NEW p, Permutes(p, s, t), NEW O, NEW B
  PROVE  /\ AllIn(s, B) => AllIn(t, B)
         /\ OneIn(s, O, B) => OneIn(t, O, B)
<1>1. PICK n \in Nat : n = Len(s) /\ DOMAIN s = 1 .. n
  BY LenProperties
<1>2. /\ \A k \in 1 .. n : t[k] = s[p[k]] /\ p[k] \in 1 .. n
      /\ \A i \in 1 .. n : \E k \in 1 .. n : p[k] = i
      /\ \A j, k \in 1 .. n : p[j] = p[k] => j = k
  BY <1>1 DEF Permutes, Bijection, Injection, IsInjective, Surjection
<1>3. ASSUME AllIn(s, B)  PROVE AllIn(t, B)
  <2>1. \A i \in 1 .. n : s[i] \in B
    BY <1>1, <1>3 DEF AllIn
  <2>2. \A k \in 1 .. n : t[k] \in B
    BY <1>2, <2>1
  <2>3. QED  BY <1>1, <2>2 DEF AllIn
<1>4. ASSUME OneIn(s, O, B)  PROVE OneIn(t, O, B)
  <2>1. PICK i \in 1 .. n : s[i] \in O /\ \A j \in 1 .. n : j # i => s[j] \in B
    BY <1>1, <1>4 DEF OneIn
  <2>2. PICK k \in 1 .. n : p[k] = i
    BY <1>2
  <2>3. t[k] \in O /\ \A j \in 1 .. n : j # k => t[j] \in B
    <3>1. t[k] = s[i]
      BY <1>2, <2>2
    <3>2. ASSUME NEW j \in 1 .. n, j # k  PROVE t[j] \in B
      <4>1. p[j] \in 1 .. n /\ p[j] # i /\ t[j] = s[p[j]]
        BY <1>2, <2>2, <3>2
      <4>2. QED  BY <2>1, <4>1
    <3>3. QED  BY <2>1, <3>1, <3>2
  <2>4. QED  BY <1>1, <2>3 DEF OneIn
<1>5. QED  BY <1>3, <1>4

LEMMA UnrepeatedOne ==
  ASSUME NEW S, NEW kids \in Seq(S), NEW op \in DuplicateInsensitive, NEW O, NEW B,
         O \cap B = {}
  PROVE  /\ AllIn(kids, B) => AllIn(Unrepeated(op, kids), B)
         /\ OneIn(kids, O, B) => OneIn(Unrepeated(op, kids), O, B)
<1>1. PICK n \in Nat : /\ n = Len(kids) /\ DOMAIN kids = 1 .. n
                       /\ \A i \in 1 .. n : kids[i] \in S
  BY LenProperties, ElementOfSeq
<1>2. PICK ss : ss = [i \in 1 .. n |-> IF i > 1 /\ kids[i] = kids[IF i > 1 THEN i - 1 ELSE i]
                                       THEN <<>> ELSE <<kids[i]>>]
  OBVIOUS
<1>3. Unrepeated(op, kids) = FlattenSeq(ss)
  BY <1>1, <1>2 DEF Unrepeated
<1>4. \A i \in 1 .. n : ss[i] = IF i > 1 /\ kids[i] = kids[i - 1] THEN <<>> ELSE <<kids[i]>>
  BY <1>2
<1>5. ss \in Seq(Seq(S)) /\ Len(ss) = n
  <2>1. ASSUME NEW i \in 1 .. n  PROVE ss[i] \in Seq(S)
    <3>1. <<>> \in Seq(S) /\ <<kids[i]>> \in Seq(S)
      BY <1>1, EmptySeq
    <3>2. ss[i] = <<>> \/ ss[i] = <<kids[i]>>
      BY <1>4
    <3>3. QED  BY <3>1, <3>2
  <2>2. ss \in [1 .. n -> Seq(S)]
    BY <1>2, <2>1
  <2>3. QED  BY <2>2, FunctionIsSeq
<1>6. ASSUME NEW i \in 1 .. n, kids[i] \in B  PROVE AllIn(ss[i], B)
  <2>1. ss[i] = <<>> \/ ss[i] = <<kids[i]>>
    BY <1>4
  <2>2. AllIn(<<>>, B) /\ AllIn(<<kids[i]>>, B)
    BY <1>6 DEF AllIn
  <2>3. QED  BY <2>1, <2>2
<1>7. ASSUME AllIn(kids, B)  PROVE AllIn(FlattenSeq(ss), B)
  <2>1. \A i \in 1 .. n : AllIn(ss[i], B)
    BY <1>1, <1>6, <1>7 DEF AllIn
  <2>2. QED  BY <1>5, <2>1, FlattenAll
<1>8. ASSUME OneIn(kids, O, B)  PROVE OneIn(FlattenSeq(ss), O, B)
  <2>1. PICK i \in 1 .. n : kids[i] \in O /\ \A j \in 1 .. n : j # i => kids[j] \in B
    BY <1>1, <1>8 DEF OneIn
  <2>2. ss[i] = <<kids[i]>>
    <3>1. i > 1 => i - 1 \in 1 .. n /\ i - 1 # i
      OBVIOUS
    <3>2. i > 1 => kids[i - 1] \in B
      BY <2>1, <3>1
    <3>3. QED  BY <1>4, <2>1, <3>2
  <2>3. OneIn(<<kids[i]>>, O, B)
    BY <2>1 DEF OneIn
  <2>4. OneIn(ss[i], O, B) /\ \A j \in 1 .. n : j # i => AllIn(ss[j], B)
    BY <1>6, <2>1, <2>2, <2>3
  <2>5. QED  BY ONLY <1>5, <2>1, <2>4, FlattenOne
<1>9. QED  BY <1>3, <1>7, <1>8

LEMMA ChildrenOne ==
  ASSUME NEW S, \A c \in S : IsTree(c), NEW kids \in Seq(S), NEW op, NEW O, NEW B,
         O \cap B = {}, Flattened(op, kids) \in Seq(S),
         op \in Associative => \A i \in 1 .. Len(kids) : IsOperator(kids[i], op) =>
           /\ kids[i].children \in Seq(S)
           /\ kids[i] \in B => AllIn(kids[i].children, B)
           /\ kids[i] \in O => OneIn(kids[i].children, O, B)
  PROVE  /\ AllIn(kids, B) => AllIn(CanonicalChildren(op, kids), B)
         /\ OneIn(kids, O, B) => OneIn(CanonicalChildren(op, kids), O, B)
<1>1. PICK f : f = Flattened(op, kids)
  OBVIOUS
<1>2. PICK s : s = Sorted(op, f)
  OBVIOUS
<1>3. PICK u : u = Unrepeated(op, s)
  OBVIOUS
<1> DEFINE Holds(t) == /\ AllIn(kids, B) => AllIn(t, B)
                       /\ OneIn(kids, O, B) => OneIn(t, O, B)
<1>4. Holds(f)
  <2>1. CASE op \in Associative
    BY <1>1, <2>1, FlattenedOne
  <2>2. CASE op \notin Associative
    BY <1>1, <2>2 DEF Flattened
  <2>3. QED  BY <2>1, <2>2
<1>5. Holds(s) /\ s \in Seq(S)
  <2>1. CASE op \in Commutative
    <3>1. s \in Seq(S) /\ Len(s) = Len(f) /\ f \in Seq(S)
      BY <1>1, <1>2, <2>1, SortedFacts
    <3>2. PICK p : Permutes(p, f, s)
      BY <1>1, <1>2, <2>1, SortedFacts
    <3>3. QED  BY <1>4, <3>1, <3>2, PermutedOne
  <2>2. CASE op \notin Commutative
    <3>1. s = f
      BY <1>2, <2>2 DEF Sorted
    <3>2. QED  BY <1>1, <1>4, <3>1
  <2>3. QED  BY <2>1, <2>2
<1>6. Holds(u)
  <2>1. CASE op \in DuplicateInsensitive
    BY <1>3, <1>5, <2>1, UnrepeatedOne
  <2>2. CASE op \notin DuplicateInsensitive
    <3>1. u = s
      BY <1>3, <2>2 DEF Unrepeated
    <3>2. QED  BY <1>5, <3>1
  <2>3. QED  BY <2>1, <2>2
<1>7. QED  BY <1>1, <1>2, <1>3, <1>6 DEF CanonicalChildren

\* One operator over canonical children.
LEMMA CanonicalOperatorOne ==
  ASSUME NEW n, IsNode(n), n.kind = "operator", n.operator \in Operators,
         NEW l \in Nat, NEW kids, kids = [i \in 1 .. l |-> kids[i]],
         \A i \in 1 .. l : NormalTree(kids[i]),
         NEW S, S = UNION {Subtrees(kids[i]) : i \in 1 .. l}
  PROVE  /\ AllIn(kids, Bare(S)) => ReqkeysOf(CanonicalNode(n, kids)) = <<>>
         /\ \A p : OneIn(kids, Bearer(S, p), Bare(S)) =>
                     ReqkeysOf(CanonicalNode(n, kids)) = <<p>>
<1> DEFINE op == n.operator
<1>1. \A c \in S : NormalTree(c)
  BY NormalParts
<1>2. \A i \in 1 .. l : kids[i] \in S
  BY NormalParts
<1>3. kids \in Seq(S) /\ Len(kids) = l
  <2>1. kids \in [1 .. l -> S]
    BY <1>2
  <2>2. QED  BY <2>1, FunctionIsSeq
<1>4. PICK u : u = CanonicalChildren(op, kids)
  OBVIOUS
<1>5. PICK r : r = CanonicalNode(n, kids)
  OBVIOUS
<1>6. /\ NormalTree(r) /\ r.kind = "operator" /\ r.children = u
      /\ ToSet(u) = ToSet(Flattened(op, kids))
  BY <1>4, <1>5, CanonicalOperator DEF SameHead
<1>7. ASSUME NEW i \in 1 .. l, IsOperator(kids[i], op)
      PROVE  /\ kids[i].children \in Seq(S)
             /\ kids[i] \in Bare(S) => AllIn(kids[i].children, Bare(S))
             /\ \A p : kids[i] \in Bearer(S, p) =>
                         OneIn(kids[i].children, Bearer(S, p), Bare(S))
  <2> PICK c : c = kids[i]
    OBVIOUS
  <2>1. NormalTree(c) /\ c.kind = "operator"
    BY <1>7 DEF IsOperator
  <2>2. IsTree(c) /\ IsNode(c) /\ Finite(c) /\ c \in Subtrees(c)
    BY <2>1, NormalParts, TreeParts
  <2>3. Children(c) = c.children
    BY <2>1 DEF Children
  <2>4. ToSet(Children(c)) \subseteq S
    <3>1. Subtrees(c) \subseteq S
      OBVIOUS
    <3>2. ToSet(Children(c)) \subseteq Subtrees(c)
      BY <2>2, SubtreeFacts
    <3>3. QED  BY <3>1, <3>2
  <2>5. Children(c) \in Seq(S)
    <3>1. Children(c) \in Seq(ToSet(Children(c)))
      BY <2>2, NodeChildren
    <3>2. QED  BY ONLY <2>4, <3>1, SeqMonotonic
  <2>6. /\ ReqkeysOf(c) = <<>> <=> AllIn(Children(c), Bare(S))
        /\ \A p : ReqkeysOf(c) = <<p>> <=> OneIn(Children(c), Bearer(S, p), Bare(S))
    BY <2>1, <2>2, <2>4, OperatorReqkeys
  <2>7. c \in Bare(S) => ReqkeysOf(c) = <<>>
    BY DEF Bare
  <2>8. \A p : c \in Bearer(S, p) => ReqkeysOf(c) = <<p>>
    BY DEF Bearer
  <2>9. QED  BY <2>3, <2>5, <2>6, <2>7, <2>8
<1>8. Flattened(op, kids) \in Seq(S)
  <2>1. CASE op \in Associative
    BY <1>3, <1>7, <2>1, FlattenedFacts
  <2>2. CASE op \notin Associative
    BY <1>3, <2>2 DEF Flattened
  <2>3. QED  BY <2>1, <2>2
<1>9. \A c \in S : IsTree(c)
  BY <1>1 DEF NormalTree
<1>10. \A p : Bearer(S, p) \cap Bare(S) = {}
  <2>1. \A p : Len(<<p>>) = 1 /\ Len(<<>>) = 0
    OBVIOUS
  <2>2. \A p : <<p>> # <<>>
    BY <2>1
  <2>3. QED  BY <2>2 DEF Bearer, Bare
<1>11. ASSUME NEW p
       PROVE  /\ AllIn(kids, Bare(S)) => AllIn(u, Bare(S))
              /\ OneIn(kids, Bearer(S, p), Bare(S)) => OneIn(u, Bearer(S, p), Bare(S))
  <2>1. op \in Associative => \A i \in 1 .. Len(kids) : IsOperator(kids[i], op) =>
          /\ kids[i].children \in Seq(S)
          /\ kids[i] \in Bare(S) => AllIn(kids[i].children, Bare(S))
          /\ kids[i] \in Bearer(S, p) => OneIn(kids[i].children, Bearer(S, p), Bare(S))
    BY <1>3, <1>7
  <2>2. PICK O, B : O = Bearer(S, p) /\ B = Bare(S)
    OBVIOUS
  <2>3. O \cap B = {}
    BY <1>10, <2>2
  <2>4. op \in Associative => \A i \in 1 .. Len(kids) : IsOperator(kids[i], op) =>
          /\ kids[i].children \in Seq(S)
          /\ kids[i] \in B => AllIn(kids[i].children, B)
          /\ kids[i] \in O => OneIn(kids[i].children, O, B)
    BY <2>1, <2>2
  <2>5. /\ AllIn(kids, B) => AllIn(CanonicalChildren(op, kids), B)
        /\ OneIn(kids, O, B) => OneIn(CanonicalChildren(op, kids), O, B)
    BY ONLY <1>3, <1>8, <1>9, <2>3, <2>4, ChildrenOne
  <2>6. QED  BY <1>4, <2>2, <2>5
<1>12. Children(r) = u /\ IsTree(r)
  BY <1>6 DEF Children, NormalTree
<1>13. ToSet(Children(r)) \subseteq S
  <2>1. ToSet(Flattened(op, kids)) \subseteq S
    BY <1>8, LenProperties, ElementOfSeq DEF ToSet
  <2>2. QED  BY <1>6, <1>12, <2>1
<1>14. /\ ReqkeysOf(r) = <<>> <=> AllIn(Children(r), Bare(S))
       /\ \A p : ReqkeysOf(r) = <<p>> <=> OneIn(Children(r), Bearer(S, p), Bare(S))
  BY <1>6, <1>12, <1>13, OperatorReqkeys
<1>15. QED  BY <1>5, <1>11, <1>12, <1>14

\* The canonical form has no REQKEY condition, or the same single one.
LEMMA OneKept ==
  ASSUME NEW root, IsTree(root), Known(root)
  PROVE  /\ ReqkeysOf(root) = <<>> => ReqkeysOf(Canonical(root)) = <<>>
         /\ \A p : ReqkeysOf(root) = <<p>> => ReqkeysOf(Canonical(root)) = <<p>>
<1> DEFINE Holds(n) == /\ ReqkeysOf(n) = <<>> => ReqkeysOf(Canonical(n)) = <<>>
                       /\ \A p : ReqkeysOf(n) = <<p>> => ReqkeysOf(Canonical(n)) = <<p>>
           P == {n \in Subtrees(root) : Holds(n)}
<1>1. ASSUME NEW n \in Subtrees(root), ToSet(Children(n)) \subseteq P  PROVE Holds(n)
  <2>1. IsNode(n) /\ Finite(n) /\ IsTree(n) /\ Known(n) /\ Subtrees(n) \subseteq Subtrees(root)
    BY TreeParts, SubtreeFacts DEF Known
  <2>2. PICK kids : kids = [i \in DOMAIN Children(n) |-> Canonical(Children(n)[i])]
    OBVIOUS
  <2>3. Canonical(n) = CanonicalNode(n, kids)
    BY <2>1, <2>2, CanonicalRule
  <2>4. CASE n.kind = "operator"
    <3>1. PICK c : c = Children(n)
      OBVIOUS
    <3>2. PICK l \in Nat : l = Len(c) /\ DOMAIN c = 1 .. l
      BY <2>1, <3>1, NodeChildren
    <3>3. \A i \in 1 .. l : c[i] \in P /\ kids[i] = Canonical(c[i])
      BY <1>1, <2>2, <3>1, <3>2 DEF ToSet
    <3>4. \A i \in 1 .. l : NormalTree(kids[i])
      <4>1. ASSUME NEW i \in 1 .. l  PROVE IsTree(c[i]) /\ Known(c[i])
        <5>1. c[i] \in Subtrees(root)
          BY <3>3
        <5>2. Subtrees(c[i]) \subseteq Subtrees(root)
          BY <5>1, TreeParts, SubtreeFacts
        <5>3. QED  BY <5>1, <5>2, TreeParts DEF Known
      <4>2. QED  BY <3>3, <4>1, CanonicalIsNormal
    <3>5. kids = [i \in 1 .. l |-> kids[i]] /\ Len(kids) = l
      <4>1. kids = [i \in 1 .. l |-> kids[i]]
        BY <2>2, <3>1, <3>2
      <4>2. kids \in [1 .. l -> {kids[i] : i \in 1 .. l}]
        BY <4>1
      <4>3. QED  BY <4>1, <4>2, FunctionIsSeq
    <3>6. n.operator \in Operators /\ n \in Subtrees(n)
      BY <2>1, <2>4, SubtreeFacts DEF Known
    <3>7. PICK S : S = UNION {Subtrees(kids[i]) : i \in 1 .. l}
      OBVIOUS
    <3>8. PICK D : D = ToSet(Children(n))
      OBVIOUS
    <3>9. /\ ReqkeysOf(n) = <<>> <=> AllIn(c, Bare(D))
          /\ \A p : ReqkeysOf(n) = <<p>> <=> OneIn(c, Bearer(D, p), Bare(D))
      BY <2>1, <2>4, <3>1, <3>8, OperatorReqkeys
    <3>10. /\ AllIn(kids, Bare(S)) => ReqkeysOf(Canonical(n)) = <<>>
           /\ \A p : OneIn(kids, Bearer(S, p), Bare(S)) => ReqkeysOf(Canonical(n)) = <<p>>
      BY <2>1, <2>3, <2>4, <3>4, <3>5, <3>6, <3>7, CanonicalOperatorOne
    <3>11. ASSUME NEW i \in 1 .. l
           PROVE  /\ c[i] \in Bare(D) => kids[i] \in Bare(S)
                  /\ \A p : c[i] \in Bearer(D, p) => kids[i] \in Bearer(S, p)
      <4>1. Holds(c[i])
        BY <3>3
      <4>2. kids[i] \in S
        BY <3>4, <3>7, NormalParts
      <4>3. QED  BY <3>3, <4>1, <4>2 DEF Bare, Bearer
    <3>12. AllIn(c, Bare(D)) => AllIn(kids, Bare(S))
      BY <3>2, <3>5, <3>11 DEF AllIn
    <3>13. ASSUME NEW p, OneIn(c, Bearer(D, p), Bare(D))
           PROVE  OneIn(kids, Bearer(S, p), Bare(S))
      BY <3>2, <3>5, <3>11, <3>13 DEF OneIn
    <3>14. QED  BY <3>9, <3>10, <3>12, <3>13
  <2>5. CASE n.kind # "operator"
    <3>1. n.kind = "condition"
      BY <2>1, <2>5 DEF IsNode
    <3>2. Canonical(n) = n
      BY <2>3, <3>1 DEF CanonicalNode
    <3>3. QED  BY <3>2
  <2>6. QED  BY <2>4, <2>5
<1>2. Finite(root) /\ root \in Subtrees(root)
  BY TreeParts, SubtreeFacts
<1>3. \A n \in Subtrees(root) : ToSet(Children(n)) \subseteq P => n \in P
  <2> HIDE DEF Holds
  <2>1. QED  BY <1>1
<1>4. Subtrees(root) \subseteq P
  <2> HIDE DEF P
  <2>1. QED  BY <1>2, <1>3, TreeInduction
<1>5. QED  BY <1>2, <1>4

-----------------------------------------------------------------------------
(* What is written somewhere in the bytes.                                 *)

Fields == ({"u8", "u16", "u32", "u64"} \X Int) \cup ({"text"} \X ToSet(Texts))
          \cup ({"json"} \X Values)
Place1 == Nat \ {0}
At(bytes, i, s) ==
  i + Len(s) <= Len(bytes) + 1 /\ \A j \in 1 .. Len(s) : bytes[i + j - 1] = s[j]

LEMMA AtConcat ==
  ASSUME NEW bytes, NEW i \in Place1, NEW s \in Seq(Fields), NEW t \in Seq(Fields),
         At(bytes, i, s \o t), NEW l \in Nat, l = Len(bytes)
  PROVE  /\ At(bytes, i, s) /\ At(bytes, i + Len(s), t) /\ i + Len(s) \in Place1
         /\ Len(s \o t) = Len(s) + Len(t)
         /\ s \o t \in Seq(Fields)
<1>1. PICK m \in Nat : m = Len(s)
  BY LenProperties
<1>2. PICK n \in Nat : n = Len(t)
  BY LenProperties
<1>3. PICK u : u = s \o t
  OBVIOUS
<1>4. /\ Len(u) = m + n /\ u \in Seq(Fields)
      /\ \A k \in 1 .. m + n : u[k] = IF k <= m THEN s[k] ELSE t[k - m]
  BY <1>1, <1>2, <1>3, ConcatProperties
<1>5. i + (m + n) <= l + 1 /\ \A j \in 1 .. m + n : bytes[i + j - 1] = u[j]
  BY <1>3, <1>4 DEF At
<1>6. i \in Nat /\ i + m \in Place1
  BY DEF Place1
<1>7. \A j \in 1 .. m : j \in 1 .. m + n /\ bytes[i + j - 1] = s[j]
  BY <1>4, <1>5
<1>8. \A j \in 1 .. n : bytes[(i + m) + j - 1] = t[j]
  <2> SUFFICES ASSUME NEW j \in 1 .. n  PROVE bytes[(i + m) + j - 1] = t[j]
    OBVIOUS
  <2>1. m + j \in 1 .. m + n /\ (m + j) - m = j /\ ~(m + j <= m)
    OBVIOUS
  <2>2. i + (m + j) - 1 = (i + m) + j - 1
    BY <1>6
  <2>3. u[m + j] = t[j]
    BY <1>4, <2>1
  <2>4. bytes[i + (m + j) - 1] = u[m + j]
    BY <1>5, <2>1
  <2>5. QED  BY <2>2, <2>3, <2>4
<1>9. i + m <= l + 1 /\ (i + m) + n <= l + 1
  BY <1>5, <1>6
<1>10. QED  BY <1>1, <1>2, <1>3, <1>4, <1>6, <1>7, <1>8, <1>9 DEF At

\* One field.
LEMMA AtField ==
  ASSUME NEW bytes, NEW i \in Place1, NEW f, At(bytes, i, <<f>>), NEW l \in Nat, l = Len(bytes)
  PROVE  bytes[i] = f /\ i <= l
<1>1. Len(<<f>>) = 1 /\ <<f>>[1] = f /\ 1 \in 1 .. 1
  OBVIOUS
<1>2. i + 1 <= l + 1 /\ bytes[i + 1 - 1] = f
  BY <1>1 DEF At
<1>3. i + 1 - 1 = i /\ i <= l
  BY <1>2 DEF Place1
<1>4. QED  BY <1>2, <1>3

LEMMA FieldType ==
  ASSUME NEW n \in Int
  PROVE  /\ <<<<"u8", n>>>> \in Seq(Fields) /\ Len(<<<<"u8", n>>>>) = 1
         /\ <<<<"u16", n>>>> \in Seq(Fields) /\ Len(<<<<"u16", n>>>>) = 1
BY DEF Fields

LEMMA FlattenShort ==
  ASSUME NEW S, NEW ss \in Seq(Seq(S))
  PROVE  /\ Len(ss) = 0 => FlattenSeq(ss) = <<>>
         /\ Len(ss) = 1 => FlattenSeq(ss) = ss[1]
<1>1. PICK n \in Nat : n = Len(ss) /\ \A k \in 1 .. n : ss[k] \in Seq(S)
  BY LenProperties, ElementOfSeq
<1>2. PICK F : Flattens(F, ss) /\ FlattenSeq(ss) = F[n]
  BY <1>1, FlattenRule
<1>3. F[0] = <<>> /\ \A k \in 1 .. n : F[k] = F[k - 1] \o ss[k]
  BY <1>1, <1>2 DEF Flattens
<1>4. ASSUME n = 1  PROVE F[1] = ss[1]
  <2>1. 1 \in 1 .. n /\ 1 - 1 = 0
    BY <1>4
  <2>2. F[1] = F[1 - 1] \o ss[1] /\ ss[1] \in Seq(S)
    BY <1>1, <1>3, <2>1
  <2>3. F[1] = <<>> \o ss[1]
    BY <1>3, <2>1, <2>2
  <2>4. QED  BY <2>2, <2>3, ConcatEmptySeq
<1>5. QED  BY <1>1, <1>2, <1>3, <1>4

\* Numbers are read back as they were written.
LEMMA NumbersDecoded ==
  ASSUME NEW ns \in Seq(Int)
  PROVE  /\ U32s(ns) \in Seq(Fields) /\ Len(U32s(ns)) = Len(ns)
         /\ \A bytes, i : i \in Place1 /\ At(bytes, i, U32s(ns)) =>
              ReadMany(bytes, i, Len(ns)) = Read(ns, i + Len(ns))
<1>1. PICK n \in Nat : n = Len(ns) /\ DOMAIN ns = 1 .. n /\ ns \in [1 .. n -> Int]
  BY LenProperties
<1>2. PICK u : u = U32s(ns)
  OBVIOUS
<1>3. u = [i \in 1 .. n |-> <<"u32", ns[i]>>]
  BY <1>1, <1>2 DEF U32s
<1>4. u \in Seq(Fields) /\ Len(u) = n
  <2>1. u \in [1 .. n -> Fields]
    BY <1>1, <1>3 DEF Fields
  <2>2. QED  BY <2>1, FunctionIsSeq
<1>5. ASSUME NEW bytes, NEW i \in Place1, At(bytes, i, u)
      PROVE  ReadMany(bytes, i, n) = Read(ns, i + n)
  <2>1. \A j \in 1 .. n : bytes[i + j - 1] = <<"u32", ns[j]>>
    BY <1>3, <1>4, <1>5 DEF At
  <2>2. [j \in 1 .. n |-> bytes[i + j - 1][2]] = ns
    BY <1>1, <2>1
  <2>3. QED  BY <2>2 DEF ReadMany
<1>6. QED  BY <1>1, <1>2, <1>4, <1>5

LEMMA OptionalShort ==
  ASSUME NEW S, NEW o \in Optional(S)
  PROVE  /\ o \in Seq(S)
         /\ \/ Len(o) = 0 /\ o = <<>>
            \/ Len(o) = 1 /\ o[1] \in S /\ o = <<o[1]>>
<1>1. PICK n \in Nat : n = Len(o) /\ o \in [1 .. n -> S] /\ o \in Seq(S) /\ n <= 1
  BY LenProperties DEF Optional
<1>2. CASE n = 0
  BY <1>1, <1>2, EmptySeq
<1>3. CASE n = 1
  <2>1. o = [i \in 1 .. 1 |-> o[1]] /\ o[1] \in S
    BY <1>1, <1>3
  <2>2. <<o[1]>> = [i \in 1 .. 1 |-> o[1]]
    OBVIOUS
  <2>3. QED  BY <1>1, <1>3, <2>1, <2>2
<1>4. QED  BY <1>1, <1>2, <1>3

\* What is written of an operator besides its children.
WeightsPart(weights) ==
  FlattenSeq([i \in DOMAIN weights |-> <<<<"u16", Len(weights[i])>>>> \o U32s(weights[i])])

LEMMA WeightsWritten ==
  ASSUME NEW weights \in Optional(Seq(Int))
  PROVE  /\ WeightsPart(weights) \in Seq(Fields)
         /\ Len(weights) = 0 => WeightsPart(weights) = <<>>
         /\ Len(weights) = 1 =>
              WeightsPart(weights) = <<<<"u16", Len(weights[1])>>>> \o U32s(weights[1])
<1>1. PICK n \in Nat : n = Len(weights) /\ DOMAIN weights = 1 .. n
                       /\ \A i \in 1 .. n : weights[i] \in Seq(Int)
  BY LenProperties, ElementOfSeq DEF Optional
<1>2. PICK ss : ss = [i \in 1 .. n |-> <<<<"u16", Len(weights[i])>>>> \o U32s(weights[i])]
  OBVIOUS
<1>3. WeightsPart(weights) = FlattenSeq(ss)
  BY <1>1, <1>2 DEF WeightsPart
<1>4. ASSUME NEW i \in 1 .. n
      PROVE  <<<<"u16", Len(weights[i])>>>> \o U32s(weights[i]) \in Seq(Fields)
  <2>1. weights[i] \in Seq(Int) /\ Len(weights[i]) \in Int
    BY <1>1, LenProperties
  <2>2. <<<<"u16", Len(weights[i])>>>> \in Seq(Fields) /\ U32s(weights[i]) \in Seq(Fields)
    BY <2>1, FieldType, NumbersDecoded
  <2>3. QED  BY <2>2, ConcatProperties
<1>5. ss \in Seq(Seq(Fields)) /\ Len(ss) = n
  <2>1. ss \in [1 .. n -> Seq(Fields)]
    BY <1>2, <1>4
  <2>2. QED  BY <2>1, FunctionIsSeq
<1>6. n = 1 => ss[1] = <<<<"u16", Len(weights[1])>>>> \o U32s(weights[1])
  BY <1>2
<1>7. QED  BY <1>1, <1>3, <1>5, <1>6, FlattenShort, FlattenType

LEMMA OperandsDecoded ==
  ASSUME NEW node, node.k \in Optional(Int), node.weights \in Optional(Seq(Int)),
         NEW bytes, NEW l \in Nat, l = Len(bytes), NEW i \in Place1
  PROVE  /\ EncodedOperatorParams(node) \in Seq(Fields)
         /\ At(bytes, i, EncodedOperatorParams(node)) =>
              /\ DecodedOperatorParams(bytes, i) =
                   Read([k |-> node.k, weights |-> node.weights],
                        i + Len(EncodedOperatorParams(node)))
              /\ i + Len(EncodedOperatorParams(node)) \in Place1
<1>1. PICK k, ws : k = node.k /\ ws = node.weights
  OBVIOUS
<1>2. PICK a \in {0, 1} : a = Len(k) /\ k \in Seq(Int)
  BY <1>1, OptionalShort
<1>3. PICK b \in {0, 1} : /\ b = Len(ws)
                          /\ b = 0 => ws = <<>>
                          /\ b = 1 => ws = <<ws[1]>> /\ ws[1] \in Seq(Int)
  BY <1>1, OptionalShort
<1>4. PICK H, K, W : H = <<<<"u8", a + 2 * b>>>> /\ K = U32s(k) /\ W = WeightsPart(ws)
  OBVIOUS
<1>5. /\ H \in Seq(Fields) /\ K \in Seq(Fields) /\ W \in Seq(Fields)
      /\ Len(H) = 1 /\ Len(K) = a
  <2>1. a + 2 * b \in Int
    OBVIOUS
  <2>2. H \in Seq(Fields) /\ Len(H) = 1
    BY ONLY <1>4, <2>1, FieldType
  <2>3. K \in Seq(Fields) /\ Len(K) = a
    BY ONLY <1>2, <1>4, NumbersDecoded
  <2>4. W \in Seq(Fields)
    BY ONLY <1>1, <1>4, WeightsWritten, node.weights \in Optional(Seq(Int))
  <2>5. QED  BY <2>2, <2>3, <2>4
<1>6. PICK e : e = EncodedOperatorParams(node)
  OBVIOUS
<1>7. e = (H \o K) \o W
  BY <1>1, <1>2, <1>3, <1>4, <1>6 DEF EncodedOperatorParams, WeightsPart
<1>8. H \o K \in Seq(Fields) /\ e \in Seq(Fields)
  BY <1>5, <1>7, ConcatProperties
<1>9. ASSUME At(bytes, i, e)
      PROVE  /\ DecodedOperatorParams(bytes, i) = Read([k |-> k, weights |-> ws], i + Len(e))
             /\ i + Len(e) \in Place1
  <2>1. /\ At(bytes, i, H \o K) /\ At(bytes, i + Len(H \o K), W)
        /\ i + Len(H \o K) \in Place1 /\ Len(e) = Len(H \o K) + Len(W)
    <3>1. H \o K \in Seq(Fields) /\ W \in Seq(Fields)
      BY <1>5, <1>8
    <3>2. At(bytes, i, (H \o K) \o W)
      BY <1>7, <1>9
    <3>3. /\ At(bytes, i, H \o K) /\ At(bytes, i + Len(H \o K), W)
          /\ i + Len(H \o K) \in Place1
      BY ONLY <3>1, <3>2, AtConcat, i \in Place1, l \in Nat, l = Len(bytes)
    <3>4. Len((H \o K) \o W) = Len(H \o K) + Len(W)
      BY ONLY <3>1, <3>2, AtConcat, i \in Place1, l \in Nat, l = Len(bytes)
    <3>5. QED  BY <1>7, <3>3, <3>4
  <2>2. /\ At(bytes, i, H) /\ At(bytes, i + 1, K) /\ Len(H \o K) = 1 + a
        /\ i + 1 \in Place1
    <3>1. H \in Seq(Fields) /\ K \in Seq(Fields) /\ At(bytes, i, H \o K)
      BY <1>5, <2>1
    <3>2. At(bytes, i, H) /\ At(bytes, i + Len(H), K) /\ i + Len(H) \in Place1
      BY ONLY <3>1, AtConcat, i \in Place1, l \in Nat, l = Len(bytes)
    <3>3. Len(H \o K) = Len(H) + Len(K)
      BY ONLY <3>1, AtConcat, i \in Place1, l \in Nat, l = Len(bytes)
    <3>4. QED  BY <1>5, <3>2, <3>3
  <2>3. bytes[i] = <<"u8", a + 2 * b>>
    BY <1>4, <2>2, AtField
  <2>4. bytes[i][2] = a + 2 * b
    BY <2>3
  <2>5. (a + 2 * b) % 2 = a /\ (a + 2 * b < 2 <=> b = 0)
    OBVIOUS
  <2>6. ReadMany(bytes, i + 1, a) = Read(k, (i + 1) + a)
    BY <1>2, <1>4, <2>2, NumbersDecoded
  <2>7. Read(k, (i + 1) + a).value = k /\ Read(k, (i + 1) + a).next = (i + 1) + a
    BY DEF Read
  <2>8. Len(W) \in Nat /\ i \in Nat /\ i + Len(e) \in Place1
    <3>1. Len(W) \in Nat
      BY <1>5, LenProperties
    <3>2. QED  BY <2>1, <2>2, <3>1 DEF Place1
  <2>9. CASE b = 0
    <3>1. Len(W) = 0
      BY <1>1, <1>3, <1>4, <2>9, WeightsWritten
    <3>2. i + Len(e) = (i + 1) + a
      BY <2>1, <2>2, <2>8, <3>1
    <3>3. DecodedOperatorParams(bytes, i) = Read([k |-> k, weights |-> <<>>], (i + 1) + a)
      BY <2>4, <2>5, <2>6, <2>7, <2>9 DEF DecodedOperatorParams
    <3>4. QED  BY <1>3, <2>8, <2>9, <3>2, <3>3
  <2>10. CASE b = 1
    <3>1. PICK w : w = ws[1] /\ w \in Seq(Int) /\ ws = <<w>>
      BY <1>3, <2>10
    <3>2. PICK c \in Nat : c = Len(w)
      BY <3>1, LenProperties
    <3>3. PICK j : j = (i + 1) + a
      OBVIOUS
    <3>4. j \in Place1 /\ j + 1 \in Place1 /\ i + Len(H \o K) = j
      BY <2>2, <2>8, <3>3 DEF Place1
    <3>5. W = <<<<"u16", c>>>> \o U32s(w)
      BY <1>1, <1>3, <1>4, <2>10, <3>1, <3>2, WeightsWritten
    <3>6. /\ <<<<"u16", c>>>> \in Seq(Fields) /\ Len(<<<<"u16", c>>>>) = 1
          /\ U32s(w) \in Seq(Fields) /\ Len(U32s(w)) = c
      <4>1. c \in Int
        BY <3>2
      <4>2. U32s(w) \in Seq(Fields) /\ Len(U32s(w)) = c
        BY ONLY <3>1, <3>2, NumbersDecoded
      <4>3. <<<<"u16", c>>>> \in Seq(Fields) /\ Len(<<<<"u16", c>>>>) = 1
        BY ONLY <4>1, FieldType
      <4>4. QED  BY <4>2, <4>3
    <3>7. At(bytes, j, <<<<"u16", c>>>>) /\ At(bytes, j + 1, U32s(w)) /\ Len(W) = 1 + c
      <4>1. At(bytes, j, <<<<"u16", c>>>> \o U32s(w))
        BY <2>1, <3>4, <3>5
      <4>2. PICK C, U : C = <<<<"u16", c>>>> /\ U = U32s(w)
        OBVIOUS
      <4>3. /\ C \in Seq(Fields) /\ U \in Seq(Fields) /\ At(bytes, j, C \o U)
            /\ Len(C) = 1 /\ Len(U) = c
        BY ONLY <3>6, <4>1, <4>2
      <4>4. At(bytes, j, C) /\ At(bytes, j + Len(C), U)
        BY ONLY <4>3, <3>4, AtConcat, l \in Nat, l = Len(bytes)
      <4>5. Len(C \o U) = Len(C) + Len(U)
        BY ONLY <4>3, ConcatProperties
      <4>6. QED  BY ONLY <3>5, <4>2, <4>3, <4>4, <4>5
    <3>8. bytes[j] = <<"u16", c>>
      BY <3>4, <3>7, AtField
    <3>9. bytes[j][2] = c
      BY <3>8
    <3>10. ReadMany(bytes, j + 1, c) = Read(w, (j + 1) + c)
      BY <3>1, <3>2, <3>4, <3>7, NumbersDecoded
    <3>11. Read(w, (j + 1) + c).value = w /\ Read(w, (j + 1) + c).next = (j + 1) + c
      BY DEF Read
    <3>12. DecodedOperatorParams(bytes, i) = Read([k |-> k, weights |-> <<w>>], (j + 1) + c)
      <4>1. /\ ReadMany(bytes, i + 1, bytes[i][2] % 2).value = k
            /\ ReadMany(bytes, i + 1, bytes[i][2] % 2).next = j
        BY <2>4, <2>5, <2>6, <2>7, <3>3
      <4>2. ~(bytes[i][2] < 2)
        BY <2>4, <2>10
      <4>3. /\ ReadMany(bytes, j + 1, bytes[j][2]).value = w
            /\ ReadMany(bytes, j + 1, bytes[j][2]).next = (j + 1) + c
        BY <3>9, <3>10, <3>11
      <4>4. QED  BY ONLY <4>1, <4>2, <4>3 DEF DecodedOperatorParams
    <3>13. i + Len(e) = (j + 1) + c
      BY ONLY <2>1, <2>2, <2>8, <1>2, <3>2, <3>3, <3>7
    <3>14. QED  BY <2>8, <3>1, <3>12, <3>13
  <2>11. QED  BY <2>9, <2>10
<1>10. QED  BY <1>1, <1>6, <1>8, <1>9

-----------------------------------------------------------------------------
(* Parameters are read back as they were written.                          *)

\* Parts of one length, end to end.
Places(s, ss, k, c) ==
  /\ Len(s) = c * k
  /\ \A j \in 1 .. k, r \in 1 .. c : s[c * (j - 1) + r] = ss[j][r]

LEMMA FlattenTriples ==
  ASSUME NEW S, NEW ss \in Seq(Seq(S)), \A i \in 1 .. Len(ss) : Len(ss[i]) = 3
  PROVE  Places(FlattenSeq(ss), ss, Len(ss), 3)
<1>1. PICK n \in Nat : n = Len(ss) /\ \A k \in 1 .. n : ss[k] \in Seq(S) /\ Len(ss[k]) = 3
  BY LenProperties, ElementOfSeq
<1>2. PICK F : /\ Flattens(F, ss) /\ FlattenSeq(ss) = F[n]
               /\ \A k \in 0 .. n : F[k] \in Seq(S)
  BY <1>1, FlattenRule
<1>3. F[0] = <<>> /\ \A k \in 1 .. n : F[k] = F[k - 1] \o ss[k]
  BY <1>1, <1>2 DEF Flattens
<1> DEFINE Holds(k) == k <= n => Places(F[k], ss, k, 3)
           T == {k \in Nat : Holds(k)}
<1>4. 0 \in T
  BY <1>3 DEF Places
<1>5. ASSUME NEW k \in Nat, Holds(k), k + 1 <= n  PROVE Places(F[k + 1], ss, k + 1, 3)
  <2>1. PICK f, s, u : f = F[k] /\ s = ss[k + 1] /\ u = F[k + 1]
    OBVIOUS
  <2>2. k \in 0 .. n /\ k + 1 \in 1 .. n /\ (k + 1) - 1 = k
    BY <1>5
  <2>3. f \in Seq(S) /\ s \in Seq(S) /\ Len(s) = 3 /\ Len(f) = 3 * k
    BY <1>1, <1>2, <1>5, <2>1, <2>2 DEF Places
  <2>10. \A j \in 1 .. k, r \in 1 .. 3 : f[3 * (j - 1) + r] = ss[j][r]
    <3>1. Places(F[k], ss, k, 3)
      BY <1>5
    <3>2. QED  BY <2>1, <3>1 DEF Places
  <2>4. F[k + 1] = F[(k + 1) - 1] \o ss[k + 1]
    BY <1>3, <2>2
  <2>5. u = f \o s
    BY <2>1, <2>2, <2>4
  <2>6. /\ Len(u) = 3 * k + 3
        /\ \A i \in 1 .. 3 * k + 3 : u[i] = IF i <= 3 * k THEN f[i] ELSE s[i - 3 * k]
    <3>1. PICK a \in Nat, b \in Nat : a = 3 * k /\ b = 3
      OBVIOUS
    <3>2. Len(f) = a /\ Len(s) = b
      BY <2>3, <3>1
    <3>3. Len(u) = a + b /\ \A i \in 1 .. a + b : u[i] = IF i <= a THEN f[i] ELSE s[i - a]
      BY ONLY <2>3, <2>5, <3>2, ConcatProperties
    <3>4. QED  BY ONLY <3>1, <3>3
  <2> HIDE DEF Holds
  <2>7. ASSUME NEW j \in 1 .. k + 1, NEW r \in 1 .. 3
        PROVE  u[3 * (j - 1) + r] = ss[j][r]
    <3>1. CASE j <= k
      <4>1. j \in 1 .. k /\ 3 * (j - 1) + r \in 1 .. 3 * k
        BY <3>1
      <4>2. f[3 * (j - 1) + r] = ss[j][r]
        BY <2>10, <4>1
      <4>3. QED  BY <2>6, <4>1, <4>2
    <3>2. CASE j = k + 1
      <4>1. 3 * (j - 1) + r = 3 * k + r /\ 3 * k + r \in 1 .. 3 * k + 3 /\ ~(3 * k + r <= 3 * k)
            /\ (3 * k + r) - 3 * k = r
        BY <3>2
      <4>2. u[3 * k + r] = s[r]
        BY <2>6, <4>1
      <4>3. QED  BY <2>1, <3>2, <4>1, <4>2
    <3>3. QED  BY <3>1, <3>2
  <2>8. Len(u) = 3 * (k + 1)
    BY <2>6
  <2>9. QED  BY <2>1, <2>7, <2>8 DEF Places
<1>6. \A k \in T : k + 1 \in T
  <2> SUFFICES ASSUME NEW k \in T  PROVE k + 1 \in T
    OBVIOUS
  <2>1. k \in Nat /\ Holds(k)
    OBVIOUS
  <2>2. k + 1 <= n => Places(F[k + 1], ss, k + 1, 3)
    BY <1>5, <2>1
  <2>3. Holds(k + 1) /\ k + 1 \in Nat
    BY <2>1, <2>2
  <2> HIDE DEF Holds
  <2>4. QED  BY <2>3
<1> HIDE DEF T
<1>7. T = Nat
  BY <1>4, <1>6, CountUp DEF T
<1>8. Holds(n)
  BY <1>7 DEF T
<1>9. QED  BY <1>1, <1>2, <1>8

\* A value is a tag and a content.
LEMMA ValueDecoded ==
  ASSUME NEW v \in Values
  PROVE  \E a \in Int, c \in Fields :
           EncodedValue(v) = <<<<"u8", a>>, c>> /\ DecodedValue(a, c[2]) = v
<1>1. CASE v \in {"string"} \X ToSet(Texts)
  <2>1. PICK text \in ToSet(Texts) : v = <<"string", text>>
    BY <1>1
  <2>2. EncodedValue(v) = <<<<"u8", 1>>, <<"text", text>>>>
    BY <2>1 DEF EncodedValue
  <2>3. <<"text", text>> \in Fields /\ DecodedValue(1, <<"text", text>>[2]) = v
    BY <2>1 DEF Fields, DecodedValue
  <2>4. QED  BY <2>2, <2>3
<1>2. CASE v \in {"array", "object"} \X ToSet(Texts)
  <2>1. v[1] \notin {"string", "boolean", "number"}
    BY <1>2
  <2>2. EncodedValue(v) = <<<<"u8", 4>>, <<"json", v>>>>
    BY <2>1 DEF EncodedValue
  <2>3. <<"json", v>> \in Fields /\ DecodedValue(4, <<"json", v>>[2]) = v
    BY DEF Fields, DecodedValue
  <2>4. QED  BY <2>2, <2>3
<1>3. CASE v \in {"boolean"} \X {"true", "false"}
  <2>1. PICK b \in {0, 1} : v = <<"boolean", IF b = 1 THEN "true" ELSE "false">>
    BY <1>3
  <2>2. EncodedValue(v) = <<<<"u8", 2>>, <<"u8", b>>>>
    BY <2>1 DEF EncodedValue
  <2>3. <<"u8", b>> \in Fields /\ DecodedValue(2, <<"u8", b>>[2]) = v
    BY <2>1 DEF Fields, DecodedValue
  <2>4. QED  BY <2>2, <2>3
<1>4. CASE v \in {"number"} \X Int
  <2>1. PICK n \in Int : v = <<"number", n>>
    BY <1>4
  <2>2. CASE n >= 0
    <3>1. EncodedValue(v) = <<<<"u8", 3>>, <<"u64", n>>>>
      BY <2>1, <2>2 DEF EncodedValue
    <3>2. <<"u64", n>> \in Fields /\ DecodedValue(3, <<"u64", n>>[2]) = v
      BY <2>1 DEF Fields, DecodedValue
    <3>3. QED  BY <3>1, <3>2
  <2>3. CASE ~(n >= 0)
    <3>1. EncodedValue(v) = <<<<"u8", 4>>, <<"json", v>>>>
      BY <2>1, <2>3 DEF EncodedValue
    <3>2. <<"json", v>> \in Fields /\ DecodedValue(4, <<"json", v>>[2]) = v
      BY DEF Fields, DecodedValue
    <3>3. QED  BY <3>1, <3>2
  <2>4. QED  BY <2>2, <2>3
<1>5. QED  BY <1>1, <1>2, <1>3, <1>4 DEF Values

\* What stands in three fields beginning at a place: a name and its value.
Entry(s, params, key) ==
  s[1] = <<"text", key>> /\ DecodedValue(s[2][2], s[3][2]) = params[key]

LEMMA EntryWritten ==
  ASSUME NEW params, IsParams(params), NEW key \in DOMAIN params,
         NEW s, s = <<<<"text", key>>>> \o EncodedValue(params[key])
  PROVE  s \in Seq(Fields) /\ Len(s) = 3 /\ Entry(s, params, key)
<1>1. key \in ToSet(Texts) /\ params[key] \in Values
  BY ParamsParts
<1>2. PICK a \in Int, c \in Fields : /\ EncodedValue(params[key]) = <<<<"u8", a>>, c>>
                                     /\ DecodedValue(a, c[2]) = params[key]
  BY <1>1, ValueDecoded
<1>3. PICK f, g : f = <<"text", key>> /\ g = <<"u8", a>>
  OBVIOUS
<1>4. f \in Fields /\ g \in Fields
  BY <1>1, <1>3 DEF Fields
<1>5. s = <<f>> \o <<g, c>>
  BY <1>2, <1>3
<1>6. PICK p, q : p = <<f>> /\ q = <<g, c>>
  OBVIOUS
<1>10. /\ p \in Seq(Fields) /\ q \in Seq(Fields) /\ Len(p) = 1 /\ Len(q) = 2
       /\ p[1] = f /\ q[1] = g /\ q[2] = c
  BY <1>4, <1>6
<1>7. s \in Seq(Fields) /\ Len(s) = 3 /\ s[1] = f /\ s[2] = g /\ s[3] = c
  <2>1. s = p \o q
    BY <1>5, <1>6
  <2>2. /\ s \in Seq(Fields) /\ Len(s) = 1 + 2
        /\ \A k \in 1 .. 1 + 2 : s[k] = IF k <= 1 THEN p[k] ELSE q[k - 1]
    <3>1. PICK m \in Nat, o \in Nat : m = 1 /\ o = 2
      OBVIOUS
    <3>2. Len(p) = m /\ Len(q) = o
      BY <1>10, <3>1
    <3>3. /\ s \in Seq(Fields) /\ Len(s) = m + o
          /\ \A k \in 1 .. m + o : s[k] = IF k <= m THEN p[k] ELSE q[k - m]
      BY ONLY <1>10, <2>1, <3>2, ConcatProperties
    <3>4. QED  BY ONLY <3>1, <3>3
  <2>3. 1 \in 1 .. 1 + 2 /\ 2 \in 1 .. 1 + 2 /\ 3 \in 1 .. 1 + 2 /\ 2 - 1 = 1 /\ 3 - 1 = 2
        /\ ~(2 <= 1) /\ ~(3 <= 1) /\ 1 <= 1
    OBVIOUS
  <2>4. s[1] = p[1] /\ s[2] = q[1] /\ s[3] = q[2]
    BY ONLY <2>2, <2>3
  <2>5. QED  BY <1>10, <2>2, <2>3, <2>4
<1>8. g[2] = a
  BY <1>3
<1>9. QED  BY <1>2, <1>3, <1>7, <1>8 DEF Entry

LEMMA ParamsDecoded ==
  ASSUME NEW params, IsParams(params),
         NEW bytes, NEW l \in Nat, l = Len(bytes), NEW i \in Place1
  PROVE  /\ EncodedParams(params) \in Seq(Fields)
         /\ At(bytes, i, EncodedParams(params)) =>
              /\ DecodedParams(bytes, i) = Read(params, i + Len(EncodedParams(params)))
              /\ i + Len(EncodedParams(params)) \in Place1
<1>1. PICK keys : keys = Keys(params)
  OBVIOUS
<1>2. keys \in Seq(DOMAIN params) /\ ToSet(keys) = DOMAIN params
  BY <1>1, KeysElements, ParamsParts
<1>3. PICK n \in Nat : n = Len(keys) /\ DOMAIN keys = 1 .. n
                       /\ \A j \in 1 .. n : keys[j] \in DOMAIN params
  BY <1>2, LenProperties, ElementOfSeq
<1>4. PICK ss : ss = [j \in 1 .. n |-> <<<<"text", keys[j]>>>> \o EncodedValue(params[keys[j]])]
  OBVIOUS
<1>5. ASSUME NEW j \in 1 .. n
      PROVE  ss[j] \in Seq(Fields) /\ Len(ss[j]) = 3 /\ Entry(ss[j], params, keys[j])
  <2>1. ss[j] = <<<<"text", keys[j]>>>> \o EncodedValue(params[keys[j]])
    BY <1>4
  <2>2. QED  BY <1>3, <2>1, EntryWritten
<1>6. ss \in Seq(Seq(Fields)) /\ Len(ss) = n
  <2>1. ss \in [1 .. n -> Seq(Fields)]
    BY <1>4, <1>5
  <2>2. QED  BY <2>1, FunctionIsSeq
<1>7. PICK s : s = FlattenSeq(ss)
  OBVIOUS
<1>8. s \in Seq(Fields) /\ Places(s, ss, n, 3)
  BY <1>5, <1>6, <1>7, FlattenType, FlattenTriples
<1>9. PICK h : h = <<<<"u16", n>>>>
  OBVIOUS
<1>10. h \in Seq(Fields) /\ Len(h) = 1
  <2>1. n \in Int
    OBVIOUS
  <2>2. QED  BY ONLY <1>9, <2>1, FieldType
<1>11. PICK e : e = EncodedParams(params)
  OBVIOUS
<1>12. e = h \o s
  BY <1>1, <1>3, <1>4, <1>7, <1>9, <1>11 DEF EncodedParams
<1>13. e \in Seq(Fields) /\ Len(e) = Len(h) + Len(s)
  BY ONLY <1>8, <1>10, <1>12, ConcatProperties
<1>14. ASSUME At(bytes, i, e)
       PROVE  DecodedParams(bytes, i) = Read(params, i + Len(e)) /\ i + Len(e) \in Place1
  <2>1. At(bytes, i, h \o s)
    BY <1>12, <1>14
  <2>2. At(bytes, i, h) /\ At(bytes, i + Len(h), s) /\ i + Len(h) \in Place1
    BY ONLY <1>8, <1>10, <2>1, AtConcat, i \in Place1, l \in Nat, l = Len(bytes)
  <2>3. bytes[i] = <<"u16", n>>
    BY <1>9, <2>2, AtField
  <2>4. bytes[i][2] = n
    BY <2>3
  <2>5. Len(s) = 3 * n /\ Len(e) = 3 * n + 1
    BY <1>8, <1>10, <1>13 DEF Places
  <2>6. \A q \in 1 .. 3 * n : bytes[(i + 1) + q - 1] = s[q]
    BY <1>10, <2>2, <2>5 DEF At
  <2>7. i \in Nat
    BY DEF Place1
  <2>8. ASSUME NEW j \in 1 .. n
        PROVE  /\ bytes[i + 3 * j - 2] = ss[j][1] /\ bytes[(i + 3 * j - 2) + 1] = ss[j][2]
               /\ bytes[(i + 3 * j - 2) + 2] = ss[j][3]
    <3>1. ASSUME NEW r \in 1 .. 3  PROVE bytes[(i + 3 * j - 2) + (r - 1)] = ss[j][r]
      <4>1. 3 * (j - 1) + r \in 1 .. 3 * n
        OBVIOUS
      <4>2. (i + 3 * j - 2) + (r - 1) = (i + 1) + (3 * (j - 1) + r) - 1
        BY <2>7
      <4>3. s[3 * (j - 1) + r] = ss[j][r]
        BY <1>8 DEF Places
      <4>4. bytes[(i + 1) + (3 * (j - 1) + r) - 1] = s[3 * (j - 1) + r]
        BY <2>6, <4>1
      <4>5. QED  BY <4>2, <4>3, <4>4
    <3>2. bytes[(i + 3 * j - 2) + (1 - 1)] = ss[j][1]
      BY <3>1
    <3>3. bytes[(i + 3 * j - 2) + (2 - 1)] = ss[j][2]
      BY <3>1
    <3>4. bytes[(i + 3 * j - 2) + (3 - 1)] = ss[j][3]
      BY <3>1
    <3>5. (i + 3 * j - 2) + (1 - 1) = i + 3 * j - 2 /\ 2 - 1 = 1 /\ 3 - 1 = 2
      BY <2>7
    <3>6. QED  BY <3>2, <3>3, <3>4, <3>5
  <2>9. ASSUME NEW j \in 1 .. n
        PROVE  /\ bytes[i + 3 * j - 2][2] = keys[j]
               /\ DecodedValue(bytes[(i + 3 * j - 2) + 1][2], bytes[(i + 3 * j - 2) + 2][2])
                    = params[keys[j]]
    BY <1>5, <2>8 DEF Entry
  <2> DEFINE m == bytes[i][2]
             name(j) == bytes[i + 3 * j - 2][2]
             V(key) == LET j == CHOOSE j \in 1 .. m : name(j) = key
                       IN DecodedValue(bytes[(i + 3 * j - 2) + 1][2], bytes[(i + 3 * j - 2) + 2][2])
  <2>10. {name(j) : j \in 1 .. m} = DOMAIN params
    <3>1. m = n /\ \A j \in 1 .. n : name(j) = keys[j]
      BY <2>4, <2>9
    <3> HIDE DEF m, name
    <3>2. {name(j) : j \in 1 .. m} = {keys[j] : j \in 1 .. n}
      BY <3>1
    <3>3. {keys[j] : j \in 1 .. n} = DOMAIN params
      BY <1>2, <1>3 DEF ToSet
    <3>4. QED  BY <3>2, <3>3
  <2>11. ASSUME NEW key \in DOMAIN params  PROVE V(key) = params[key]
    <3>1. \E j \in 1 .. m : name(j) = key
      BY <2>10
    <3>2. PICK j : j = CHOOSE k \in 1 .. m : name(k) = key
      OBVIOUS
    <3>3. j \in 1 .. n /\ name(j) = key
      BY <2>4, <3>1, <3>2
    <3>4. keys[j] = key
      BY <2>9, <3>3
    <3>5. V(key) = DecodedValue(bytes[(i + 3 * j - 2) + 1][2], bytes[(i + 3 * j - 2) + 2][2])
      BY <3>2
    <3>6. QED  BY <2>9, <3>3, <3>4, <3>5
  <2>12. params = [key \in DOMAIN params |-> params[key]]
    BY ParamsParts DEF IsFcn
  <2>13. [key \in {name(j) : j \in 1 .. m} |-> V(key)] = params
    <3> HIDE DEF V, name, m
    <3>1. QED  BY <2>10, <2>11, <2>12
  <2>14. DecodedParams(bytes, i) = Read(params, i + 3 * n + 1)
    <3>1. DecodedParams(bytes, i) = Read([key \in {name(j) : j \in 1 .. m} |-> V(key)], i + 3 * m + 1)
      BY DEF DecodedParams
    <3>2. QED  BY <2>4, <2>13, <3>1
  <2>15. i + 3 * n + 1 = i + Len(e) /\ i + Len(e) \in Place1
    BY <2>5, <2>7 DEF Place1
  <2>16. QED  BY <2>14, <2>15
<1>15. QED  BY <1>11, <1>13, <1>14

-----------------------------------------------------------------------------
(* A node without its children is read back as it was written.             *)

LEMMA CodeOfOperator ==
  ASSUME NEW op \in Operators
  PROVE  OperatorCode(op) \in Int /\ OperatorNames[OperatorCode(op)] = op
<1>1. \E i \in DOMAIN OperatorNames : OperatorNames[i] = op
  BY DEF Operators, ToSet
<1>2. OperatorCode(op) \in DOMAIN OperatorNames /\ OperatorNames[OperatorCode(op)] = op
  BY <1>1 DEF OperatorCode
<1>3. DOMAIN OperatorNames \subseteq Int
  BY DEF OperatorNames
<1>4. QED  BY <1>2, <1>3

\* The fields every node begins with.
Opening(t, weight) == <<<<"u8", t>>, <<"u8", Len(weight)>>>> \o U32s(weight)

\* They are read from place i on, and the rest begins at place j.
Opened(bytes, i, j, t, weight, rest, e) ==
  /\ i < j /\ bytes[i][2] = t
  /\ ReadMany(bytes, i + 2, bytes[i + 1][2]) = Read(weight, j)
  /\ At(bytes, j, rest) /\ j + Len(rest) = i + Len(e)

LEMMA OpeningDecoded ==
  ASSUME NEW t \in Int, NEW weight \in Optional(Int), NEW rest \in Seq(Fields),
         NEW bytes, NEW l \in Nat, l = Len(bytes), NEW i \in Place1,
         NEW e, e = Opening(t, weight) \o rest
  PROVE  /\ e \in Seq(Fields)
         /\ At(bytes, i, e) => \E j \in Place1 : Opened(bytes, i, j, t, weight, rest, e)
<1>1. PICK w \in Nat : w = Len(weight) /\ weight \in Seq(Int)
  BY OptionalShort
<1>2. PICK f, g : f = <<"u8", t>> /\ g = <<"u8", w>>
  OBVIOUS
<1>3. f \in Fields /\ g \in Fields
  BY <1>2 DEF Fields
<1>4. PICK p, U : p = <<f, g>> /\ U = U32s(weight)
  OBVIOUS
<1>5. p \in Seq(Fields) /\ Len(p) = 2 /\ p[1] = f /\ p[2] = g
  BY <1>3, <1>4
<1>6. U \in Seq(Fields) /\ Len(U) = w
  BY ONLY <1>1, <1>4, NumbersDecoded
<1>7. e = (p \o U) \o rest
  BY <1>1, <1>2, <1>4 DEF Opening
<1>8. PICK o : o = p \o U
  OBVIOUS
<1>9. o \in Seq(Fields) /\ Len(o) = Len(p) + Len(U)
  BY ONLY <1>5, <1>6, <1>8, ConcatProperties
<1>10. e \in Seq(Fields) /\ Len(e) = Len(o) + Len(rest)
  <2>1. rest \in Seq(Fields) /\ e = o \o rest
    BY <1>7, <1>8
  <2>2. QED  BY ONLY <1>9, <2>1, ConcatProperties
<1>11. ASSUME At(bytes, i, e)
       PROVE  \E j \in Place1 : Opened(bytes, i, j, t, weight, rest, e)
  <2>1. At(bytes, i, o \o rest)
    BY <1>7, <1>8, <1>11
  <2>2. At(bytes, i, o) /\ At(bytes, i + Len(o), rest) /\ i + Len(o) \in Place1
    BY ONLY <1>9, <2>1, AtConcat, rest \in Seq(Fields), i \in Place1, l \in Nat, l = Len(bytes)
  <2>3. At(bytes, i, p \o U)
    BY <1>8, <2>2
  <2>4. At(bytes, i, p) /\ At(bytes, i + Len(p), U) /\ i + Len(p) \in Place1
    BY ONLY <1>5, <1>6, <2>3, AtConcat, i \in Place1, l \in Nat, l = Len(bytes)
  <2>5. i \in Nat /\ i + 1 - 1 = i /\ i + 2 - 1 = i + 1
    BY DEF Place1
  <2>6. bytes[i + 1 - 1] = p[1] /\ bytes[i + 2 - 1] = p[2]
    <3>1. \A k \in 1 .. 2 : bytes[i + k - 1] = p[k]
      BY <1>5, <2>4 DEF At
    <3>2. QED  BY <3>1
  <2>7. bytes[i] = f /\ bytes[i + 1] = g
    BY <1>5, <2>5, <2>6
  <2>8. bytes[i][2] = t /\ bytes[i + 1][2] = w
    BY <1>2, <2>7
  <2>9. ReadMany(bytes, i + 2, w) = Read(weight, (i + 2) + w)
    <3>1. At(bytes, i + 2, U32s(weight)) /\ i + 2 \in Place1
      BY <1>4, <1>5, <2>4
    <3>2. QED  BY ONLY <1>1, <3>1, NumbersDecoded
  <2>10. (i + 2) + w = i + Len(o) /\ i < i + Len(o)
    BY <1>5, <1>6, <1>9, <2>5
  <2>11. (i + Len(o)) + Len(rest) = i + Len(e)
    <3>1. Len(rest) \in Nat /\ Len(o) \in Nat
      BY <1>9, LenProperties
    <3>2. QED  BY <1>10, <2>5, <3>1
  <2>12. PICK j : j = i + Len(o)
    OBVIOUS
  <2>13. Opened(bytes, i, j, t, weight, rest, e)
    BY <2>2, <2>8, <2>9, <2>10, <2>11, <2>12 DEF Opened
  <2>14. QED  BY <2>2, <2>12, <2>13
<1>12. QED  BY <1>10, <1>11

\* What the fields of its children are, for a node that has any.
Payload(node, kids) == IF node.kind = "operator" THEN FlattenSeq(kids) ELSE <<>>
HeadRead(head, node, bytes, i, e, rest) ==
  /\ head.next \in Place1 /\ i < head.next
  /\ head.count = Len(Children(node))
  /\ WithChildren(head.node, Children(node)) = node
  /\ \A others : WithChildren(head.node, others) =
       IF node.kind = "operator" THEN [node EXCEPT !.children = others] ELSE node
  /\ At(bytes, head.next, rest) /\ head.next + Len(rest) = i + Len(e)

LEMMA ConditionDecoded ==
  ASSUME NEW node, Plain(node), node.kind = "condition", NEW kids,
         NEW bytes, NEW l \in Nat, l = Len(bytes), NEW i \in Place1
  PROVE  /\ EncodedFields(node, kids) \in Seq(Fields)
         /\ At(bytes, i, EncodedFields(node, kids)) =>
              HeadRead(DecodedHead(bytes, i), node, bytes, i, EncodedFields(node, kids),
                       Payload(node, kids))
<1>1. /\ node \in [kind : {"condition"}, type : ToSet(Texts), params : {node.params},
                   weight : Optional(Int)]
      /\ IsParams(node.params)
  BY DEF Plain, IsNode
<1>2. PICK type, params, weight : type = node.type /\ params = node.params /\ weight = node.weight
  OBVIOUS
<1>3. type \in ToSet(Texts) /\ IsParams(params) /\ weight \in Optional(Int)
  BY <1>1, <1>2
<1>4. PICK f, h, P : f = <<"text", type>> /\ h = <<f>> /\ P = EncodedParams(params)
  OBVIOUS
<1>5. f \in Fields
  BY <1>3, <1>4 DEF Fields
<1>6. h \in Seq(Fields) /\ Len(h) = 1 /\ h = <<f>>
  BY <1>4, <1>5
<1>7. P \in Seq(Fields)
  BY <1>3, <1>4, ParamsDecoded
<1>8. PICK rest : rest = h \o P
  OBVIOUS
<1>9. rest \in Seq(Fields) /\ Len(rest) = Len(h) + Len(P)
  BY ONLY <1>6, <1>7, <1>8, ConcatProperties
<1>10. PICK e : e = EncodedFields(node, kids)
  OBVIOUS
<1>11. e = Opening(2, weight) \o rest
  BY <1>2, <1>4, <1>8, <1>10 DEF EncodedFields, Opening
<1>12. e \in Seq(Fields)
  <2>1. 2 \in Int /\ rest \in Seq(Fields) /\ weight \in Optional(Int)
    BY <1>3, <1>9
  <2>2. QED  BY ONLY <1>11, <2>1, OpeningDecoded, l \in Nat, l = Len(bytes), i \in Place1
<1>13. ASSUME At(bytes, i, e)
       PROVE  HeadRead(DecodedHead(bytes, i), node, bytes, i, e, <<>>)
  <2>1. PICK j \in Place1 :
          /\ i < j /\ bytes[i][2] = 2
          /\ ReadMany(bytes, i + 2, bytes[i + 1][2]) = Read(weight, j)
          /\ At(bytes, j, rest) /\ j + Len(rest) = i + Len(e)
    <3>1. 2 \in Int /\ rest \in Seq(Fields) /\ weight \in Optional(Int)
      BY <1>3, <1>9
    <3>2. \E j \in Place1 : Opened(bytes, i, j, 2, weight, rest, e)
      BY ONLY <1>11, <1>13, <3>1, OpeningDecoded, l \in Nat, l = Len(bytes), i \in Place1
    <3>3. QED  BY <3>2 DEF Opened
  <2>2. At(bytes, j, h \o P)
    BY <1>8, <2>1
  <2>3. At(bytes, j, h) /\ At(bytes, j + Len(h), P) /\ j + Len(h) \in Place1
    BY ONLY <1>6, <1>7, <2>2, AtConcat, j \in Place1, l \in Nat, l = Len(bytes)
  <2>4. bytes[j] = f
    BY <1>6, <2>3, AtField
  <2>5. bytes[j][2] = type
    BY <1>4, <2>4
  <2>6. /\ DecodedParams(bytes, j + 1) = Read(params, (j + 1) + Len(P))
        /\ (j + 1) + Len(P) \in Place1
    <3>1. At(bytes, j + 1, EncodedParams(params)) /\ j + 1 \in Place1
      BY <1>4, <1>6, <2>3
    <3>2. QED  BY <1>3, <1>4, <3>1, ParamsDecoded
  <2>7. PICK W, D : W = ReadMany(bytes, i + 2, bytes[i + 1][2]) /\ D = DecodedParams(bytes, j + 1)
    OBVIOUS
  <2>8. W.value = weight /\ W.next = j /\ D.value = params /\ D.next = (j + 1) + Len(P)
    BY <2>1, <2>6, <2>7 DEF Read
  <2>9. PICK head : head = DecodedHead(bytes, i)
    OBVIOUS
  <2>10. head = [node |-> [Condition(type, params) EXCEPT !.weight = weight],
                 count |-> 0, next |-> (j + 1) + Len(P)]
    <3>1. bytes[i][2] = 2 /\ bytes[W.next][2] = type
      BY <2>1, <2>5, <2>8
    <3>2. D = DecodedParams(bytes, W.next + 1)
      BY <2>7, <2>8
    <3>3. head = [node |-> [Condition(bytes[W.next][2], D.value) EXCEPT !.weight = W.value],
                  count |-> 0, next |-> D.next]
      BY ONLY <2>7, <2>9, <3>1, <3>2 DEF DecodedHead
    <3>4. QED  BY <2>8, <3>1, <3>3
  <2>11. [Condition(type, params) EXCEPT !.weight = weight] = node
    BY <1>1, <1>2 DEF Condition
  <2>12. head.node = node /\ head.count = 0 /\ head.next = (j + 1) + Len(P)
    BY <2>10, <2>11
  <2>13. Len(Children(node)) = 0
    BY DEF Children
  <2>14. \A others : WithChildren(head.node, others) = node
    BY <2>12 DEF WithChildren
  <2>15. /\ i \in Nat /\ j \in Nat /\ Len(P) \in Nat
         /\ (j + 1) + Len(P) = i + Len(e) /\ Len(<<>>) = 0
    <3>1. i \in Nat /\ j \in Nat /\ Len(P) \in Nat
      BY <1>7, LenProperties DEF Place1
    <3>2. j + (1 + Len(P)) = i + Len(e)
      BY <1>6, <1>9, <2>1
    <3>3. QED  BY <3>1, <3>2
  <2>16. At(bytes, head.next, <<>>) /\ head.next + Len(<<>>) = i + Len(e)
    <3>1. i + Len(e) <= l + 1
      BY <1>13 DEF At
    <3>2. head.next + 0 = i + Len(e) /\ 1 .. 0 = {}
      BY <2>12, <2>15
    <3>3. QED  BY <2>15, <3>1, <3>2 DEF At
  <2>17. head.next \in Place1 /\ i < head.next
    BY <2>1, <2>6, <2>12, <2>15
  <2>18. QED  BY <2>9, <2>12, <2>13, <2>14, <2>16, <2>17 DEF HeadRead
<1>14. Payload(node, kids) = <<>>
  BY DEF Payload
<1>15. QED  BY <1>10, <1>12, <1>13, <1>14

LEMMA OperatorDecoded ==
  ASSUME NEW node, Plain(node), node.kind = "operator", NEW kids,
         FlattenSeq(kids) \in Seq(Fields),
         NEW bytes, NEW l \in Nat, l = Len(bytes), NEW i \in Place1
  PROVE  /\ EncodedFields(node, kids) \in Seq(Fields)
         /\ At(bytes, i, EncodedFields(node, kids)) =>
              HeadRead(DecodedHead(bytes, i), node, bytes, i, EncodedFields(node, kids),
                       Payload(node, kids))
<1>1. /\ node \in [kind : {"operator"}, operator : ToSet(Texts), children : {node.children},
                   k : Optional(Int), weights : Optional(Seq(Int)), threshold : Optional(Int),
                   weight : Optional(Int)]
      /\ node.operator \in Operators /\ node.threshold = <<>>
      /\ Len(node.children) \in Nat /\ Children(node) = node.children
  BY NodeChildren DEF Plain, IsNode, Children
<1> DEFINE m == Len(node.children)
<1>2. PICK op, weight, F :
        op = node.operator /\ weight = node.weight /\ F = FlattenSeq(kids)
  OBVIOUS
<1>20. m \in Nat /\ m \in Int
  BY <1>1
<1> HIDE DEF m
<1>3. PICK code \in Int : code = OperatorCode(op) /\ OperatorNames[code] = op
  BY <1>1, <1>2, CodeOfOperator
<1>4. PICK f, g : f = <<"u8", code>> /\ g = <<"u16", m>>
  OBVIOUS
<1>5. f \in Fields /\ g \in Fields
  BY <1>4, <1>20 DEF Fields
<1>6. PICK c, E, n : c = <<f>> /\ E = EncodedOperatorParams(node) /\ n = <<g>>
  OBVIOUS
<1>7. /\ c \in Seq(Fields) /\ Len(c) = 1 /\ c = <<f>>
      /\ n \in Seq(Fields) /\ Len(n) = 1 /\ n = <<g>>
  BY <1>5, <1>6
<1>8. E \in Seq(Fields) /\ F \in Seq(Fields)
  BY <1>1, <1>2, <1>6, OperandsDecoded
<1>9. PICK c1, c2, rest : c1 = c \o E /\ c2 = c1 \o n /\ rest = c2 \o F
  OBVIOUS
<1>10. c1 \in Seq(Fields) /\ Len(c1) = Len(c) + Len(E)
  BY ONLY <1>7, <1>8, <1>9, ConcatProperties
<1>11. c2 \in Seq(Fields) /\ Len(c2) = Len(c1) + Len(n)
  BY ONLY <1>7, <1>9, <1>10, ConcatProperties
<1>12. rest \in Seq(Fields) /\ Len(rest) = Len(c2) + Len(F)
  BY ONLY <1>8, <1>9, <1>11, ConcatProperties
<1>13. PICK e : e = EncodedFields(node, kids)
  OBVIOUS
<1>14. e = Opening(1, weight) \o rest
  BY <1>2, <1>3, <1>4, <1>6, <1>9, <1>13 DEF EncodedFields, Opening, m
<1>15. 1 \in Int /\ rest \in Seq(Fields) /\ weight \in Optional(Int)
  BY <1>1, <1>2, <1>12
<1>16. e \in Seq(Fields)
  BY ONLY <1>14, <1>15, OpeningDecoded, l \in Nat, l = Len(bytes), i \in Place1
<1>17. ASSUME At(bytes, i, e)
       PROVE  HeadRead(DecodedHead(bytes, i), node, bytes, i, e, F)
  <2>1. PICK j \in Place1 :
          /\ i < j /\ bytes[i][2] = 1
          /\ ReadMany(bytes, i + 2, bytes[i + 1][2]) = Read(weight, j)
          /\ At(bytes, j, rest) /\ j + Len(rest) = i + Len(e)
    <3>1. \E j \in Place1 : Opened(bytes, i, j, 1, weight, rest, e)
      BY ONLY <1>14, <1>15, <1>17, OpeningDecoded, l \in Nat, l = Len(bytes), i \in Place1
    <3>2. QED  BY <3>1 DEF Opened
  <2>2. At(bytes, j, c2) /\ At(bytes, j + Len(c2), F) /\ j + Len(c2) \in Place1
    <3>1. At(bytes, j, c2 \o F)
      BY <1>9, <2>1
    <3>2. QED  BY ONLY <1>8, <1>11, <3>1, AtConcat, j \in Place1, l \in Nat, l = Len(bytes)
  <2>3. At(bytes, j, c1) /\ At(bytes, j + Len(c1), n) /\ j + Len(c1) \in Place1
    <3>1. At(bytes, j, c1 \o n)
      BY <1>9, <2>2
    <3>2. QED  BY ONLY <1>7, <1>10, <3>1, AtConcat, j \in Place1, l \in Nat, l = Len(bytes)
  <2>4. At(bytes, j, c) /\ At(bytes, j + Len(c), E) /\ j + Len(c) \in Place1
    <3>1. At(bytes, j, c \o E)
      BY <1>9, <2>3
    <3>2. QED  BY ONLY <1>7, <1>8, <3>1, AtConcat, j \in Place1, l \in Nat, l = Len(bytes)
  <2>5. bytes[j] = f /\ bytes[j + Len(c1)] = g
    BY <1>7, <2>3, <2>4, AtField
  <2>6. i \in Nat /\ j \in Nat /\ Len(E) \in Nat /\ Len(F) \in Nat
    BY <1>8, LenProperties DEF Place1
  <2>7. PICK p : p = (j + 1) + Len(E)
    OBVIOUS
  <2>8. j + Len(c1) = p /\ j + Len(c2) = p + 1 /\ p + 1 \in Place1 /\ i < p + 1
        /\ (p + 1) + Len(F) = i + Len(e)
    <3>1. Len(c1) = 1 + Len(E) /\ Len(c2) = (1 + Len(E)) + 1
          /\ Len(rest) = ((1 + Len(E)) + 1) + Len(F)
      BY ONLY <1>7, <1>10, <1>11, <1>12
    <3>2. j + (((1 + Len(E)) + 1) + Len(F)) = i + Len(e)
      BY <2>1, <3>1
    <3>3. j + (1 + Len(E)) = p /\ j + ((1 + Len(E)) + 1) = p + 1 /\ i < p + 1
          /\ (p + 1) + Len(F) = j + (((1 + Len(E)) + 1) + Len(F))
      BY <2>1, <2>6, <2>7
    <3>4. QED  BY <2>2, <3>1, <3>2, <3>3
  <2>9. DecodedOperatorParams(bytes, j + 1) = Read([k |-> node.k, weights |-> node.weights], p)
    <3>1. At(bytes, j + 1, EncodedOperatorParams(node)) /\ j + 1 \in Place1
      BY <1>6, <1>7, <2>4
    <3>2. node.k \in Optional(Int) /\ node.weights \in Optional(Seq(Int))
      BY <1>1
    <3>3. DecodedOperatorParams(bytes, j + 1)
            = Read([k |-> node.k, weights |-> node.weights],
                   (j + 1) + Len(EncodedOperatorParams(node)))
      BY ONLY <3>1, <3>2, OperandsDecoded, l \in Nat, l = Len(bytes)
    <3>4. QED  BY <1>6, <2>7, <3>3
  <2>10. bytes[j][2] = code /\ bytes[p][2] = m
    BY <1>4, <2>5, <2>8
  <2>11. PICK W, D : W = ReadMany(bytes, i + 2, bytes[i + 1][2]) /\ D = DecodedOperatorParams(bytes, j + 1)
    OBVIOUS
  <2>12. W.value = weight /\ W.next = j /\ D.value.k = node.k /\ D.value.weights = node.weights
         /\ D.next = p
    BY <2>1, <2>9, <2>11 DEF Read
  <2>13. PICK head : head = DecodedHead(bytes, i)
    OBVIOUS
  <2>14. head = [node |-> [Operator(op, <<>>) EXCEPT !.k = node.k, !.weights = node.weights,
                                                     !.weight = weight],
                 count |-> m, next |-> p + 1]
    <3>1. bytes[i][2] = 1 /\ bytes[W.next][2] = code /\ bytes[D.next][2] = m
      BY <2>1, <2>10, <2>12
    <3>2. D = DecodedOperatorParams(bytes, W.next + 1)
      BY <2>11, <2>12
    <3>3. head = [node |-> [Operator(OperatorNames[bytes[W.next][2]], <<>>) EXCEPT
                              !.k = D.value.k, !.weights = D.value.weights, !.weight = W.value],
                  count |-> bytes[D.next][2], next |-> D.next + 1]
      BY ONLY <2>11, <2>13, <3>1, <3>2 DEF DecodedHead
    <3>4. QED  BY <1>3, <2>12, <3>1, <3>3
  <2>15. PICK bare : bare = [Operator(op, <<>>) EXCEPT !.k = node.k, !.weights = node.weights,
                                                       !.weight = weight]
    OBVIOUS
  <2>16. bare = [kind |-> "operator", operator |-> op, children |-> <<>>, k |-> node.k,
                 weights |-> node.weights, threshold |-> <<>>, weight |-> weight]
    BY <2>15 DEF Operator
  <2>17. ASSUME NEW others
         PROVE  [bare EXCEPT !.children = others] = [node EXCEPT !.children = others]
    <3>1. node = [kind |-> "operator", operator |-> op, children |-> node.children,
                  k |-> node.k, weights |-> node.weights, threshold |-> <<>>, weight |-> weight]
      BY <1>1, <1>2
    <3>2. [node EXCEPT !.children = others]
            = [kind |-> "operator", operator |-> op, children |-> others, k |-> node.k,
               weights |-> node.weights, threshold |-> <<>>, weight |-> weight]
      BY <3>1
    <3>3. QED  BY <2>16, <3>2
  <2>18. bare.kind = "operator" /\ head.node = bare /\ head.count = m /\ head.next = p + 1
    <3>1. head = [node |-> bare, count |-> m, next |-> p + 1]
      BY ONLY <2>14, <2>15
    <3>2. bare.kind = "operator"
      BY <2>16
    <3>3. QED  BY ONLY <3>1, <3>2
  <2>19. \A others : WithChildren(head.node, others) = [node EXCEPT !.children = others]
    BY <2>17, <2>18 DEF WithChildren
  <2>20. WithChildren(head.node, Children(node)) = node
    <3>1. [node EXCEPT !.children = node.children] = node
      BY <1>1
    <3>2. QED  BY <1>1, <2>19, <3>1
  <2>21. At(bytes, head.next, F) /\ head.next + Len(F) = i + Len(e)
    BY <2>2, <2>8, <2>18
  <2>22. QED  BY <1>1, <1>2, <2>8, <2>13, <2>18, <2>19, <2>20, <2>21 DEF HeadRead, m
<1>18. Payload(node, kids) = F
  BY <1>2 DEF Payload
<1>19. QED  BY <1>13, <1>16, <1>17, <1>18

-----------------------------------------------------------------------------
(* The decoder reads on: what it returns at a place depends on later ones. *)

Spots(l) == (1 .. l + 1) \X (0 .. l)
\* What the decoder returns at q, given what it returns at later places.
NodesAt(bytes, l, f, q) ==
  LET head == DecodedHead(bytes, q[1])
      children == f[<<head.next, head.count>>]
      others == f[<<children.next, q[2] - 1>>]
  IN IF q[2] = 0 THEN Read(<<>>, q[1])
     ELSE IF /\ head.next \in q[1] + 1 .. l + 1 /\ head.count \in 0 .. l
             /\ children.next \in q[1] + 1 .. l + 1
     THEN Read(<<WithChildren(head.node, children.value)>> \o others.value, others.next)
     ELSE Truncated

LEMMA LaterOnly ==
  ASSUME NEW bytes, NEW l \in Nat, NEW f, NEW g, NEW q \in Spots(l),
         \A r \in Spots(l) : r[1] > q[1] => f[r] = g[r]
  PROVE  NodesAt(bytes, l, f, q) = NodesAt(bytes, l, g, q)
<1>1. PICK i \in 1 .. l + 1, m \in 0 .. l : q = <<i, m>> /\ q[1] = i /\ q[2] = m
  BY DEF Spots
<1>2. PICK head : head = DecodedHead(bytes, i)
  OBVIOUS
<1>3. PICK after : after = i + 1 .. l + 1
  OBVIOUS
<1>4. ASSUME NEW a \in after, NEW b \in 0 .. l
      PROVE  f[<<a, b>>] = g[<<a, b>>]
  <2>1. <<a, b>> \in Spots(l) /\ <<a, b>>[1] = a /\ a > i
    BY <1>3 DEF Spots
  <2>2. QED  BY <1>1, <2>1
<1>5. CASE m = 0
  BY <1>1, <1>5 DEF NodesAt
<1>6. CASE m # 0 /\ ~(head.next \in after /\ head.count \in 0 .. l)
  BY <1>1, <1>2, <1>3, <1>6 DEF NodesAt
<1>7. CASE m # 0 /\ head.next \in after /\ head.count \in 0 .. l
  <2>1. PICK children : children = f[<<head.next, head.count>>] /\ children = g[<<head.next, head.count>>]
    BY <1>4, <1>7
  <2>2. CASE children.next \notin after
    BY <1>1, <1>2, <1>3, <1>7, <2>1, <2>2 DEF NodesAt
  <2>3. CASE children.next \in after
    <3>1. m - 1 \in 0 .. l
      BY <1>7
    <3>2. PICK others : others = f[<<children.next, m - 1>>] /\ others = g[<<children.next, m - 1>>]
      BY <1>4, <2>3, <3>1
    <3>3. NodesAt(bytes, l, f, q)
            = Read(<<WithChildren(head.node, children.value)>> \o others.value, others.next)
      BY <1>1, <1>2, <1>3, <1>7, <2>1, <2>3, <3>2 DEF NodesAt
    <3>4. NodesAt(bytes, l, g, q)
            = Read(<<WithChildren(head.node, children.value)>> \o others.value, others.next)
      BY <1>1, <1>2, <1>3, <1>7, <2>1, <2>3, <3>2 DEF NodesAt
    <3>5. QED  BY <3>3, <3>4
  <2>4. QED  BY <2>2, <2>3
<1>8. QED  BY <1>5, <1>6, <1>7

\* The decoder is defined at every place, by what it reads there.
LEMMA DecoderRule ==
  ASSUME NEW bytes, NEW l \in Nat, l = Len(bytes)
  PROVE  \A q \in Spots(l) : DecodedNodes(bytes)[q] = NodesAt(bytes, l, DecodedNodes(bytes), q)
<1> DEFINE Late(h) == {q \in Spots(l) : q[1] + h >= l + 2}
           Part(f, h) == f = [q \in Late(h) |-> NodesAt(bytes, l, f, q)]
           T == {h \in Nat : \E f : Part(f, h)}
<1>1. \A q \in Spots(l) : q[1] \in 1 .. l + 1 /\ q[2] \in 0 .. l
  BY DEF Spots
<1>2. 0 \in T
  <2>1. Late(0) = {}
    BY <1>1
  <2>2. PICK f : f = [q \in {} |-> 0]
    OBVIOUS
  <2>3. f = [q \in Late(0) |-> NodesAt(bytes, l, f, q)]
    BY <2>1, <2>2
  <2>4. QED  BY <2>3
<1>3. ASSUME NEW h \in T  PROVE h + 1 \in T
  <2>1. PICK f : Part(f, h)
    OBVIOUS
  <2>2. h \in Nat
    OBVIOUS
  <2>3. PICK g : g = [q \in Late(h + 1) |-> IF q \in Late(h) THEN f[q] ELSE NodesAt(bytes, l, f, q)]
    OBVIOUS
  <2>4. Late(h) \subseteq Late(h + 1)
    BY <1>1, <2>2
  <2>5. ASSUME NEW q \in Late(h)  PROVE f[q] = NodesAt(bytes, l, f, q) /\ g[q] = f[q]
    <3> HIDE DEF Late
    <3>1. QED  BY <2>1, <2>3, <2>4
  <2>6. ASSUME NEW q \in Late(h + 1)
        PROVE  NodesAt(bytes, l, f, q) = NodesAt(bytes, l, g, q)
    <3>1. q \in Spots(l)
      OBVIOUS
    <3>2. ASSUME NEW r \in Spots(l), r[1] > q[1]  PROVE f[r] = g[r]
      <4>1. r[1] \in Int /\ q[1] \in Int /\ q[1] + (h + 1) >= l + 2
        BY <1>1, <3>1
      <4>2. r[1] + h >= l + 2
        BY <2>2, <3>2, <4>1
      <4>3. r \in Late(h)
        BY <4>2
      <4>4. QED  BY <2>5, <4>3
    <3>3. QED  BY <3>1, <3>2, LaterOnly
  <2>7. ASSUME NEW q \in Late(h + 1)  PROVE g[q] = NodesAt(bytes, l, g, q)
    <3> HIDE DEF Late
    <3>1. CASE q \in Late(h)
      BY <2>5, <2>6, <3>1
    <3>2. CASE q \notin Late(h)
      BY <2>3, <2>6, <3>2
    <3>3. QED  BY <3>1, <3>2
  <2>8. g = [q \in Late(h + 1) |-> NodesAt(bytes, l, g, q)]
    <3> HIDE DEF Late
    <3>1. g = [q \in Late(h + 1) |-> g[q]]
      BY <2>3
    <3>2. QED  BY <2>7, <3>1
  <2>9. Part(g, h + 1)
    BY <2>8
  <2> HIDE DEF Part
  <2>10. QED  BY <2>2, <2>9
<1> HIDE DEF T
<1>4. T = Nat
  BY <1>2, <1>3, CountUp DEF T
<1>5. \E f : Part(f, l + 1)
  <2>1. l + 1 \in T
    BY <1>4
  <2> HIDE DEF Part
  <2>2. QED  BY <2>1 DEF T
<1>11. PICK f : Part(f, l + 1)
  BY <1>5
<1>6. Late(l + 1) = Spots(l)
  BY <1>1
<1>7. f = [q \in Spots(l) |-> NodesAt(bytes, l, f, q)]
  <2> HIDE DEF Late
  <2>1. QED  BY <1>11, <1>6
<1> HIDE DEF Part, Late
<1>8. DecodedNodes(bytes) = CHOOSE g : g = [q \in Spots(l) |-> NodesAt(bytes, l, g, q)]
  BY DEF DecodedNodes, Spots, NodesAt
<1>9. DecodedNodes(bytes) = [q \in Spots(l) |-> NodesAt(bytes, l, DecodedNodes(bytes), q)]
  BY <1>7, <1>8
<1>10. QED  BY <1>9

-----------------------------------------------------------------------------
(* A list of trees is read back as it was written.                         *)

\* s, wherever it stands in the bytes, is read as one node, and reading goes
\* on behind it.
Taken(bytes, l, node, s) ==
  /\ Len(s) >= 1
  /\ \A i \in Place1, m \in 1 .. l : At(bytes, i, s) =>
       DecodedNodes(bytes)[<<i, m>>] =
         Read(<<node>> \o DecodedNodes(bytes)[<<i + Len(s), m - 1>>].value,
              DecodedNodes(bytes)[<<i + Len(s), m - 1>>].next)

\* The first parts of ss are F at each place, and each part stands behind them.
Laid(bytes, i, ss, F, n) ==
  /\ \A k \in 0 .. n : Len(F[k]) \in Nat /\ Len(F[k]) >= k
  /\ \A k \in 1 .. n : At(bytes, i + Len(F[k - 1]), ss[k])
                       /\ i + Len(F[k - 1]) \in Place1
                       /\ Len(F[k]) = Len(F[k - 1]) + Len(ss[k])

\* Each part of what is written stands behind the parts before it.
LEMMA FlattenAt ==
  ASSUME NEW bytes, NEW l \in Nat, l = Len(bytes), NEW i \in Place1,
         NEW ss \in Seq(Seq(Fields)), NEW n \in Nat, n = Len(ss),
         \A k \in 1 .. n : Len(ss[k]) >= 1,
         NEW F, Flattens(F, ss), \A k \in 0 .. n : F[k] \in Seq(Fields),
         At(bytes, i, F[n])
  PROVE  Laid(bytes, i, ss, F, n)
<1>1. F[0] = <<>> /\ \A k \in 1 .. n : F[k] = F[k - 1] \o ss[k]
  BY DEF Flattens
<1>2. ASSUME NEW k \in 1 .. n
      PROVE  /\ F[k] = F[k - 1] \o ss[k] /\ F[k - 1] \in Seq(Fields) /\ ss[k] \in Seq(Fields)
             /\ Len(F[k]) = Len(F[k - 1]) + Len(ss[k]) /\ Len(ss[k]) \in Nat
  <2>1. k - 1 \in 0 .. n /\ ss[k] \in Seq(Fields)
    BY ElementOfSeq
  <2>2. F[k - 1] \in Seq(Fields)
    BY <2>1
  <2>3. F[k] = F[k - 1] \o ss[k]
    BY <1>1
  <2>4. Len(F[k]) = Len(F[k - 1]) + Len(ss[k])
    BY ONLY <2>1, <2>2, <2>3, ConcatProperties
  <2>5. QED  BY <2>1, <2>2, <2>3, <2>4, LenProperties
<1>3. \A k \in 0 .. n : Len(F[k]) \in Nat
  BY LenProperties
<1>4. \A k \in 0 .. n : Len(F[k]) >= k
  <2> DEFINE Holds(k) == k <= n => Len(F[k]) >= k
             T == {k \in Nat : Holds(k)}
  <2>1. Holds(0)
    BY <1>1
  <2>2. ASSUME NEW k \in Nat, Holds(k)  PROVE Holds(k + 1)
    <3> SUFFICES ASSUME k + 1 <= n  PROVE Len(F[k + 1]) >= k + 1
      OBVIOUS
    <3>1. k + 1 \in 1 .. n /\ (k + 1) - 1 = k /\ k \in 0 .. n /\ k <= n
      OBVIOUS
    <3>2. Len(F[k + 1]) = Len(F[(k + 1) - 1]) + Len(ss[k + 1]) /\ Len(ss[k + 1]) >= 1
      BY <1>2, <3>1
    <3>3. Len(F[k]) >= k /\ Len(F[k]) \in Nat /\ Len(ss[k + 1]) \in Nat
      BY <1>2, <1>3, <2>2, <3>1
    <3>4. Len(F[k + 1]) = Len(F[k]) + Len(ss[k + 1])
      BY <3>1, <3>2
    <3>5. PICK x, y, z : x = Len(F[k + 1]) /\ y = Len(F[k]) /\ z = Len(ss[k + 1])
      OBVIOUS
    <3>6. x = y + z /\ z >= 1 /\ y >= k /\ y \in Nat /\ z \in Nat
      BY ONLY <3>2, <3>3, <3>4, <3>5
    <3>7. x >= k + 1
      BY ONLY <3>6, k \in Nat
    <3>8. QED  BY ONLY <3>5, <3>7
  <2> HIDE DEF Holds
  <2>3. 0 \in T /\ \A k \in T : k + 1 \in T
    BY <2>1, <2>2
  <2> HIDE DEF T
  <2>4. T = Nat
    BY <2>3, CountUp DEF T
  <2>5. \A k \in Nat : Holds(k)
    BY <2>4 DEF T
  <2>6. QED  BY <2>5 DEF Holds
<1>5. ASSUME NEW k \in 1 .. n, At(bytes, i, F[k])
      PROVE  /\ At(bytes, i, F[k - 1]) /\ At(bytes, i + Len(F[k - 1]), ss[k])
             /\ i + Len(F[k - 1]) \in Place1
  <2>1. PICK a, b : a = F[k - 1] /\ b = ss[k]
    OBVIOUS
  <2>2. a \in Seq(Fields) /\ b \in Seq(Fields) /\ At(bytes, i, a \o b)
    BY <1>2, <1>5, <2>1
  <2>3. At(bytes, i, a) /\ At(bytes, i + Len(a), b) /\ i + Len(a) \in Place1
    BY ONLY <2>2, AtConcat, i \in Place1, l \in Nat, l = Len(bytes)
  <2>4. QED  BY <2>1, <2>3
<1>6. \A k \in 0 .. n : At(bytes, i, F[k])
  <2> DEFINE Holds(h) == h <= n => At(bytes, i, F[n - h])
             T == {h \in Nat : Holds(h)}
  <2>1. Holds(0)
    OBVIOUS
  <2>2. ASSUME NEW h \in Nat, Holds(h)  PROVE Holds(h + 1)
    <3> SUFFICES ASSUME h + 1 <= n  PROVE At(bytes, i, F[n - (h + 1)])
      OBVIOUS
    <3>1. n - h \in 1 .. n /\ (n - h) - 1 = n - (h + 1) /\ h <= n
      OBVIOUS
    <3>2. At(bytes, i, F[n - h])
      BY <2>2, <3>1
    <3>3. At(bytes, i, F[(n - h) - 1])
      BY <1>5, <3>1, <3>2
    <3>4. QED  BY <3>1, <3>3
  <2> HIDE DEF Holds
  <2>3. 0 \in T /\ \A h \in T : h + 1 \in T
    BY <2>1, <2>2
  <2> HIDE DEF T
  <2>4. T = Nat
    BY <2>3, CountUp DEF T
  <2>5. \A h \in Nat : Holds(h)
    BY <2>4 DEF T
  <2>6. ASSUME NEW k \in 0 .. n  PROVE At(bytes, i, F[k])
    <3>1. n - k \in Nat /\ n - k <= n /\ n - (n - k) = k
      OBVIOUS
    <3>2. QED  BY <2>5, <3>1 DEF Holds
  <2>7. QED  BY <2>6
<1>7. ASSUME NEW k \in 1 .. n
      PROVE  At(bytes, i + Len(F[k - 1]), ss[k]) /\ i + Len(F[k - 1]) \in Place1
  <2>1. k \in 0 .. n
    OBVIOUS
  <2>2. QED  BY <1>5, <1>6, <2>1
<1>8. QED  BY <1>2, <1>3, <1>4, <1>7 DEF Laid

\* s, at place i, is read as the n nodes of c.
ListRead(bytes, l, i, n, c, s) ==
  n <= l /\ DecodedNodes(bytes)[<<i, n>>] = Read(c, i + Len(s))

LEMMA ListDecoded ==
  ASSUME NEW bytes, NEW l \in Nat, l = Len(bytes), NEW i \in Place1,
         NEW n \in Nat, NEW c, c = [j \in 1 .. n |-> c[j]],
         NEW ss \in Seq(Seq(Fields)), n = Len(ss),
         \A j \in 1 .. n : Taken(bytes, l, c[j], ss[j]),
         At(bytes, i, FlattenSeq(ss))
  PROVE  ListRead(bytes, l, i, n, c, FlattenSeq(ss))
<1>1. PICK F : /\ Flattens(F, ss) /\ FlattenSeq(ss) = F[n]
               /\ \A k \in 0 .. n : F[k] \in Seq(Fields)
  BY FlattenRule
<1>2. \A k \in 1 .. n : Len(ss[k]) >= 1
  BY DEF Taken
<1>3. /\ \A k \in 0 .. n : Len(F[k]) \in Nat /\ Len(F[k]) >= k
      /\ \A k \in 1 .. n : At(bytes, i + Len(F[k - 1]), ss[k])
                           /\ i + Len(F[k - 1]) \in Place1
                           /\ Len(F[k]) = Len(F[k - 1]) + Len(ss[k])
  <2>1. At(bytes, i, F[n])
    BY <1>1
  <2>2. Laid(bytes, i, ss, F, n)
    BY ONLY <1>1, <1>2, <2>1, FlattenAt, l \in Nat, l = Len(bytes), i \in Place1,
            ss \in Seq(Seq(Fields)), n \in Nat, n = Len(ss)
  <2>3. QED  BY <2>2 DEF Laid
<1>4. i \in Nat /\ i >= 1 /\ n \in 0 .. n
  BY DEF Place1
<1>5. i + Len(F[n]) <= l + 1 /\ n <= Len(F[n]) /\ Len(F[n]) \in Nat
  BY <1>1, <1>3, <1>4 DEF At
<1>6. n <= l
  BY <1>4, <1>5
<1> DEFINE DN == DecodedNodes(bytes)
           tail(h) == [j \in 1 .. h |-> c[(n - h) + j]]
           Holds(h) == h <= n => DN[<<i + Len(F[n - h]), h>>] = Read(tail(h), i + Len(F[n]))
           T == {h \in Nat : Holds(h)}
<1>7. Holds(0)
  <2>1. PICK q : q = <<i + Len(F[n]), 0>>
    OBVIOUS
  <2>2. q \in Spots(l) /\ q[1] = i + Len(F[n]) /\ q[2] = 0
    BY <1>4, <1>5, <2>1 DEF Spots
  <2>3. DN[q] = NodesAt(bytes, l, DN, q)
    BY <2>2, DecoderRule
  <2>4. DN[q] = Read(<<>>, i + Len(F[n]))
    BY <2>2, <2>3 DEF NodesAt
  <2>5. tail(0) = <<>> /\ n - 0 = n
    OBVIOUS
  <2>6. QED  BY <2>1, <2>4, <2>5
<1>8. ASSUME NEW h \in Nat, Holds(h)  PROVE Holds(h + 1)
  <2> SUFFICES ASSUME h + 1 <= n
               PROVE  DN[<<i + Len(F[n - (h + 1)]), h + 1>>] = Read(tail(h + 1), i + Len(F[n]))
    OBVIOUS
  <2>1. PICK k : k = n - h
    OBVIOUS
  <2>2. k \in 1 .. n /\ n - (h + 1) = k - 1 /\ h <= n /\ h + 1 \in 1 .. l /\ (h + 1) - 1 = h
    BY <1>6, <2>1
  <2>3. PICK p : p = i + Len(F[k - 1])
    OBVIOUS
  <2>4. /\ At(bytes, p, ss[k]) /\ p \in Place1 /\ Len(F[k]) = Len(F[k - 1]) + Len(ss[k])
        /\ Taken(bytes, l, c[k], ss[k])
    BY <1>3, <2>2, <2>3
  <2>5. p + Len(ss[k]) = i + Len(F[k])
    <3>1. k \in 0 .. n /\ k - 1 \in 0 .. n /\ ss[k] \in Seq(Fields)
      BY <2>2, ElementOfSeq
    <3>2. Len(F[k]) \in Nat /\ Len(F[k - 1]) \in Nat /\ Len(ss[k]) \in Nat
      BY <1>3, <3>1, LenProperties
    <3>3. Len(F[k]) = Len(F[k - 1]) + Len(ss[k])
      BY <2>4
    <3>4. PICK x, y, z : x = Len(F[k]) /\ y = Len(F[k - 1]) /\ z = Len(ss[k])
      OBVIOUS
    <3>5. x \in Nat /\ y \in Nat /\ z \in Nat /\ x = y + z /\ p = i + y
      BY ONLY <2>3, <3>2, <3>3, <3>4
    <3>6. p + z = i + x
      BY ONLY <1>4, <3>5
    <3>7. QED  BY ONLY <3>4, <3>6
  <2>6. DN[<<p, h + 1>>] = Read(<<c[k]>> \o DN[<<p + Len(ss[k]), (h + 1) - 1>>].value,
                                DN[<<p + Len(ss[k]), (h + 1) - 1>>].next)
    BY <2>2, <2>4 DEF Taken
  <2>7. DN[<<i + Len(F[k]), h>>] = Read(tail(h), i + Len(F[n]))
    BY <1>8, <2>1, <2>2
  <2>8. DN[<<p, h + 1>>] = Read(<<c[k]>> \o tail(h), i + Len(F[n]))
    <3> HIDE DEF tail
    <3>1. DN[<<p + Len(ss[k]), (h + 1) - 1>>] = Read(tail(h), i + Len(F[n]))
      BY <2>2, <2>5, <2>7
    <3>2. QED  BY ONLY <2>6, <3>1 DEF Read
  <2>9. <<c[k]>> \o tail(h) = tail(h + 1)
    <3>1. PICK S : S = {c[j] : j \in 1 .. n}
      OBVIOUS
    <3>2. <<c[k]>> \in Seq(S) /\ Len(<<c[k]>>) = 1 /\ <<c[k]>>[1] = c[k]
      <4>1. c[k] \in S
        BY <2>2, <3>1
      <4>2. QED  BY <4>1
    <3>3. tail(h) \in Seq(S) /\ Len(tail(h)) = h /\ DOMAIN tail(h) = 1 .. h
      <4>3. ASSUME NEW j \in 1 .. h  PROVE c[(n - h) + j] \in S
        <5>1. (n - h) + j \in 1 .. n
          BY ONLY h \in Nat, n \in Nat, h + 1 <= n, j \in 1 .. h
        <5>2. QED  BY <3>1, <5>1
      <4>1. tail(h) \in [1 .. h -> S]
        BY <4>3
      <4>2. QED  BY <4>1, FunctionIsSeq
    <3>4. PICK u, v, t : u = <<c[k]>> \o tail(h) /\ v = <<c[k]>> /\ t = tail(h)
      OBVIOUS
    <3>5. /\ u \in Seq(S) /\ Len(u) = 1 + h
          /\ \A j \in 1 .. 1 + h : u[j] = IF j <= 1 THEN v[j] ELSE t[j - 1]
      <4>1. PICK a \in Nat : a = 1
        OBVIOUS
      <4>2. v \in Seq(S) /\ t \in Seq(S) /\ Len(v) = a /\ Len(t) = h /\ u = v \o t
        BY <3>2, <3>3, <3>4, <4>1
      <4>3. /\ u \in Seq(S) /\ Len(u) = a + h
            /\ \A j \in 1 .. a + h : u[j] = IF j <= a THEN v[j] ELSE t[j - a]
        BY ONLY <4>2, ConcatProperties
      <4>4. QED  BY ONLY <4>1, <4>3
    <3>6. u = [j \in 1 .. h + 1 |-> u[j]]
      <4>1. 1 + h = h + 1
        OBVIOUS
      <4>2. DOMAIN u = 1 .. h + 1 /\ u \in [1 .. h + 1 -> S]
        BY <3>5, <4>1, LenProperties
      <4>3. QED  BY <4>2
    <3>7. ASSUME NEW j \in 1 .. h + 1  PROVE u[j] = c[(n - (h + 1)) + j]
      <4>1. CASE j = 1
        <5>1. u[1] = v[1] /\ v[1] = c[k]
          <6>1. 1 \in 1 .. 1 + h /\ 1 <= 1
            OBVIOUS
          <6>2. QED  BY ONLY <3>2, <3>4, <3>5, <6>1
        <5>2. (n - (h + 1)) + 1 = k
          BY <2>1
        <5>3. QED  BY <4>1, <5>1, <5>2
      <4>2. CASE j # 1
        <5>1. j \in 1 .. 1 + h /\ j - 1 \in 1 .. h /\ ~(j <= 1)
          BY <4>2
        <5>2. u[j] = t[j - 1]
          BY <3>5, <5>1
        <5>3. t[j - 1] = c[(n - h) + (j - 1)]
          BY <3>4, <5>1
        <5>4. (n - h) + (j - 1) = (n - (h + 1)) + j
          BY <5>1
        <5>5. QED  BY <5>2, <5>3, <5>4
      <4>3. QED  BY <4>1, <4>2
    <3>8. u = tail(h + 1)
      BY <3>6, <3>7
    <3>9. QED  BY <3>4, <3>8
  <2>10. QED  BY <2>2, <2>3, <2>8, <2>9
<1> HIDE DEF Holds
<1>9. 0 \in T /\ \A h \in T : h + 1 \in T
  BY <1>7, <1>8
<1> HIDE DEF T
<1>10. T = Nat
  BY <1>9, CountUp DEF T
<1>11. Holds(n)
  BY <1>10 DEF T
<1>12. F[n - n] = <<>> /\ Len(F[n - n]) = 0
  BY <1>1 DEF Flattens
<1>13. tail(n) = c
  <2>1. \A j \in 1 .. n : (n - n) + j = j
    OBVIOUS
  <2>2. QED  BY <2>1
<1>14. DN[<<i + Len(F[n - n]), n>>] = Read(tail(n), i + Len(F[n]))
  BY <1>11 DEF Holds
<1>15. i + Len(F[n - n]) = i
  BY <1>4, <1>12
<1>16. QED  BY <1>1, <1>6, <1>13, <1>14, <1>15 DEF ListRead

-----------------------------------------------------------------------------
(* A tree is read back as it was written.                                  *)

LEMMA FieldsDecoded ==
  ASSUME NEW node, Plain(node), NEW kids, FlattenSeq(kids) \in Seq(Fields),
         NEW bytes, NEW l \in Nat, l = Len(bytes), NEW i \in Place1
  PROVE  /\ EncodedFields(node, kids) \in Seq(Fields)
         /\ At(bytes, i, EncodedFields(node, kids)) =>
              HeadRead(DecodedHead(bytes, i), node, bytes, i, EncodedFields(node, kids),
                       Payload(node, kids))
<1>1. CASE node.kind = "operator"
  BY <1>1, OperatorDecoded
<1>2. CASE node.kind = "condition"
  BY <1>2, ConditionDecoded
<1>3. node.kind = "operator" \/ node.kind = "condition"
  BY DEF Plain, IsNode
<1>4. QED  BY <1>1, <1>2, <1>3

\* It begins with the kind of the node.
LEMMA FieldsLong ==
  ASSUME NEW node, NEW kids, EncodedFields(node, kids) \in Seq(Fields), Plain(node),
         FlattenSeq(kids) \in Seq(Fields)
  PROVE  Len(EncodedFields(node, kids)) >= 1
<1>1. PICK e : e = EncodedFields(node, kids)
  OBVIOUS
<1>2. PICK l \in Nat : l = Len(e)
  BY <1>1, LenProperties
<1>3. 1 \in Place1 /\ At(e, 1, e)
  <2>1. \A j \in 1 .. Len(e) : e[1 + j - 1] = e[j]
    <3>1. \A j \in 1 .. l : 1 + j - 1 = j
      OBVIOUS
    <3>2. QED  BY <1>2, <3>1
  <2>2. 1 + Len(e) <= Len(e) + 1
    BY <1>2
  <2>3. QED  BY <2>1, <2>2 DEF At, Place1
<1>4. PICK head : HeadRead(head, node, e, 1, e, Payload(node, kids))
  <2>1. /\ node = node /\ l \in Nat /\ l = Len(e) /\ 1 \in Place1
    BY <1>2, <1>3
  <2>2. HeadRead(DecodedHead(e, 1), node, e, 1, EncodedFields(node, kids), Payload(node, kids))
    BY <1>1, <1>3, <2>1, FieldsDecoded
  <2>3. QED  BY <1>1, <2>2
<1>5. /\ head.next \in Place1 /\ 1 < head.next
      /\ head.next + Len(Payload(node, kids)) = 1 + Len(e)
  BY <1>4 DEF HeadRead
<1>6. Len(Payload(node, kids)) \in Nat
  <2>1. Payload(node, kids) \in Seq(Fields)
    BY EmptySeq DEF Payload
  <2>2. QED  BY <2>1, LenProperties
<1>7. Len(e) \in Nat /\ head.next \in Nat
  BY <1>2, <1>5 DEF Place1
<1>8. QED  BY <1>1, <1>5, <1>6, <1>7

LEMMA TreeDecoded ==
  ASSUME NEW root, IsTree(root), \A n \in Subtrees(root) : Plain(n),
         NEW bytes, NEW l \in Nat, l = Len(bytes)
  PROVE  EncodedNode(root) \in Seq(Fields) /\ Taken(bytes, l, root, EncodedNode(root))
<1> DEFINE Settled(n) == EncodedNode(n) \in Seq(Fields) /\ Taken(bytes, l, n, EncodedNode(n))
           P == {n \in Subtrees(root) : Settled(n)}
           DN == DecodedNodes(bytes)
<1>1. ASSUME NEW n \in Subtrees(root), ToSet(Children(n)) \subseteq P
      PROVE  EncodedNode(n) \in Seq(Fields) /\ Taken(bytes, l, n, EncodedNode(n))
  <2>1. IsNode(n) /\ Finite(n) /\ Plain(n)
    BY TreeParts
  <2>2. PICK kids : kids = [i \in DOMAIN Children(n) |-> EncodedNode(Children(n)[i])]
    OBVIOUS
  <2>3. EncodedNode(n) = EncodedFields(n, kids)
    BY <2>1, <2>2, EncodedRule
  <2>4. PICK c : c = Children(n)
    OBVIOUS
  <2>5. PICK m \in Nat : /\ m = Len(c) /\ DOMAIN c = 1 .. m /\ c \in Seq(ToSet(c))
    BY <2>1, <2>4, NodeChildren
  <2>6. c = [j \in 1 .. m |-> c[j]]
    BY <2>5
  <2>7. \A j \in 1 .. m : EncodedNode(c[j]) \in Seq(Fields) /\ Taken(bytes, l, c[j], EncodedNode(c[j]))
    BY <1>1, <2>4, <2>5 DEF ToSet
  <2>8. kids = [j \in 1 .. m |-> EncodedNode(c[j])]
    BY <2>2, <2>4, <2>5
  <2>9. kids \in Seq(Seq(Fields)) /\ Len(kids) = m
    <3>1. kids \in [1 .. m -> Seq(Fields)]
      BY <2>7, <2>8
    <3>2. QED  BY <3>1, FunctionIsSeq
  <2>10. \A j \in 1 .. m : Taken(bytes, l, c[j], kids[j])
    BY <2>7, <2>8
  <2>11. PICK e, rest : e = EncodedFields(n, kids) /\ rest = FlattenSeq(kids)
    OBVIOUS
  <2>12. rest \in Seq(Fields)
    BY <2>9, <2>11, FlattenType
  <2>13. Payload(n, kids) = rest
    <3>1. CASE n.kind = "operator"
      BY <2>11, <3>1 DEF Payload
    <3>2. CASE n.kind # "operator"
      <4>1. m = 0
        BY <2>4, <2>5, <3>2 DEF Children
      <4>2. rest = <<>>
        BY <2>9, <2>11, <4>1, FlattenShort
      <4>3. QED  BY <3>2, <4>2 DEF Payload
    <3>3. QED  BY <3>1, <3>2
  <2>14. e \in Seq(Fields)
    <3>1. 1 \in Place1
      BY DEF Place1
    <3>2. QED  BY <2>1, <2>11, <2>12, <3>1, FieldsDecoded
  <2>15. Len(e) >= 1 /\ Len(e) \in Nat
    <3>1. Len(e) >= 1
      BY <2>1, <2>11, <2>12, <2>14, FieldsLong
    <3>2. QED  BY <2>14, <3>1, LenProperties
  <2>16. ASSUME NEW i \in Place1, NEW k \in 1 .. l, At(bytes, i, e)
         PROVE  DN[<<i, k>>] = Read(<<n>> \o DN[<<i + Len(e), k - 1>>].value,
                                    DN[<<i + Len(e), k - 1>>].next)
    <3>1. PICK head : head = DecodedHead(bytes, i)
      OBVIOUS
    <3>2. HeadRead(head, n, bytes, i, e, rest)
      <4>1. At(bytes, i, EncodedFields(n, kids))
        BY <2>11, <2>16
      <4>2. FlattenSeq(kids) \in Seq(Fields)
        BY <2>11, <2>12
      <4>3. HeadRead(DecodedHead(bytes, i), n, bytes, i, EncodedFields(n, kids), Payload(n, kids))
        BY ONLY <2>1, <4>1, <4>2, FieldsDecoded, l \in Nat, l = Len(bytes), i \in Place1
      <4>4. QED  BY <2>11, <2>13, <3>1, <4>3
    <3>3. /\ head.next \in Place1 /\ i < head.next /\ head.count = m
          /\ WithChildren(head.node, c) = n
          /\ At(bytes, head.next, rest) /\ head.next + Len(rest) = i + Len(e)
      BY <2>4, <2>5, <3>2 DEF HeadRead
    <3>4. m <= l /\ DN[<<head.next, m>>] = Read(c, head.next + Len(rest))
      <4>1. At(bytes, head.next, FlattenSeq(kids)) /\ head.next \in Place1 /\ m = Len(kids)
        BY <2>9, <2>11, <3>3
      <4>2. PICK p : p = head.next
        OBVIOUS
      <4>3. At(bytes, p, FlattenSeq(kids)) /\ p \in Place1 /\ m \in Nat
            /\ kids \in Seq(Seq(Fields))
        BY <2>9, <4>1, <4>2
      <4>4. ListRead(bytes, l, p, m, c, FlattenSeq(kids))
        BY ONLY <2>6, <2>10, <4>1, <4>3, ListDecoded, l \in Nat, l = Len(bytes)
      <4>5. QED  BY <2>11, <4>2, <4>4 DEF ListRead
    <3>5. i + Len(e) <= l + 1
      BY <2>16 DEF At
    <3>6. i \in Nat /\ i >= 1 /\ head.next \in Nat /\ Len(rest) \in Nat
      BY <2>12, <3>3, LenProperties DEF Place1
    <3>18. PICK q : q = <<i, k>>
      OBVIOUS
    <3>7. q = <<i, k>> /\ q[1] = i /\ q[2] = k
      BY <3>18
    <3>8. q \in Spots(l)
      <4>1. i \in 1 .. l + 1 /\ k \in 0 .. l
        BY <2>15, <3>5, <3>6
      <4>2. QED  BY <3>7, <4>1 DEF Spots
    <3>9. DN[q] = NodesAt(bytes, l, DN, q)
      BY <3>8, DecoderRule
    <3>10. PICK children : children = DN[<<head.next, head.count>>]
      OBVIOUS
    <3>11. children.value = c /\ children.next = i + Len(e)
      BY <3>3, <3>4, <3>10 DEF Read
    <3>12. /\ head.next \in i + 1 .. l + 1 /\ head.count \in 0 .. l
           /\ children.next \in i + 1 .. l + 1
      <4>1. head.next \in i + 1 .. l + 1
        <5>1. head.next <= head.next + Len(rest)
          BY ONLY <3>6
        <5>2. QED  BY ONLY <3>3, <3>5, <3>6, <5>1, l \in Nat
      <4>2. head.count \in 0 .. l
        BY ONLY <3>3, <3>4, l \in Nat, m \in Nat
      <4>3. children.next \in i + 1 .. l + 1
        BY ONLY <2>15, <3>5, <3>6, <3>11, l \in Nat
      <4>4. QED  BY <4>1, <4>2, <4>3
    <3>13. k # 0
      OBVIOUS
    <3>14. PICK others : others = DN[<<children.next, k - 1>>]
      OBVIOUS
    <3>15. NodesAt(bytes, l, DN, q)
             = Read(<<WithChildren(head.node, children.value)>> \o others.value, others.next)
      <4> HIDE DEF DN
      <4>1. QED  BY ONLY <3>1, <3>7, <3>10, <3>12, <3>13, <3>14 DEF NodesAt
    <3>16. others = DN[<<i + Len(e), k - 1>>] /\ WithChildren(head.node, children.value) = n
      BY <3>3, <3>11, <3>14
    <3>17. QED  BY <3>7, <3>9, <3>15, <3>16
  <2>17. Taken(bytes, l, n, e)
    BY <2>15, <2>16 DEF Taken
  <2>18. QED  BY <2>3, <2>11, <2>14, <2>17
<1>2. Finite(root)
  BY TreeParts
<1>3. Subtrees(root) \subseteq P
  <2>1. \A n \in Subtrees(root) : ToSet(Children(n)) \subseteq P => n \in P
    BY <1>1
  <2> HIDE DEF P
  <2>2. QED  BY <1>2, <2>1, TreeInduction
<1>4. root \in Subtrees(root)
  BY <1>2, SubtreeFacts
<1>5. QED  BY <1>3, <1>4

\* A tree whose operators have names of the table and no deprecated threshold
\* is what its encoding decodes to.
LEMMA RoundTripOf ==
  ASSUME NEW root, IsTree(root), \A n \in Subtrees(root) : Plain(n)
  PROVE  Decodes(Encoded(root)) /\ Decoded(Encoded(root)) = root
<1>1. PICK E, bytes : E = EncodedNode(root) /\ bytes = Encoded(root)
  OBVIOUS
<1>2. E \in Seq(Fields)
  <2>1. Len(<<>>) = 0 /\ 0 \in Nat
    OBVIOUS
  <2>2. QED  BY <1>1, <2>1, TreeDecoded
<1>3. PICK f, g : f = <<"u8", 7>> /\ g = <<"u8", 1>>
  OBVIOUS
<1>4. PICK h : h = Header /\ h = <<f, g>>
  BY <1>3 DEF Header
<1>5. f \in Fields /\ g \in Fields
  BY <1>3 DEF Fields
<1>6. h \in Seq(Fields) /\ Len(h) = 2
  BY <1>4, <1>5
<1>7. bytes = h \o E
  BY <1>1, <1>4 DEF Encoded
<1>8. /\ bytes \in Seq(Fields) /\ Len(bytes) = Len(h) + Len(E)
      /\ \A i \in 1 .. Len(h) + Len(E) : bytes[i] = IF i <= Len(h) THEN h[i] ELSE E[i - Len(h)]
  BY ONLY <1>2, <1>6, <1>7, ConcatProperties
<1>9. PICK n \in Nat, l \in Nat : n = Len(E) /\ l = Len(bytes) /\ l = 2 + n
  BY <1>2, <1>6, <1>8, LenProperties
<1>10. Taken(bytes, l, root, E)
  BY <1>1, <1>9, TreeDecoded
<1>11. n >= 1
  BY <1>9, <1>10 DEF Taken
<1>12. At(bytes, 3, E) /\ 3 \in Place1
  <2>1. \A j \in 1 .. n : bytes[3 + j - 1] = E[j]
    <3> SUFFICES ASSUME NEW j \in 1 .. n  PROVE bytes[3 + j - 1] = E[j]
      OBVIOUS
    <3>1. PICK i : i = 3 + j - 1
      OBVIOUS
    <3>2. i \in 1 .. 2 + n /\ ~(i <= 2) /\ i - 2 = j
      BY <3>1
    <3>3. bytes[i] = IF i <= 2 THEN h[i] ELSE E[i - 2]
      BY <1>6, <1>8, <1>9, <3>2
    <3>4. QED  BY <3>1, <3>2, <3>3
  <2>2. QED  BY <1>9, <2>1 DEF At, Place1
<1>13. PICK rest : rest = DecodedNodes(bytes)[<<l + 1, 0>>]
  OBVIOUS
<1>14. rest = Read(<<>>, l + 1)
  <2>5. PICK q : q = <<l + 1, 0>>
    OBVIOUS
  <2>1. q = <<l + 1, 0>> /\ q[1] = l + 1 /\ q[2] = 0
    BY <2>5
  <2>2. q \in Spots(l)
    BY <2>1 DEF Spots
  <2>3. DecodedNodes(bytes)[q] = NodesAt(bytes, l, DecodedNodes(bytes), q)
    BY <1>9, <2>2, DecoderRule
  <2>4. QED  BY <1>13, <2>1, <2>3 DEF NodesAt
<1>15. DecodedNodes(bytes)[<<3, 1>>] = Read(<<root>> \o rest.value, rest.next)
  <2>1. 1 \in 1 .. l /\ 3 + n = l + 1 /\ 1 - 1 = 0
    BY <1>9, <1>11
  <2>2. DecodedNodes(bytes)[<<3, 1>>] =
          Read(<<root>> \o DecodedNodes(bytes)[<<3 + Len(E), 1 - 1>>].value,
               DecodedNodes(bytes)[<<3 + Len(E), 1 - 1>>].next)
    BY <1>10, <1>12, <2>1 DEF Taken
  <2>3. QED  BY <1>9, <1>13, <2>1, <2>2
<1>16. <<root>> \o <<>> = <<root>> /\ <<root>>[1] = root
  <2>1. <<root>> \in Seq({root})
    OBVIOUS
  <2>2. QED  BY <2>1, ConcatEmptySeq
<1>17. DecodedNodes(bytes)[<<3, 1>>] = Read(<<root>>, l + 1)
  BY <1>14, <1>15, <1>16 DEF Read
<1>18. SubSeq(bytes, 1, 2) = Header
  <2>1. 1 \in 1 .. 2 + n /\ 2 \in 1 .. 2 + n /\ 1 <= 2 /\ 2 <= 2
    OBVIOUS
  <2>2. bytes[1] = h[1] /\ bytes[2] = h[2]
    BY <1>6, <1>8, <1>9, <2>1
  <2>3. bytes[1] = f /\ bytes[2] = g
    BY <1>4, <2>2
  <2>4. SubSeq(bytes, 1, 2) = <<bytes[1], bytes[2]>>
    <3>1. PICK s, b1, b2 : s = SubSeq(bytes, 1, 2) /\ b1 = bytes[1] /\ b2 = bytes[2]
      OBVIOUS
    <3>2. \A i \in 1 .. 2 : bytes[i] \in Fields
      BY <1>5, <2>3
    <3>3. /\ s \in Seq(Fields) /\ Len(s) = 2
          /\ \A i \in 1 .. 2 : s[i] = bytes[1 + i - 1]
      <4>1. 1 \in Int /\ 2 \in Int /\ 2 - 1 + 1 = 2 /\ 1 <= 2
        OBVIOUS
      <4>2. /\ s \in Seq(Fields) /\ Len(s) = (IF 1 <= 2 THEN 2 - 1 + 1 ELSE 0)
            /\ \A i \in 1 .. 2 - 1 + 1 : s[i] = bytes[1 + i - 1]
        BY ONLY <3>1, <3>2, <4>1, SubSeqProperties
      <4>3. QED  BY <4>1, <4>2
    <3>4. s[1] = b1 /\ s[2] = b2
      <4>1. 1 \in 1 .. 2 /\ 2 \in 1 .. 2 /\ 1 + 1 - 1 = 1 /\ 1 + 2 - 1 = 2
        OBVIOUS
      <4>2. s[1] = bytes[1 + 1 - 1] /\ s[2] = bytes[1 + 2 - 1]
        BY <3>3, <4>1
      <4>3. QED  BY <3>1, <4>1, <4>2
    <3>5. s = <<b1, b2>>
      BY ONLY <3>3, <3>4
    <3>6. QED  BY <3>1, <3>5
  <2>5. QED  BY <1>4, <2>3, <2>4
<1>19. DecodedNodes(bytes)[<<3, 1>>].next = l + 1 /\ DecodedNodes(bytes)[<<3, 1>>].value = <<root>>
  BY <1>17 DEF Read
<1>20. QED  BY <1>1, <1>9, <1>16, <1>18, <1>19 DEF Decodes, Decoded

-----------------------------------------------------------------------------
(* The policies of the catalogue: a condition, or the negation of one.     *)

LEMMA LeafFacts ==
  ASSUME NEW c, c.kind = "condition"
  PROVE  /\ Finite(c) /\ Subtrees(c) = {c} /\ Canonical(c) = c /\ Children(c) = <<>>
         /\ Occurrences(c) = <<[type |-> c.type, negated |-> FALSE]>>
<1>1. Children(c) = <<>> /\ ToSet(Children(c)) = {} /\ Len(Children(c)) = 0
      /\ DOMAIN Children(c) = 1 .. 0
  BY ShortSets DEF Children
<1>2. Finite(c)
  BY <1>1, FiniteFrom
<1>3. Subtrees(c) = {c}
  <2>1. Subtrees(c) = {c} \cup UNION {Subtrees(d) : d \in ToSet(Children(c))}
    BY <1>2, SubtreeFacts
  <2>2. QED  BY <1>1, <2>1
<1>4. Canonical(c) = c
  <2>1. PICK kids : kids = [i \in DOMAIN Children(c) |-> Canonical(Children(c)[i])]
    OBVIOUS
  <2>2. Canonical(c) = CanonicalNode(c, kids)
    BY <1>2, <2>1, CanonicalRule
  <2>3. QED  BY <2>2 DEF CanonicalNode
<1>5. Occurrences(c) = <<[type |-> c.type, negated |-> FALSE]>>
  <2>1. PICK kids : kids = [i \in DOMAIN Children(c) |-> Occurrences(Children(c)[i])]
    OBVIOUS
  <2>2. Occurrences(c) = NodeOccurrences(c, kids)
    BY <1>2, <2>1, OccurrencesRule
  <2>3. QED  BY <2>2 DEF NodeOccurrences
<1>6. QED  BY <1>1, <1>2, <1>3, <1>4, <1>5

LEMMA NotFacts ==
  ASSUME NEW c, c.kind = "condition", NEW n, n = Operator("NOT", <<c>>)
  PROVE  /\ Finite(n) /\ Subtrees(n) = {n, c} /\ Canonical(n) = n
         /\ n.kind = "operator" /\ n.operator = "NOT" /\ n.children = <<c>>
         /\ Occurrences(n) = <<[type |-> c.type, negated |-> TRUE]>>
<1>1. /\ n.kind = "operator" /\ n.operator = "NOT" /\ n.children = <<c>>
      /\ n.k = <<>> /\ n.threshold = <<>>
      /\ n = [kind |-> "operator", operator |-> "NOT", children |-> <<c>>, k |-> <<>>,
              weights |-> <<>>, threshold |-> <<>>, weight |-> <<>>]
  BY DEF Operator
<1>2. Children(n) = <<c>> /\ ToSet(Children(n)) = {c}
  BY <1>1, ShortSets DEF Children
<1>3. Len(Children(n)) = 1 /\ DOMAIN Children(n) = 1 .. 1 /\ Children(n)[1] = c
  BY <1>2
<1>4. Finite(c) /\ Subtrees(c) = {c} /\ Canonical(c) = c
  BY LeafFacts
<1>5. Finite(n)
  BY <1>2, <1>3, <1>4, FiniteFrom
<1>6. Subtrees(n) = {n, c}
  <2>1. Subtrees(n) = {n} \cup UNION {Subtrees(d) : d \in ToSet(Children(n))}
    BY <1>5, SubtreeFacts
  <2>2. QED  BY <1>2, <1>4, <2>1
<1>7. Canonical(n) = n
  <2>1. PICK kids : kids = [i \in DOMAIN Children(n) |-> Canonical(Children(n)[i])]
    OBVIOUS
  <2>2. Canonical(n) = CanonicalNode(n, kids)
    BY <1>5, <2>1, CanonicalRule
  <2>3. kids = <<c>>
    <3>1. kids = [i \in 1 .. 1 |-> c]
      BY <1>3, <1>4, <2>1
    <3>2. QED  BY <3>1
  <2>4. CanonicalChildren("NOT", <<c>>) = <<c>>
    BY DEF CanonicalChildren, Flattened, Sorted, Unrepeated, Associative, Commutative,
           DuplicateInsensitive
  <2>5. CanonicalNode(n, <<c>>) = [n EXCEPT !.children = <<c>>, !.k = <<>>, !.threshold = <<>>]
    BY <1>1, <2>4 DEF CanonicalNode
  <2>6. [n EXCEPT !.children = <<c>>, !.k = <<>>, !.threshold = <<>>] = n
    BY <1>1
  <2>7. QED  BY <2>2, <2>3, <2>5, <2>6
<1>8. Occurrences(n) = <<[type |-> c.type, negated |-> TRUE]>>
  <2>1. PICK kids : kids = [i \in DOMAIN Children(n) |-> Occurrences(Children(n)[i])]
    OBVIOUS
  <2>2. Occurrences(n) = NodeOccurrences(n, kids)
    BY <1>5, <2>1, OccurrencesRule
  <2>3. PICK o : o = [type |-> c.type, negated |-> TRUE]
    OBVIOUS
  <2>4. PICK ss : ss = [i \in 1 .. 1 |-> <<o>>]
    OBVIOUS
  <2>5. NodeOccurrences(n, kids) = FlattenSeq(ss)
    <3>1. DOMAIN kids = 1 .. 1 /\ n.children[1] = c
      BY <1>1, <1>3, <2>1
    <3>2. \A i \in 1 .. 1 : n.children[i] = c
      BY <3>1
    <3>3. [i \in DOMAIN kids |->
             IF n.operator = "NOT" /\ n.children[i].kind = "condition"
             THEN <<[type |-> n.children[i].type, negated |-> TRUE]>> ELSE kids[i]] = ss
      BY <1>1, <2>3, <2>4, <3>1, <3>2
    <3>4. n.kind # "condition"
      BY <1>1
    <3>5. QED  BY <3>3, <3>4 DEF NodeOccurrences
  <2>6. ss \in Seq(Seq({o})) /\ Len(ss) = 1 /\ ss[1] = <<o>>
    <3>1. <<o>> \in Seq({o})
      OBVIOUS
    <3>2. ss \in [1 .. 1 -> Seq({o})]
      BY <2>4, <3>1
    <3>3. QED  BY <2>4, <3>2, FunctionIsSeq
  <2>7. FlattenSeq(ss) = <<o>>
    BY <2>6, FlattenShort
  <2>8. QED  BY <2>2, <2>3, <2>5, <2>7
<1>9. QED  BY <1>1, <1>5, <1>6, <1>7, <1>8

\* One occurrence is apart from every other.
LEMMA OneApart ==
  ASSUME NEW o
  PROVE  FamiliesApart(<<o>>)
<1> DEFINE of(sign) == {i \in DOMAIN <<o>> : /\ <<o>>[i].negated = sign
                                             /\ <<o>>[i].type \in NegatableFamilies}
<1>1. DOMAIN <<o>> = {1} /\ <<o>>[1] = o
  OBVIOUS
<1>2. of(TRUE) \subseteq {1}
  BY <1>1
<1>3. Cardinality(of(TRUE)) <= 1
  <2>1. PICK s : s = of(TRUE)
    OBVIOUS
  <2>2. s = {} \/ s = {1}
    BY <1>2, <2>1
  <2>3. Cardinality({}) = 0 /\ Cardinality({1}) = 1
    BY FS_EmptySet, FS_Singleton
  <2>4. Cardinality(s) <= 1
    BY ONLY <2>2, <2>3
  <2>5. QED  BY <2>1, <2>4
<1>4. \A i \in of(TRUE), j \in of(FALSE) : <<o>>[i].type # <<o>>[j].type
  BY <1>1
<1>5. QED  BY <1>3, <1>4 DEF FamiliesApart

\* A condition of a graded, usable type passes the gate, and so does the
\* negation of an exact blocklist.
LEMMA LeafPasses ==
  ASSUME NEW c, c.kind = "condition",
         c.type \in (Sound \cup SoundWithConditions \cup HardAllowedForms) \ {"REQKEY"}
  PROVE  GateAccepts(c, FALSE)
<1>1. /\ Subtrees(c) = {c} /\ Occurrences(c) = <<[type |-> c.type, negated |-> FALSE]>>
  BY LeafFacts
<1>2. NegationsExact(c)
  BY <1>1 DEF NegationsExact, IsOperator
<1>3. ConditionsOf(c) = {c}
  BY <1>1 DEF ConditionsOf
<1>4. c.type # "" /\ c.type # "REQKEY" /\ Usable(c.type) /\ c.type \in Graded
  BY DEF Sound, SoundWithConditions, HardAllowedForms, NotSound, Removed, Graded,
         DisabledTypes, Usable
<1>5. VocabularyAccepted(c, FALSE)
  BY <1>3, <1>4 DEF VocabularyAccepted
<1>6. FamiliesApart(Occurrences(c))
  BY <1>1, OneApart
<1>7. QED  BY <1>2, <1>5, <1>6 DEF GateAccepts

LEMMA BlocklistPasses ==
  ASSUME NEW c, c.kind = "condition", IsExactBlocklist(c)
  PROVE  GateAccepts(Operator("NOT", <<c>>), FALSE)
<1>1. PICK n : n = Operator("NOT", <<c>>)
  OBVIOUS
<1>2. /\ Subtrees(n) = {n, c} /\ n.kind = "operator" /\ n.operator = "NOT" /\ n.children = <<c>>
      /\ Occurrences(n) = <<[type |-> c.type, negated |-> TRUE]>>
  BY <1>1, NotFacts
<1>3. Len(n.children) = 1 /\ n.children[1] = c
  BY <1>2
<1>4. NegationsExact(n)
  BY <1>2, <1>3 DEF NegationsExact, IsOperator
<1>5. ConditionsOf(n) = {c}
  BY <1>2 DEF ConditionsOf
<1>6. c.type = "OUTPUT_DEST_IS_IN_SETS"
  BY DEF IsExactBlocklist
<1>7. VocabularyAccepted(n, FALSE)
  BY <1>5, <1>6 DEF VocabularyAccepted, Usable, HardAllowedForms, Graded, NotSound
<1>8. FamiliesApart(Occurrences(n))
  BY <1>2, OneApart
<1>9. QED  BY <1>1, <1>4, <1>7, <1>8 DEF GateAccepts

LEMMA DestinationShape ==
  ASSUME NEW p, NEW selector, IsAddressList(p, "addresses"), IsNetwork(p)
  PROVE  /\ DestinationSet(p, selector).kind = "condition"
         /\ DestinationSet(p, selector).type = "OUTPUT_DEST_IS_IN_SETS"
         /\ selector = "ANY" => IsExactBlocklist(DestinationSet(p, selector))
<1>1. PICK f, g : /\ f = [selector |-> <<"object", selector>>, addresses |-> p.addresses,
                          network |-> p.network]
                  /\ g = Renamed(p, "require_change_to_input_addresses",
                                 "requireChangeToInputAddresses")
  OBVIOUS
<1>2. PICK h : h = Over(f, g)
  OBVIOUS
<1>3. DestinationSet(p, selector) = Condition("OUTPUT_DEST_IS_IN_SETS", h)
  BY <1>1, <1>2 DEF DestinationSet
<1>4. /\ "selector" \in DOMAIN f /\ "addresses" \in DOMAIN f /\ "network" \in DOMAIN f
      /\ f.selector = <<"object", selector>> /\ f.addresses = p.addresses
      /\ f.network = p.network
  BY <1>1
<1>5. \A k \in DOMAIN f : k \in DOMAIN h /\ h[k] = f[k]
  BY <1>2, OverlayHas, OverlayAt
<1>6. /\ "selector" \in DOMAIN h /\ "addresses" \in DOMAIN h /\ "network" \in DOMAIN h
      /\ h.selector = <<"object", selector>> /\ h.addresses = p.addresses
      /\ h.network = p.network
  BY <1>4, <1>5
<1>7. h.addresses[1] = "array" /\ h.addresses[2] # "[]" /\ h.network[1] = "string"
      /\ h.selector[2] = selector
  BY <1>6, TemplatesAssumption DEF IsAddressList, IsNetwork, Has
<1>8. PICK d : d = DestinationSet(p, selector)
  OBVIOUS
<1>9. d.kind = "condition" /\ d.type = "OUTPUT_DEST_IS_IN_SETS" /\ d.params = h
  BY <1>3, <1>8 DEF Condition
<1>10. selector = "ANY" => IsExactBlocklist(d)
  BY <1>6, <1>7, <1>9 DEF IsExactBlocklist
<1>11. QED  BY <1>8, <1>9, <1>10

\* The gate refuses nothing the catalogue builds.
LEMMA HardPasses ==
  ASSUME NEW template \in HardTemplates, NEW p, HardAccepts(template, p)
  PROVE  GateAccepts(Canonical(HardAst(template, p)), FALSE)
<1>1. PICK ast : ast = HardAst(template, p)
  OBVIOUS
<1>2. CASE template = "destination-allowlist"
  <2>1. ast = DestinationSet(p, "ALL")
    BY <1>1, <1>2 DEF HardAst
  <2>2. IsAddressList(p, "addresses") /\ IsNetwork(p)
    BY <1>2 DEF HardAccepts, DestinationAccepts
  <2>3. ast.kind = "condition" /\ ast.type = "OUTPUT_DEST_IS_IN_SETS"
    BY <2>1, <2>2, DestinationShape
  <2>4. ast.type \in HardAllowedForms /\ ast.type # "REQKEY"
    BY <2>3 DEF HardAllowedForms
  <2>5. QED  BY <1>1, <2>3, <2>4, LeafFacts, LeafPasses
<1>3. CASE template = "destination-blocklist"
  <2>1. PICK d : d = DestinationSet(p, "ANY")
    OBVIOUS
  <2>2. ast = Operator("NOT", <<d>>)
    BY <1>1, <1>3, <2>1 DEF HardAst
  <2>3. IsAddressList(p, "addresses") /\ IsNetwork(p)
    BY <1>3 DEF HardAccepts, DestinationAccepts
  <2>4. d.kind = "condition" /\ IsExactBlocklist(d)
    BY <2>1, <2>3, DestinationShape
  <2>5. GateAccepts(ast, FALSE)
    BY ONLY <2>2, <2>4, BlocklistPasses
  <2>6. Canonical(ast) = ast
    BY <2>2, <2>4, NotFacts
  <2>7. QED  BY <1>1, <2>5, <2>6
<1>4. CASE template \in {"fee-ceiling", "time-window", "usage-velocity", "consolidation-only"}
  <2>1. /\ ast.kind = "condition"
        /\ ast.type \in {"TX_FEE_ABSOLUTE", "TIME_BASED_CONSTRAINT", "COUNT_BASED_CONSTRAINT",
                         "DERIVED_NO_NEW_OUTPUTS"}
    BY <1>1, <1>4 DEF HardAst, AfterCondition, WindowCondition, NoNewOutputs, Condition
  <2>2. ast.type \in SoundWithConditions /\ ast.type # "REQKEY"
    BY <2>1 DEF SoundWithConditions
  <2>3. QED  BY <1>1, <2>1, <2>2, LeafFacts, LeafPasses
<1>5. QED  BY <1>2, <1>3, <1>4 DEF HardTemplates

-----------------------------------------------------------------------------
(* Selection records.                                                      *)

LEMMA SelectionPasses ==
  ASSUME NEW template \in Templates, NEW p, TemplateAccepts(template, p)
  PROVE  SelectionAccepts(Selection(template, p))
<1>1. PICK r : r = Selection(template, p)
  OBVIOUS
<1>2. /\ r.catalogueVersion = CatalogueVersion /\ r.templateId = template
      /\ r.templateVersion = TemplateVersion /\ r.enforcementClass = ClassOf(template)
      /\ r.params = p
  BY <1>1 DEF Selection
<1>3. Selection(r.templateId, r.params) = r
  BY <1>1, <1>2
<1>4. template \in HardTemplates => GateAccepts(Canonical(HardAst(template, p)), FALSE)
  BY HardPasses DEF TemplateAccepts
<1>5. OutputBound(r)
  BY <1>2, <1>3, <1>4 DEF OutputBound
<1>6. QED  BY <1>1, <1>2, <1>5 DEF SelectionAccepts

LEMMA AcceptedAgrees ==
  ASSUME NEW r, SelectionAccepts(r)
  PROVE  LET fresh == Selection(r.templateId, r.params)
         IN /\ r.catalogueVersion = fresh.catalogueVersion
            /\ r.templateVersion = fresh.templateVersion
            /\ r.enforcementClass = fresh.enforcementClass
            /\ fresh.astDigest # <<>> => r.astDigest = fresh.astDigest
            /\ fresh.workflowFact # <<>> => r.workflowFact = fresh.workflowFact
<1>1. PICK template, p : template = r.templateId /\ p = r.params
  OBVIOUS
<1>2. PICK fresh : fresh = Selection(template, p)
  OBVIOUS
<1>3. /\ fresh.catalogueVersion = CatalogueVersion /\ fresh.templateVersion = TemplateVersion
      /\ fresh.enforcementClass = ClassOf(template)
      /\ template \notin HardTemplates => fresh.astDigest = <<>>
      /\ template \notin GovernanceTemplates => fresh.workflowFact = <<>>
  BY <1>2 DEF Selection
<1>4. /\ r.catalogueVersion = CatalogueVersion /\ r.templateVersion = TemplateVersion
      /\ r.enforcementClass = ClassOf(template) /\ OutputBound(r)
  BY <1>1 DEF SelectionAccepts
<1>5. template \in HardTemplates => template \notin GovernanceTemplates
  BY DEF HardTemplates, GovernanceTemplates
<1>6. /\ template \in HardTemplates => r.astDigest = fresh.astDigest
      /\ template \notin HardTemplates => r.workflowFact = fresh.workflowFact
  BY <1>1, <1>2, <1>4 DEF OutputBound
<1>7. /\ r.catalogueVersion = fresh.catalogueVersion
      /\ r.templateVersion = fresh.templateVersion
      /\ r.enforcementClass = fresh.enforcementClass
      /\ fresh.astDigest # <<>> => r.astDigest = fresh.astDigest
      /\ fresh.workflowFact # <<>> => r.workflowFact = fresh.workflowFact
  BY <1>3, <1>4, <1>5, <1>6
<1>8. QED  BY <1>1, <1>2, <1>7

\* What is known of the record: one nobody touched is a selection of parameters
\* that were accepted, and the verdict is about the record as it is.
RecordInv ==
  /\ record = <<>> => verdict = "none" /\ ~tampered
  /\ record # <<>> => record = <<record[1]>>
  /\ record # <<>> /\ ~tampered => SelectionAccepts(record[1])
  /\ verdict = "accepted" => SelectionAccepts(record[1])
  /\ verdict = "refused" => ~SelectionAccepts(record[1])
  /\ verdict \in {"none", "accepted", "refused"} /\ tampered \in BOOLEAN

LEMMA RecordInvInductive ==
  Spec => []RecordInv
<1>1. Init => RecordInv
  BY DEF Init, RecordInv
<1>2. ASSUME RecordInv, [Next]_vars  PROVE RecordInv'
  <2>1. CASE UNCHANGED recordVars
    BY <1>2, <2>1 DEF RecordInv, recordVars
  <2>2. ASSUME NEW input \in Selections, Select(input[1], input[2])  PROVE RecordInv'
    <3>1. PICK r : r = Selection(input[1], input[2])
      OBVIOUS
    <3>2. SelectionAccepts(r)
      BY <2>2, <3>1, LaneAssumption, SelectionPasses DEF Select
    <3>3. /\ record = <<>> /\ record' = <<r>> /\ tampered' = tampered /\ verdict' = verdict
      BY <2>2, <3>1 DEF Select, Nothing
    <3>4. record'[1] = r
      BY <3>3
    <3>5. QED  BY <1>2, <3>2, <3>3, <3>4 DEF RecordInv
  <2>3. ASSUME NEW t \in Tamperings, Tamper(t[1], t[2])  PROVE RecordInv'
    <3>1. PICK r : r = [record[1] EXCEPT ![t[1]] = t[2]]
      OBVIOUS
    <3>2. record' = <<r>> /\ tampered' = TRUE /\ verdict' = "none"
      BY <2>3, <3>1 DEF Tamper
    <3>3. record'[1] = r /\ record' # <<>>
      BY <3>2
    <3>4. QED  BY <3>2, <3>3 DEF RecordInv
  <2>4. CASE ValidateSelection
    BY <1>2, <2>4 DEF ValidateSelection, RecordInv
  <2>5. CASE \/ \E cfg \in Configs : FromConfig(cfg)
             \/ \E root \in Documents : FromDocument(root)
             \/ \E input \in KeyTemplateInputs : FromKeyTemplate(input[1], input[2])
    <3>1. UNCHANGED recordVars
      BY <2>5 DEF FromConfig, FromDocument, FromKeyTemplate, Hold
    <3>2. QED  BY <2>1, <3>1
  <2>6. CASE Canonicalize \/ Compose \/ Store \/ Load \/ CreateKey
    <3>1. UNCHANGED recordVars
      BY <2>6 DEF Canonicalize, Compose, Store, Load, CreateKey
    <3>2. QED  BY <2>1, <3>1
  <2>7. CASE UNCHANGED vars
    BY <2>1, <2>7 DEF vars
  <2>8. QED  BY <1>2, <2>2, <2>3, <2>4, <2>5, <2>6, <2>7 DEF Next
<1>3. QED  BY <1>1, <1>2, PTL DEF Spec

LEMMA RecordIsJudged ==
  ASSUME RecordInv
  PROVE  SelectionJudged
<1>1. UntouchedIsAccepted
  BY DEF RecordInv, UntouchedIsAccepted
<1>2. AcceptedIsCurrent
  BY AcceptedAgrees DEF RecordInv, AcceptedIsCurrent
<1>3. QED  BY <1>1, <1>2 DEF SelectionJudged

\* A stored selection is accepted exactly while it says what a new one would.
THEOREM SelectionIsJudged == Spec => []SelectionJudged
BY RecordInvInductive, RecordIsJudged, PTL

-----------------------------------------------------------------------------
(* The same of configurations.                                             *)

ConfigLevel(root) == Level(root, ConfigChildren)
UnderConfigs(S) == UNION {ToSet(ConfigChildren(n)) : n \in S}
\* A tree ends somewhere.
FiniteConfig(root) == \E h \in Nat : ConfigLevel(root)[h] = {}

LEMMA ConfigLevelRule ==
  ASSUME NEW root
  PROVE  /\ ConfigLevel(root)[0] = {root}
         /\ \A d \in Nat : ConfigLevel(root)[d + 1] = UnderConfigs(ConfigLevel(root)[d])
<1> DEFINE IsLevel(f) == f = [d \in Nat |-> IF d = 0 THEN {root} ELSE UnderConfigs(f[d - 1])]
           Part(f, h) == f = [d \in 0 .. h |-> IF d = 0 THEN {root} ELSE UnderConfigs(f[d - 1])]
           N == {h \in Nat : \E f : Part(f, h)}
           F(h) == CHOOSE f : Part(f, h)
           G == [d \in Nat |-> F(d)[d]]
<1>1. 0 \in N
  <2>1. Part([d \in 0 .. 0 |-> {root}], 0)
    OBVIOUS
  <2>2. QED  BY <2>1
<1>2. ASSUME NEW h \in Nat, h \in N  PROVE h + 1 \in N
  <2>1. PICK f : Part(f, h)
    BY <1>2
  <2>2. PICK g : g = [d \in 0 .. h + 1 |-> IF d = 0 THEN {root} ELSE UnderConfigs(f[d - 1])]
    OBVIOUS
  <2>3. ASSUME NEW d \in 0 .. h  PROVE g[d] = f[d]
    <3>1. d \in 0 .. h + 1
      OBVIOUS
    <3>2. f[d] = IF d = 0 THEN {root} ELSE UnderConfigs(f[d - 1])
      BY <2>1
    <3>3. g[d] = IF d = 0 THEN {root} ELSE UnderConfigs(f[d - 1])
      BY <2>2, <3>1
    <3>4. QED  BY <3>2, <3>3
  <2>4. \A d \in 0 .. h + 1 : d # 0 => g[d - 1] = f[d - 1]
    BY <2>3
  <2>5. Part(g, h + 1)
    BY <2>2, <2>4
  <2>6. QED  BY <2>5
<1>3. ASSUME NEW h \in Nat  PROVE Part(F(h), h)
  <2> HIDE DEF N
  <2>1. h \in N
    BY <1>1, <1>2, CountUp
  <2> USE DEF N
  <2>2. PICK f : Part(f, h)
    BY <2>1
  <2> HIDE DEF Part
  <2>3. QED  BY <2>2
<1>4. ASSUME NEW h \in Nat  PROVE \A d \in 0 .. h : F(h)[d] = F(h + 1)[d]
  <2> DEFINE f == F(h)
             g == F(h + 1)
             S == {d \in Nat : d <= h => f[d] = g[d]}
  <2>1. Part(f, h) /\ Part(g, h + 1)
    <3> HIDE DEF Part, F
    <3>1. h + 1 \in Nat
      OBVIOUS
    <3>2. QED  BY <1>3, <3>1
  <2> HIDE DEF F, f, g
  <2>2. 0 \in S
    BY <2>1
  <2>3. ASSUME NEW d \in Nat, d \in S, d + 1 <= h  PROVE f[d + 1] = g[d + 1]
    <3>1. d + 1 \in 0 .. h /\ d + 1 \in 0 .. h + 1 /\ d + 1 # 0 /\ (d + 1) - 1 = d
      BY <2>3
    <3>2. f[d + 1] = UnderConfigs(f[d]) /\ g[d + 1] = UnderConfigs(g[d])
      BY <2>1, <3>1
    <3>3. f[d] = g[d]
      BY <2>3
    <3>4. QED  BY <3>2, <3>3
  <2>4. \A d \in Nat : d \in S
    <3>1. \A d \in Nat : d \in S => d + 1 \in S
      BY <2>3
    <3> HIDE DEF S
    <3>2. QED  BY <2>2, <3>1, CountUp
  <2>5. QED  BY <2>4 DEF f, g
<1>5. \A d \in Nat : G[d] = IF d = 0 THEN {root} ELSE UnderConfigs(G[d - 1])
  <2> SUFFICES ASSUME NEW d \in Nat
               PROVE  G[d] = IF d = 0 THEN {root} ELSE UnderConfigs(G[d - 1])
    OBVIOUS
  <2>1. G[d] = F(d)[d]
    BY DEF G
  <2>2. F(d)[d] = IF d = 0 THEN {root} ELSE UnderConfigs(F(d)[d - 1])
    <3>1. Part(F(d), d)
      BY <1>3
    <3>2. PICK f : f = F(d)
      OBVIOUS
    <3>3. f = [e \in 0 .. d |-> IF e = 0 THEN {root} ELSE UnderConfigs(f[e - 1])]
      BY ONLY <3>1, <3>2
    <3>4. d \in 0 .. d
      OBVIOUS
    <3>5. f[d] = IF d = 0 THEN {root} ELSE UnderConfigs(f[d - 1])
      BY ONLY <3>3, <3>4
    <3>6. QED  BY ONLY <3>2, <3>5
  <2>3. CASE d # 0
    <3>1. d - 1 \in Nat /\ d - 1 \in 0 .. d - 1 /\ (d - 1) + 1 = d
      BY <2>3
    <3> HIDE DEF F
    <3>2. F(d - 1)[d - 1] = F((d - 1) + 1)[d - 1]
      BY <1>4, <3>1
    <3>3. G[d - 1] = F(d)[d - 1]
      BY <3>1, <3>2
    <3>4. QED  BY <2>1, <2>2, <2>3, <3>3
  <2>4. QED  BY <2>1, <2>2, <2>3
<1>6. IsLevel(G)
  <2> PICK g : g = G
    OBVIOUS
  <2>1. g = [d \in Nat |-> g[d]]
    OBVIOUS
  <2> HIDE DEF G
  <2>2. \A d \in Nat : g[d] = IF d = 0 THEN {root} ELSE UnderConfigs(g[d - 1])
    BY <1>5
  <2>3. g = [d \in Nat |-> IF d = 0 THEN {root} ELSE UnderConfigs(g[d - 1])]
    BY ONLY <2>1, <2>2
  <2>4. QED  BY <2>3
<1>7. ConfigLevel(root) = CHOOSE f : IsLevel(f)
  BY DEF ConfigLevel, Level, UnderConfigs
<1>8. IsLevel(ConfigLevel(root))
  <2> HIDE DEF IsLevel, G
  <2>1. QED  BY <1>6, <1>7
<1>9. QED  BY <1>8

\* What is below a node is below whatever the node is below.
LEMMA ConfigDeeper ==
  ASSUME NEW root, NEW d \in Nat, NEW n \in ConfigLevel(root)[d], NEW e \in Nat
  PROVE  ConfigLevel(n)[e] \subseteq ConfigLevel(root)[d + e]
<1> DEFINE S == {k \in Nat : ConfigLevel(n)[k] \subseteq ConfigLevel(root)[d + k]}
<1>1. 0 \in S
  BY ConfigLevelRule
<1>2. ASSUME NEW k \in Nat, k \in S  PROVE k + 1 \in S
  <2>1. ConfigLevel(n)[k + 1] = UnderConfigs(ConfigLevel(n)[k])
    BY ConfigLevelRule
  <2>2. ConfigLevel(root)[(d + k) + 1] = UnderConfigs(ConfigLevel(root)[d + k])
    <3>1. d + k \in Nat
      OBVIOUS
    <3>2. QED  BY <3>1, ConfigLevelRule
  <2>3. (d + k) + 1 = d + (k + 1)
    OBVIOUS
  <2>4. UnderConfigs(ConfigLevel(n)[k]) \subseteq UnderConfigs(ConfigLevel(root)[d + k])
    BY <1>2 DEF UnderConfigs
  <2>5. QED  BY <2>1, <2>2, <2>3, <2>4
<1> HIDE DEF S
<1>3. e \in S
  BY <1>1, <1>2, CountUp
<1>4. QED  BY <1>3 DEF S

\* A level of a root is made of the levels of its children.
LEMMA ConfigLevelShift ==
  ASSUME NEW root, NEW d \in Nat
  PROVE  ConfigLevel(root)[d + 1] = UNION {ConfigLevel(c)[d] : c \in ToSet(ConfigChildren(root))}
<1> DEFINE kids == ToSet(ConfigChildren(root))
           S == {k \in Nat : ConfigLevel(root)[k + 1] = UNION {ConfigLevel(c)[k] : c \in kids}}
<1>1. 0 \in S
  <2>1. ConfigLevel(root)[0] = {root} /\ ConfigLevel(root)[0 + 1] = UnderConfigs(ConfigLevel(root)[0])
    BY ConfigLevelRule
  <2>2. UnderConfigs({root}) = kids
    BY DEF UnderConfigs
  <2>3. \A c \in kids : ConfigLevel(c)[0] = {c}
    BY ConfigLevelRule
  <2> HIDE DEF kids
  <2>4. kids = UNION {ConfigLevel(c)[0] : c \in kids}
    BY <2>3
  <2>5. QED  BY <2>1, <2>2, <2>4
<1>2. ASSUME NEW k \in Nat, k \in S  PROVE k + 1 \in S
  <2>1. ConfigLevel(root)[(k + 1) + 1] = UnderConfigs(ConfigLevel(root)[k + 1])
    <3>1. k + 1 \in Nat
      OBVIOUS
    <3>2. QED  BY <3>1, ConfigLevelRule
  <2>2. \A c \in kids : ConfigLevel(c)[k + 1] = UnderConfigs(ConfigLevel(c)[k])
    BY ConfigLevelRule
  <2> HIDE DEF kids
  <2>3. UnderConfigs(UNION {ConfigLevel(c)[k] : c \in kids}) = UNION {UnderConfigs(ConfigLevel(c)[k]) : c \in kids}
    BY DEF UnderConfigs
  <2>4. UNION {ConfigLevel(c)[k + 1] : c \in kids} = UNION {UnderConfigs(ConfigLevel(c)[k]) : c \in kids}
    BY <2>2
  <2>5. QED  BY <1>2, <2>1, <2>3, <2>4
<1> HIDE DEF S
<1>3. d \in S
  BY <1>1, <1>2, CountUp
<1>4. QED  BY <1>3 DEF S

\* Below an empty level there is nothing.
LEMMA ConfigsEnd ==
  ASSUME NEW root, NEW d \in Nat, ConfigLevel(root)[d] = {}, NEW e \in Nat, d <= e
  PROVE  ConfigLevel(root)[e] = {}
<1> DEFINE S == {k \in Nat : ConfigLevel(root)[d + k] = {}}
<1>1. 0 \in S
  OBVIOUS
<1>2. ASSUME NEW k \in Nat, k \in S  PROVE k + 1 \in S
  <2>1. d + k \in Nat /\ (d + k) + 1 = d + (k + 1)
    OBVIOUS
  <2>2. ConfigLevel(root)[(d + k) + 1] = UnderConfigs(ConfigLevel(root)[d + k])
    BY <2>1, ConfigLevelRule
  <2>3. UnderConfigs({}) = {}
    BY DEF UnderConfigs
  <2>4. QED  BY <1>2, <2>1, <2>2, <2>3
<1> HIDE DEF S
<1>3. e - d \in S
  <2>1. e - d \in Nat
    OBVIOUS
  <2>2. QED  BY <1>1, <1>2, <2>1, CountUp
<1>4. QED  BY <1>3 DEF S

\* The nodes a walk reaches are those of all levels.
LEMMA SubconfigsAre ==
  ASSUME NEW root, FiniteConfig(root)
  PROVE  Subconfigs(root) = UNION {ConfigLevel(root)[d] : d \in Nat}
<1> DEFINE L == ConfigLevel(root)
           IsFrom(f) == f = [d \in Nat |-> IF L[d] = {} THEN {} ELSE L[d] \cup f[d + 1]]
           All(d) == UNION {L[e] : e \in {e \in Nat : d <= e}}
           g == [d \in Nat |-> All(d)]
           from == CHOOSE f : IsFrom(f)
<1>1. PICK h \in Nat : L[h] = {}
  BY DEF FiniteConfig
<1>2. Subconfigs(root) = from[0]
  BY DEF Subconfigs, Reached, ConfigLevel
<1>3. \A d \in Nat : L[d] = {} => \A e \in Nat : d <= e => L[e] = {}
  BY ConfigsEnd
<1> HIDE DEF L
<1>4. ASSUME NEW d \in Nat
      PROVE  All(d) = IF L[d] = {} THEN {} ELSE L[d] \cup All(d + 1)
  <2>1. CASE L[d] = {}
    BY <1>3, <2>1
  <2>2. \A e \in Nat : d <= e <=> e = d \/ d + 1 <= e
    OBVIOUS
  <2>3. All(d) = L[d] \cup All(d + 1)
    BY <2>2
  <2>4. QED  BY <2>1, <2>3
<1>5. IsFrom(g)
  <2>1. \A d \in Nat : g[d] = All(d) /\ g[d + 1] = All(d + 1)
    OBVIOUS
  <2> HIDE DEF All
  <2>2. \A d \in Nat : All(d) = IF L[d] = {} THEN {} ELSE L[d] \cup g[d + 1]
    BY <1>4, <2>1
  <2>3. QED  BY <2>2
<1>6. IsFrom(from)
  <2> HIDE DEF IsFrom, g
  <2>1. QED  BY <1>5
<1> DEFINE S == {k \in Nat : k <= h => from[h - k] = All(h - k)}
<1> HIDE DEF from
<1>7. 0 \in S
  <2>1. from[h] = {} /\ All(h) = {}
    BY <1>1, <1>3, <1>6
  <2>2. h - 0 = h
    OBVIOUS
  <2> HIDE DEF All
  <2>3. QED  BY <2>1, <2>2
<1>8. ASSUME NEW k \in Nat, k \in S, k + 1 <= h
      PROVE  from[h - (k + 1)] = All(h - (k + 1))
  <2>1. PICK d \in Nat : d = h - (k + 1)
    BY <1>8
  <2>2. d + 1 = h - k /\ k <= h
    BY <2>1, <1>8
  <2> HIDE DEF All
  <2>3. from[d + 1] = All(d + 1)
    BY <1>8, <2>2
  <2>4. from[d] = IF L[d] = {} THEN {} ELSE L[d] \cup from[d + 1]
    BY <1>6
  <2>5. from[d] = All(d)
    BY <1>4, <2>3, <2>4
  <2>6. QED  BY <2>1, <2>5
<1>9. h \in S
  <2>1. \A k \in Nat : k \in S => k + 1 \in S
    BY <1>8
  <2> HIDE DEF S
  <2>2. QED  BY <1>7, <2>1, CountUp
<1>10. from[0] = All(0)
  <2>1. h <= h /\ h - h = 0
    OBVIOUS
  <2> HIDE DEF All
  <2>2. QED  BY <1>9, <2>1
<1>11. All(0) = UNION {L[e] : e \in Nat}
  <2>1. {e \in Nat : 0 <= e} = Nat
    OBVIOUS
  <2>2. QED  BY <2>1
<1>12. QED  BY <1>2, <1>10, <1>11 DEF L

\* A tree is its root and the trees of its children, and every node of it is
\* the root of a tree of its own.
LEMMA SubconfigFacts ==
  ASSUME NEW root, FiniteConfig(root)
  PROVE  /\ root \in Subconfigs(root)
         /\ Subconfigs(root) = {root} \cup UNION {Subconfigs(c) : c \in ToSet(ConfigChildren(root))}
         /\ \A c \in ToSet(ConfigChildren(root)) : FiniteConfig(c)
         /\ \A n \in Subconfigs(root) : /\ FiniteConfig(n)
                                      /\ Subconfigs(n) \subseteq Subconfigs(root)
                                      /\ ToSet(ConfigChildren(n)) \subseteq Subconfigs(root)
<1> DEFINE kids == ToSet(ConfigChildren(root))
           All(n) == UNION {ConfigLevel(n)[d] : d \in Nat}
<1>1. ConfigLevel(root)[0] = {root}
  BY ConfigLevelRule
<1>2. PICK h \in Nat : ConfigLevel(root)[h] = {}
  BY DEF FiniteConfig
<1>3. Subconfigs(root) = All(root)
  BY SubconfigsAre
<1>4. ASSUME NEW n \in Subconfigs(root)
      PROVE  /\ FiniteConfig(n)
             /\ Subconfigs(n) \subseteq Subconfigs(root)
             /\ ToSet(ConfigChildren(n)) \subseteq Subconfigs(root)
  <2>1. PICK d \in Nat : n \in ConfigLevel(root)[d]
    BY <1>3
  <2>2. \A e \in Nat : ConfigLevel(n)[e] \subseteq ConfigLevel(root)[d + e]
    BY <2>1, ConfigDeeper
  <2>3. ConfigLevel(root)[d + h] = {}
    <3>1. d + h \in Nat /\ h <= d + h
      OBVIOUS
    <3>2. QED  BY <1>2, <3>1, ConfigsEnd
  <2>4. FiniteConfig(n)
    BY <2>2, <2>3 DEF FiniteConfig
  <2>5. Subconfigs(n) \subseteq Subconfigs(root)
    <3>1. Subconfigs(n) = All(n)
      BY <2>4, SubconfigsAre
    <3>2. \A e \in Nat : d + e \in Nat
      OBVIOUS
    <3>3. QED  BY <1>3, <2>2, <3>1, <3>2
  <2>6. ToSet(ConfigChildren(n)) \subseteq Subconfigs(root)
    <3>1. ConfigLevel(root)[d + 1] = UnderConfigs(ConfigLevel(root)[d])
      BY ConfigLevelRule
    <3>2. ToSet(ConfigChildren(n)) \subseteq UnderConfigs(ConfigLevel(root)[d])
      BY <2>1 DEF UnderConfigs
    <3>3. d + 1 \in Nat
      OBVIOUS
    <3>4. QED  BY <1>3, <3>1, <3>2, <3>3
  <2>7. QED  BY <2>4, <2>5, <2>6
<1>5. root \in Subconfigs(root)
  BY <1>1, <1>3
<1>6. kids \subseteq Subconfigs(root)
  BY <1>4, <1>5
<1>7. \A c \in kids : FiniteConfig(c)
  BY <1>4, <1>6
<1>8. \A c \in kids : Subconfigs(c) = All(c)
  BY <1>7, SubconfigsAre
<1>9. \A d \in Nat : ConfigLevel(root)[d + 1] = UNION {ConfigLevel(c)[d] : c \in kids}
  BY ConfigLevelShift
<1>10. ASSUME NEW n \in Subconfigs(root)
       PROVE  n \in {root} \cup UNION {Subconfigs(c) : c \in kids}
  <2>1. PICK d \in Nat : n \in ConfigLevel(root)[d]
    BY <1>3
  <2>2. CASE d = 0
    BY <1>1, <2>1, <2>2
  <2>3. CASE d # 0
    <3>1. d - 1 \in Nat /\ (d - 1) + 1 = d
      BY <2>3
    <3> HIDE DEF kids
    <3>2. PICK c \in kids : n \in ConfigLevel(c)[d - 1]
      BY <1>9, <2>1, <3>1
    <3>3. n \in Subconfigs(c)
      BY <1>8, <3>1, <3>2
    <3>4. QED  BY <3>3
  <2>4. QED  BY <2>2, <2>3
<1>11. \A c \in kids : Subconfigs(c) \subseteq Subconfigs(root)
  BY <1>4, <1>6
<1> HIDE DEF kids, All
<1>12. Subconfigs(root) = {root} \cup UNION {Subconfigs(c) : c \in kids}
  BY <1>5, <1>10, <1>11
<1>13. QED  BY <1>4, <1>5, <1>7, <1>12 DEF kids

\* What holds of a node whenever it holds of its children holds of the tree.
LEMMA ConfigInduction ==
  ASSUME NEW root, FiniteConfig(root), NEW P,
         \A n \in Subconfigs(root) : ToSet(ConfigChildren(n)) \subseteq P => n \in P
  PROVE  Subconfigs(root) \subseteq P
<1> DEFINE S == {h \in Nat : \A n \in Subconfigs(root) : ConfigLevel(n)[h] = {} => n \in P}
<1>1. 0 \in S
  <2>1. \A n : ConfigLevel(n)[0] = {n}
    BY ConfigLevelRule
  <2>2. QED  BY <2>1
<1>2. ASSUME NEW h \in Nat, h \in S  PROVE h + 1 \in S
  <2> SUFFICES ASSUME NEW n \in Subconfigs(root), ConfigLevel(n)[h + 1] = {}  PROVE n \in P
    OBVIOUS
  <2>1. ConfigLevel(n)[h + 1] = UNION {ConfigLevel(c)[h] : c \in ToSet(ConfigChildren(n))}
    BY ConfigLevelShift
  <2>2. ToSet(ConfigChildren(n)) \subseteq Subconfigs(root)
    BY SubconfigFacts
  <2>3. \A c \in ToSet(ConfigChildren(n)) : ConfigLevel(c)[h] = {}
    BY <2>1
  <2>4. ToSet(ConfigChildren(n)) \subseteq P
    BY <1>2, <2>2, <2>3
  <2>5. QED  BY <2>4
<1>3. \A h \in Nat : h \in S
  <2> HIDE DEF S
  <2>1. QED  BY <1>1, <1>2, CountUp
<1>4. \A n \in Subconfigs(root) : FiniteConfig(n)
  BY SubconfigFacts
<1>5. QED  BY <1>3, <1>4 DEF FiniteConfig

\* A node whose children are roots of trees is the root of one.

LEMMA ConfigsRuled ==
  ASSUME NEW n, FiniteConfig(n), NEW R,
         \A c \in ToSet(ConfigChildren(n)) : Subconfigs(c) \subseteq R
  PROVE  \A m \in Subconfigs(n) : \A i \in DOMAIN ConfigChildren(m) :
           ConfigChildren(m)[i] \in Subconfigs(n) /\ ConfigChildren(m)[i] \in R
<1> SUFFICES ASSUME NEW m \in Subconfigs(n), NEW i \in DOMAIN ConfigChildren(m)
             PROVE  ConfigChildren(m)[i] \in Subconfigs(n) /\ ConfigChildren(m)[i] \in R
  OBVIOUS
<1>1. ConfigChildren(m)[i] \in ToSet(ConfigChildren(m))
  BY DEF ToSet
<1>2. ConfigChildren(m)[i] \in Subconfigs(n)
  BY <1>1, SubconfigFacts
<1>3. \A c \in ToSet(ConfigChildren(n)) : FiniteConfig(c)
  BY SubconfigFacts
<1>4. m = n \/ \E c \in ToSet(ConfigChildren(n)) : m \in Subconfigs(c)
  BY SubconfigFacts
<1>5. CASE m = n
  <2>1. ConfigChildren(m)[i] \in Subconfigs(ConfigChildren(m)[i])
    BY <1>1, <1>3, <1>5, SubconfigFacts
  <2>2. QED  BY <1>1, <1>2, <1>5, <2>1
<1>6. CASE \E c \in ToSet(ConfigChildren(n)) : m \in Subconfigs(c)
  <2>1. PICK c \in ToSet(ConfigChildren(n)) : m \in Subconfigs(c)
    BY <1>6
  <2>2. ConfigChildren(m)[i] \in Subconfigs(c)
    BY <1>1, <1>3, <2>1, SubconfigFacts
  <2>3. QED  BY <1>2, <2>1, <2>2
<1>7. QED  BY <1>4, <1>5, <1>6

LEMMA PoetRule ==
  ASSUME NEW root, FiniteConfig(root)
  PROVE  PoetNode(root) =
           TranslatedNode(root, [i \in DOMAIN ConfigChildren(root) |-> PoetNode(ConfigChildren(root)[i])])
<1> DEFINE Kids(f, n) == [i \in DOMAIN ConfigChildren(n) |-> f[ConfigChildren(n)[i]]]
           Eq(f, r) == f = [n \in Subconfigs(r) |-> TranslatedNode(n, Kids(f, n))]
           Of(r) == CHOOSE f : Eq(f, r)
           Here(n) == TranslatedNode(n, [i \in DOMAIN ConfigChildren(n) |-> PoetNode(ConfigChildren(n)[i])])
           R == {m \in Subconfigs(root) : PoetNode(m) = Here(m)}
           P == {n \in Subconfigs(root) : Subconfigs(n) \subseteq R}
<1>1. \A r : PoetNode(r) = Of(r)[r]
  BY DEF PoetNode, Walk, Subconfigs
<1>2. ASSUME NEW n \in Subconfigs(root), ToSet(ConfigChildren(n)) \subseteq P  PROVE n \in P
  <2> DEFINE g == [m \in Subconfigs(n) |-> Here(m)]
             f == Of(n)
             Q == {m \in Subconfigs(n) : f[m] = Here(m)}
  <2>1. /\ FiniteConfig(n) /\ n \in Subconfigs(n) /\ Subconfigs(n) \subseteq Subconfigs(root)
        /\ Subconfigs(n) = {n} \cup UNION {Subconfigs(c) : c \in ToSet(ConfigChildren(n))}
    BY <1>2, SubconfigFacts
  <2>2. \A m \in Subconfigs(n) : \A i \in DOMAIN ConfigChildren(m) :
          ConfigChildren(m)[i] \in Subconfigs(n) /\ ConfigChildren(m)[i] \in R
    <3>1. \A c \in ToSet(ConfigChildren(n)) : Subconfigs(c) \subseteq R
      BY <1>2
    <3> HIDE DEF R
    <3>2. QED  BY <2>1, <3>1, ConfigsRuled
  <2>3. \A d \in R : PoetNode(d) = Here(d)
    OBVIOUS
  <2> HIDE DEF Here, R
  <2>4. \A m \in Subconfigs(n) : Here(m) = TranslatedNode(m, Kids(g, m))
    <3> SUFFICES ASSUME NEW m \in Subconfigs(n)  PROVE Here(m) = TranslatedNode(m, Kids(g, m))
      OBVIOUS
    <3>1. \A i \in DOMAIN ConfigChildren(m) : g[ConfigChildren(m)[i]] = PoetNode(ConfigChildren(m)[i])
      BY <2>2, <2>3
    <3> HIDE DEF g
    <3>2. Kids(g, m) = [i \in DOMAIN ConfigChildren(m) |-> PoetNode(ConfigChildren(m)[i])]
      BY <3>1
    <3>3. QED  BY <3>2 DEF Here
  <2>5. Eq(g, n)
    BY <2>4
  <2>6. Eq(f, n)
    <3> HIDE DEF Eq, g
    <3>1. QED  BY <2>5
  <2> HIDE DEF f, Of
  <2>7. ASSUME NEW m \in Subconfigs(n), ToSet(ConfigChildren(m)) \subseteq Q  PROVE m \in Q
    <3>1. \A i \in DOMAIN ConfigChildren(m) : f[ConfigChildren(m)[i]] = PoetNode(ConfigChildren(m)[i])
      BY <2>2, <2>3, <2>7 DEF ToSet
    <3>2. Kids(f, m) = [i \in DOMAIN ConfigChildren(m) |-> PoetNode(ConfigChildren(m)[i])]
      BY <3>1
    <3>3. f[m] = TranslatedNode(m, Kids(f, m))
      BY <2>6
    <3>4. QED  BY <3>2, <3>3 DEF Here
  <2>8. Subconfigs(n) \subseteq Q
    <3> HIDE DEF Q
    <3>1. QED  BY <2>1, <2>7, ConfigInduction
  <2>9. n \in R
    BY <1>1, <2>1, <2>8 DEF R, f
  <2>10. Subconfigs(n) \subseteq R
    BY <1>2, <2>1, <2>9
  <2>11. QED  BY <2>10
<1>3. Subconfigs(root) \subseteq P
  <2> HIDE DEF P
  <2>1. QED  BY <1>2, ConfigInduction
<1>4. root \in Subconfigs(root)
  BY SubconfigFacts
<1>5. QED  BY <1>3, <1>4

LEMMA ConfigRule ==
  ASSUME NEW root, FiniteConfig(root), NEW env
  PROVE  ConfigSatisfied(root, env) =
           MeantNode(root, [i \in DOMAIN ConfigChildren(root) |-> ConfigSatisfied(ConfigChildren(root)[i], env)], env)
<1> DEFINE Kids(f, n) == [i \in DOMAIN ConfigChildren(n) |-> f[ConfigChildren(n)[i]]]
           Eq(f, r) == f = [n \in Subconfigs(r) |-> MeantNode(n, Kids(f, n), env)]
           Of(r) == CHOOSE f : Eq(f, r)
           Here(n) == MeantNode(n, [i \in DOMAIN ConfigChildren(n) |-> ConfigSatisfied(ConfigChildren(n)[i], env)], env)
           R == {m \in Subconfigs(root) : ConfigSatisfied(m, env) = Here(m)}
           P == {n \in Subconfigs(root) : Subconfigs(n) \subseteq R}
<1>1. \A r : ConfigSatisfied(r, env) = Of(r)[r]
  BY DEF ConfigSatisfied, Walk, Subconfigs
<1>2. ASSUME NEW n \in Subconfigs(root), ToSet(ConfigChildren(n)) \subseteq P  PROVE n \in P
  <2> DEFINE g == [m \in Subconfigs(n) |-> Here(m)]
             f == Of(n)
             Q == {m \in Subconfigs(n) : f[m] = Here(m)}
  <2>1. /\ FiniteConfig(n) /\ n \in Subconfigs(n) /\ Subconfigs(n) \subseteq Subconfigs(root)
        /\ Subconfigs(n) = {n} \cup UNION {Subconfigs(c) : c \in ToSet(ConfigChildren(n))}
    BY <1>2, SubconfigFacts
  <2>2. \A m \in Subconfigs(n) : \A i \in DOMAIN ConfigChildren(m) :
          ConfigChildren(m)[i] \in Subconfigs(n) /\ ConfigChildren(m)[i] \in R
    <3>1. \A c \in ToSet(ConfigChildren(n)) : Subconfigs(c) \subseteq R
      BY <1>2
    <3> HIDE DEF R
    <3>2. QED  BY <2>1, <3>1, ConfigsRuled
  <2>3. \A d \in R : ConfigSatisfied(d, env) = Here(d)
    OBVIOUS
  <2> HIDE DEF Here, R
  <2>4. \A m \in Subconfigs(n) : Here(m) = MeantNode(m, Kids(g, m), env)
    <3> SUFFICES ASSUME NEW m \in Subconfigs(n)  PROVE Here(m) = MeantNode(m, Kids(g, m), env)
      OBVIOUS
    <3>1. \A i \in DOMAIN ConfigChildren(m) : g[ConfigChildren(m)[i]] = ConfigSatisfied(ConfigChildren(m)[i], env)
      BY <2>2, <2>3
    <3> HIDE DEF g
    <3>2. Kids(g, m) = [i \in DOMAIN ConfigChildren(m) |-> ConfigSatisfied(ConfigChildren(m)[i], env)]
      BY <3>1
    <3>3. QED  BY <3>2 DEF Here
  <2>5. Eq(g, n)
    BY <2>4
  <2>6. Eq(f, n)
    <3> HIDE DEF Eq, g
    <3>1. QED  BY <2>5
  <2> HIDE DEF f, Of
  <2>7. ASSUME NEW m \in Subconfigs(n), ToSet(ConfigChildren(m)) \subseteq Q  PROVE m \in Q
    <3>1. \A i \in DOMAIN ConfigChildren(m) : f[ConfigChildren(m)[i]] = ConfigSatisfied(ConfigChildren(m)[i], env)
      BY <2>2, <2>3, <2>7 DEF ToSet
    <3>2. Kids(f, m) = [i \in DOMAIN ConfigChildren(m) |-> ConfigSatisfied(ConfigChildren(m)[i], env)]
      BY <3>1
    <3>3. f[m] = MeantNode(m, Kids(f, m), env)
      BY <2>6
    <3>4. QED  BY <3>2, <3>3 DEF Here
  <2>8. Subconfigs(n) \subseteq Q
    <3> HIDE DEF Q
    <3>1. QED  BY <2>1, <2>7, ConfigInduction
  <2>9. n \in R
    BY <1>1, <2>1, <2>8 DEF R, f
  <2>10. Subconfigs(n) \subseteq R
    BY <1>2, <2>1, <2>9
  <2>11. QED  BY <2>10
<1>3. Subconfigs(root) \subseteq P
  <2> HIDE DEF P
  <2>1. QED  BY <1>2, ConfigInduction
<1>4. root \in Subconfigs(root)
  BY SubconfigFacts
<1>5. QED  BY <1>3, <1>4

-----------------------------------------------------------------------------
(* The builder makes a tree of every configuration.                        *)

LEMMA OptionalIs ==
  ASSUME NEW S
  PROVE  /\ <<>> \in Optional(S)
         /\ \A x \in S : <<x>> \in Optional(S)
         /\ \A s \in Optional(S) : s = <<>> \/ (s = <<s[1]>> /\ s[1] \in S)
<1>1. <<>> \in Optional(S)
  BY DEF Optional
<1>2. ASSUME NEW x \in S  PROVE <<x>> \in Optional(S)
  <2>1. <<x>> \in Seq(S) /\ Len(<<x>>) = 1
    OBVIOUS
  <2>2. QED  BY <2>1 DEF Optional
<1>3. QED  BY <1>1, <1>2, OptionalShort

LEMMA FirstGivenIs ==
  ASSUME NEW a, NEW b, NEW c
  PROVE  FirstGiven(<<a, b, c>>) = IF a # <<>> THEN a ELSE IF b # <<>> THEN b ELSE c
<1> DEFINE o == <<a, b, c>>
           given == {i \in DOMAIN o : o[i] # <<>>}
<1>1. DOMAIN o = {1, 2, 3} /\ o[1] = a /\ o[2] = b /\ o[3] = c
  OBVIOUS
<1>2. FirstGiven(o) = IF given = {} THEN <<>>
                      ELSE o[CHOOSE i \in given : \A j \in given : i <= j]
  BY DEF FirstGiven
<1> HIDE DEF o
<1>3. CASE a # <<>>
  <2>1. \A i \in given : (\A j \in given : i <= j) <=> i = 1
    BY <1>1, <1>3
  <2>2. 1 \in given
    BY <1>1, <1>3
  <2>3. (CHOOSE i \in given : \A j \in given : i <= j) = 1
    BY <2>1, <2>2
  <2>4. QED  BY <1>1, <1>2, <1>3, <2>2, <2>3 DEF o
<1>4. CASE a = <<>> /\ b # <<>>
  <2>1. given \subseteq {2, 3} /\ 2 \in given
    BY <1>1, <1>4
  <2>2. \A i \in given : (\A j \in given : i <= j) <=> i = 2
    BY <2>1
  <2>3. (CHOOSE i \in given : \A j \in given : i <= j) = 2
    BY <2>1, <2>2
  <2>4. QED  BY <1>1, <1>2, <1>4, <2>1, <2>3 DEF o
<1>5. CASE a = <<>> /\ b = <<>> /\ c # <<>>
  <2>1. given = {3}
    BY <1>1, <1>5
  <2>2. \A i \in given : (\A j \in given : i <= j) <=> i = 3
    BY <2>1
  <2>3. (CHOOSE i \in given : \A j \in given : i <= j) = 3
    BY <2>1, <2>2
  <2>4. QED  BY <1>1, <1>2, <1>5, <2>1, <2>3 DEF o
<1>6. CASE a = <<>> /\ b = <<>> /\ c = <<>>
  <2>1. given = {}
    BY <1>1, <1>6
  <2>2. QED  BY <1>2, <1>6, <2>1 DEF o
<1>7. QED  BY <1>3, <1>4, <1>5, <1>6

Rigged(n, op, kids, k, weights) ==
  n = [Operator(op, kids) EXCEPT !.k = k, !.weights = weights]

LEMMA OperatorTree ==
  ASSUME NEW op \in ToSet(Texts), NEW l \in Nat, NEW kids, IsRow(kids, l),
         \A i \in 1 .. l : IsTree(kids[i]),
         NEW k \in Optional(Int), NEW weights \in Optional(Seq(Int)),
         NEW n, Rigged(n, op, kids, k, weights)
  PROVE  /\ IsTree(n) /\ Children(n) = kids /\ ToSet(kids) = {kids[i] : i \in 1 .. l}
         /\ n.kind = "operator" /\ n.operator = op /\ n.children = kids
         /\ n.k = k /\ n.weights = weights /\ n.threshold = <<>>
<1>1. n = [kind |-> "operator", operator |-> op, children |-> kids, k |-> k,
           weights |-> weights, threshold |-> <<>>, weight |-> <<>>]
  BY DEF Rigged, Operator
<1>2. /\ n.kind = "operator" /\ n.operator = op /\ n.children = kids
      /\ n.k = k /\ n.weights = weights /\ n.threshold = <<>> /\ n.weight = <<>>
  BY ONLY <1>1
<1>3. DOMAIN kids = 1 .. l /\ ToSet(kids) = {kids[i] : i \in 1 .. l}
  BY DEF IsRow, ToSet
<1>4. kids \in Seq(ToSet(kids))
  <2>1. kids \in [1 .. l -> ToSet(kids)]
    BY <1>3 DEF IsRow
  <2>2. QED  BY <2>1
<1>5. <<>> \in Optional(Int)
  BY OptionalIs
<1>6. IsNode(n)
  BY <1>1, <1>2, <1>4, <1>5 DEF IsNode
<1>7. Children(n) = kids
  BY <1>2 DEF Children
<1>8. \A c \in ToSet(Children(n)) : IsTree(c)
  BY <1>3, <1>7
<1>9. QED  BY <1>2, <1>3, <1>6, <1>7, <1>8, TreeFrom

LEMMA ConditionTree ==
  ASSUME NEW type \in ToSet(Texts), NEW params, IsParams(params)
  PROVE  /\ IsTree(Condition(type, params)) /\ Condition(type, params).kind = "condition"
         /\ Condition(type, params).type = type /\ Condition(type, params).params = params
<1>1. PICK c : c = Condition(type, params)
  OBVIOUS
<1>2. c = [kind |-> "condition", type |-> type, params |-> params, weight |-> <<>>]
  BY <1>1 DEF Condition
<1>3. c.kind = "condition" /\ c.type = type /\ c.params = params
  BY <1>2
<1>4. <<>> \in Optional(Int)
  BY OptionalIs
<1>5. IsNode(c)
  BY <1>2, <1>3, <1>4 DEF IsNode
<1>6. ToSet(Children(c)) = {}
  BY <1>3, ShortSets DEF Children
<1>7. IsTree(c)
  BY <1>5, <1>6, TreeFrom
<1>8. QED  BY <1>1, <1>3, <1>7

\* An operator over one node, or over two.
LEMMA SmallTree ==
  ASSUME NEW op \in ToSet(Texts), NEW kids, NEW c, IsTree(c), NEW d, IsTree(d),
         kids = <<c>> \/ kids = <<c, d>>
  PROVE  /\ IsTree(Operator(op, kids)) /\ Children(Operator(op, kids)) = kids
         /\ Operator(op, kids).kind = "operator" /\ Operator(op, kids).operator = op
         /\ Operator(op, kids).children = kids
<1>1. PICK n : n = Operator(op, kids)
  OBVIOUS
<1> DEFINE e == <<>>
<1>2. Rigged(n, op, kids, e, e)
  <2>1. /\ n = [kind |-> "operator", operator |-> op, children |-> kids, k |-> <<>>,
                weights |-> <<>>, threshold |-> <<>>, weight |-> <<>>]
        /\ n.k = <<>> /\ n.weights = <<>>
    BY <1>1 DEF Operator
  <2>2. n = [n EXCEPT !.k = <<>>, !.weights = <<>>]
    BY ONLY <2>1
  <2>3. QED  BY <1>1, <2>2 DEF Rigged
<1>3. PICK l : l = IF kids = <<c>> THEN 1 ELSE 2
  OBVIOUS
<1>4. l \in Nat /\ IsRow(kids, l) /\ \A i \in 1 .. l : IsTree(kids[i])
  <2>1. CASE kids = <<c>>
    <3>1. l = 1
      BY <1>3, <2>1
    <3>2. kids = [i \in 1 .. 1 |-> kids[i]]
      BY <2>1
    <3>3. QED  BY <2>1, <3>1, <3>2 DEF IsRow
  <2>2. CASE kids = <<c, d>>
    <3>1. l = 2
      BY <1>3, <2>2
    <3>2. kids = [i \in 1 .. 2 |-> kids[i]]
      BY <2>2
    <3>3. QED  BY <2>2, <3>1, <3>2 DEF IsRow
  <2>3. QED  BY <2>1, <2>2
<1>5. e \in Optional(Int) /\ e \in Optional(Seq(Int))
  BY OptionalIs
<1> HIDE DEF e
<1>6. /\ IsTree(n) /\ Children(n) = kids /\ n.kind = "operator" /\ n.operator = op
      /\ n.children = kids
  BY ONLY op \in ToSet(Texts), <1>2, <1>4, <1>5, OperatorTree
<1>7. QED  BY <1>1, <1>6

LEMMA LeafParamsType ==
  ASSUME NEW cfg, IsConfig(cfg)
  PROVE  IsParams(LeafParams(cfg))
<1>1. IsParams(cfg.params) /\ IsParams(cfg.parameters) /\ cfg.weight \in Optional(Int)
  BY DEF IsConfig
<1>2. PICK w : w = IF cfg.weight = <<>> THEN <<>>
                   ELSE [weight |-> <<"number", cfg.weight[1]>>]
  OBVIOUS
<1>3. IsParams(w)
  <2>1. IsParams(<<>>)
    BY DEF IsParams
  <2>2. ASSUME cfg.weight # <<>>  PROVE IsParams([weight |-> <<"number", cfg.weight[1]>>])
    <3>1. cfg.weight[1] \in Int
      BY <1>1, <2>2, OptionalIs
    <3>2. PICK p : p = [weight |-> <<"number", cfg.weight[1]>>]
      OBVIOUS
    <3>3. DOMAIN p = {"weight"} /\ IsFcn(p) /\ p["weight"] = <<"number", cfg.weight[1]>>
      BY <3>2 DEF IsFcn
    <3>4. <<"number", cfg.weight[1]>> \in Values
      BY <3>1 DEF Values
    <3>5. "weight" \in ToSet(Texts)
      BY LaneAssumption DEF Vocabulary
    <3>6. IsParams(p)
      BY <3>3, <3>4, <3>5, ParamsFrom
    <3>7. QED  BY <3>2, <3>6
  <2>3. QED  BY <1>2, <2>1, <2>2
<1>4. PICK p : p = Over(Over(cfg.parameters, cfg.params), w)
  OBVIOUS
<1>5. IsParams(p)
  BY <1>1, <1>3, <1>4, OverlayParams
<1>6. LeafParams(cfg) = WithCommitment(cfg.type, p)
  BY <1>2, <1>4 DEF LeafParams
<1>7. IsParams([expected_template_hash |-> Commitment])
  <2>1. PICK q : q = [expected_template_hash |-> Commitment]
    OBVIOUS
  <2>2. DOMAIN q = {"expected_template_hash"} /\ IsFcn(q)
        /\ q["expected_template_hash"] = <<"string", "template hash">>
    BY <2>1 DEF IsFcn, Commitment
  <2>3. "expected_template_hash" \in ToSet(Texts) /\ "template hash" \in ToSet(Texts)
    BY LaneAssumption DEF Vocabulary
  <2>4. <<"string", "template hash">> \in Values
    BY <2>3 DEF Values
  <2>5. IsParams(q)
    BY <2>2, <2>3, <2>4, ParamsFrom
  <2>6. QED  BY <2>1, <2>5
<1>8. IsParams(Over(p, [expected_template_hash |-> Commitment]))
  BY <1>5, <1>7, OverlayParams
<1>9. QED  BY <1>5, <1>6, <1>8 DEF WithCommitment

LEMMA OperatorTexts ==
  /\ {"AND", "NOT"} \subseteq Operators
  /\ {"AND", "NOT"} \subseteq ToSet(Texts)
<1>1. OperatorNames[1] = "AND" /\ OperatorNames[3] = "NOT" /\ DOMAIN OperatorNames = 1 .. 14
  BY DEF OperatorNames
<1>2. 1 \in DOMAIN OperatorNames /\ 3 \in DOMAIN OperatorNames
  BY <1>1
<1>3. OperatorNames[1] \in Operators /\ OperatorNames[3] \in Operators
  BY <1>2 DEF Operators, ToSet
<1>4. QED  BY <1>1, <1>3, LaneAssumption DEF Vocabulary

\* A configuration holds a sequence of configurations: two, or one, or a list.
LEMMA ConfigKids ==
  ASSUME NEW cfg, IsConfig(cfg)
  PROVE  \E l \in Nat : /\ IsRow(ConfigChildren(cfg), l) /\ Len(ConfigChildren(cfg)) = l
                        /\ DOMAIN ConfigChildren(cfg) = 1 .. l
                        /\ IsBinary(cfg) => l = 2
                        /\ IsUnary(cfg) => l = 1
<1>1. PICK kids : kids = ConfigChildren(cfg)
  OBVIOUS
<1>2. CASE IsBinary(cfg)
  <2>1. cfg.left \in Optional(ToSet(cfg.left)) /\ cfg.right \in Optional(ToSet(cfg.right))
        /\ cfg.left # <<>> /\ cfg.right # <<>>
    BY <1>2 DEF IsConfig, IsBinary
  <2>2. PICK a, b : a = cfg.left[1] /\ b = cfg.right[1]
    OBVIOUS
  <2>3. cfg.left = <<a>> /\ cfg.right = <<b>>
    BY <2>1, <2>2, OptionalIs
  <2>4. kids = <<a>> \o <<b>>
    BY <1>1, <1>2, <2>3 DEF ConfigChildren
  <2>5. kids = <<a, b>>
    <3>1. <<a>> \in Seq({a, b}) /\ <<b>> \in Seq({a, b}) /\ Len(<<a>>) = 1 /\ Len(<<b>>) = 1
      OBVIOUS
    <3>2. kids \in Seq({a, b}) /\ Len(kids) = 2 /\ kids[1] = a /\ kids[2] = b
      BY <2>4, <3>1, ConcatProperties
    <3>3. kids \in [1 .. 2 -> {a, b}]
      BY <3>2
    <3>4. QED  BY <3>2, <3>3
  <2>6. Len(kids) = 2 /\ DOMAIN kids = 1 .. 2 /\ kids = [i \in 1 .. 2 |-> kids[i]]
    BY <2>5
  <2>7. ~IsUnary(cfg)
    BY <1>2 DEF IsUnary
  <2>8. QED  BY <1>1, <2>6, <2>7 DEF IsRow
<1>3. CASE ~IsBinary(cfg) /\ IsUnary(cfg)
  <2>1. cfg.operand \in Optional(ToSet(cfg.operand)) /\ cfg.operand # <<>>
    BY <1>3 DEF IsConfig, IsUnary
  <2>2. PICK a : a = cfg.operand[1]
    OBVIOUS
  <2>3. kids = <<a>>
    BY <1>1, <1>3, <2>1, <2>2, OptionalIs DEF ConfigChildren
  <2>4. Len(kids) = 1 /\ DOMAIN kids = 1 .. 1 /\ kids = [i \in 1 .. 1 |-> kids[i]]
    BY <2>3
  <2>5. QED  BY <1>1, <1>3, <2>4 DEF IsRow
<1>4. CASE ~IsBinary(cfg) /\ ~IsUnary(cfg) /\ IsGroup(cfg)
  <2>1. cfg.kids \in Optional(ToSet(cfg.kids)) /\ cfg.kids # <<>>
    BY <1>4 DEF IsConfig, IsGroup
  <2>2. kids = cfg.kids[1]
    BY <1>1, <1>4 DEF ConfigChildren
  <2>3. kids \in ToSet(cfg.kids)
    BY <2>1, <2>2, OptionalIs
  <2>4. kids \in Seq(ToSet(kids))
    BY <2>3 DEF IsConfig
  <2>5. PICK l \in Nat : l = Len(kids) /\ kids \in [1 .. l -> ToSet(kids)]
    BY <2>4, LenProperties
  <2>6. Len(kids) = l /\ DOMAIN kids = 1 .. l /\ kids = [i \in 1 .. l |-> kids[i]]
    BY <2>5
  <2>7. QED  BY <1>1, <1>4, <2>6 DEF IsRow
<1>5. CASE ~IsBinary(cfg) /\ ~IsUnary(cfg) /\ ~IsGroup(cfg)
  <2>1. kids = <<>>
    BY <1>1, <1>5 DEF ConfigChildren
  <2>2. Len(kids) = 0 /\ DOMAIN kids = 1 .. 0 /\ kids = [i \in 1 .. 0 |-> kids[i]]
    BY <2>1
  <2>3. QED  BY <1>1, <1>5, <2>2 DEF IsRow
<1>6. QED  BY <1>2, <1>3, <1>4, <1>5

LEMMA GroupWeightsType ==
  ASSUME NEW cfg, IsConfig(cfg), IsGroup(cfg),
         \A i \in DOMAIN ConfigChildren(cfg) : IsConfig(ConfigChildren(cfg)[i])
  PROVE  WeightsOf(cfg) \in Optional(Seq(Int)) /\ OwnWeights(cfg) \in Seq(Int)
<1>1. ConfigChildren(cfg) = cfg.kids[1]
  BY DEF ConfigChildren, IsGroup
<1>2. PICK kids : kids = cfg.kids[1]
  OBVIOUS
<1>3. PICK l \in Nat : DOMAIN kids = 1 .. l
  BY <1>1, <1>2, ConfigKids
<1>4. \A i \in 1 .. l : kids[i].weight \in Optional(Int)
  BY <1>1, <1>2, <1>3 DEF IsConfig
<1>5. cfg.defaultWeight \in Int /\ cfg.weights \in Optional(Seq(Int))
  BY DEF IsConfig
<1>6. PICK own : own = [i \in 1 .. l |-> IF kids[i].weight = <<>> THEN cfg.defaultWeight
                                         ELSE kids[i].weight[1]]
  OBVIOUS
<1>7. own \in Seq(Int)
  <2>1. \A i \in 1 .. l : kids[i].weight # <<>> => kids[i].weight[1] \in Int
    BY <1>4, OptionalIs
  <2>2. own \in [1 .. l -> Int]
    BY <1>5, <1>6, <2>1
  <2>3. QED  BY <2>2
<1>8. own = OwnWeights(cfg)
  BY <1>2, <1>3, <1>6 DEF OwnWeights
<1>9. WeightsOf(cfg) \in {cfg.weights, <<own>>, <<>>}
  BY <1>2, <1>3, <1>6 DEF WeightsOf
<1>10. <<own>> \in Optional(Seq(Int)) /\ <<>> \in Optional(Seq(Int))
  BY <1>7, OptionalIs
<1>11. QED  BY <1>5, <1>7, <1>8, <1>9, <1>10

LEMMA NegatedTree ==
  ASSUME NEW cfg, cfg.useNot \in BOOLEAN, NEW n, IsTree(n)
  PROVE  IsTree(Negated(cfg, n))
<1>1. "NOT" \in ToSet(Texts)
  BY OperatorTexts
<1>2. IsTree(Operator("NOT", <<n>>))
  BY <1>1, SmallTree
<1>3. QED  BY <1>2 DEF Negated

LEMMA TranslatedTree ==
  ASSUME NEW cfg, IsConfig(cfg),
         NEW l \in Nat, IsRow(ConfigChildren(cfg), l), DOMAIN ConfigChildren(cfg) = 1 .. l,
         IsUnary(cfg) => l = 1,
         \A i \in 1 .. l : IsConfig(ConfigChildren(cfg)[i]),
         NEW kids, IsRow(kids, l), \A i \in 1 .. l : IsTree(kids[i])
  PROVE  IsTree(TranslatedNode(cfg, kids))
<1>1. cfg.useNot \in BOOLEAN
  BY DEF IsConfig
<1>2. CASE IsBinary(cfg)
  <2> DEFINE e == <<>>
  <2>1. PICK n : n = [Operator(OperatorOf(cfg.op), kids) EXCEPT !.k = cfg.threshold]
    OBVIOUS
  <2>2. Rigged(n, OperatorOf(cfg.op), kids, cfg.threshold, e)
    <3>1. PICK m : m = Operator(OperatorOf(cfg.op), kids)
      OBVIOUS
    <3>2. m = [kind |-> "operator", operator |-> OperatorOf(cfg.op), children |-> kids,
               k |-> <<>>, weights |-> <<>>, threshold |-> <<>>, weight |-> <<>>]
          /\ m.weights = <<>>
      BY <3>1 DEF Operator
    <3>3. [m EXCEPT !.k = cfg.threshold] = [m EXCEPT !.k = cfg.threshold, !.weights = <<>>]
      BY ONLY <3>2
    <3>4. QED  BY <2>1, <3>1, <3>3 DEF Rigged
  <2>3. OperatorOf(cfg.op) \in ToSet(Texts) /\ cfg.threshold \in Optional(Int)
    BY <1>2 DEF IsConfig
  <2>4. e \in Optional(Seq(Int))
    BY OptionalIs
  <2> HIDE DEF e
  <2>5. IsTree(n)
    BY <2>2, <2>3, <2>4, OperatorTree
  <2>6. TranslatedNode(cfg, kids) = Negated(cfg, n)
    BY <1>2, <2>1 DEF TranslatedNode
  <2>7. QED  BY <1>1, <2>5, <2>6, NegatedTree
<1>3. CASE ~IsBinary(cfg) /\ IsUnary(cfg)
  <2>1. TranslatedNode(cfg, kids) = Operator("NOT", kids)
    BY <1>3 DEF TranslatedNode
  <2>2. kids = <<kids[1]>> /\ IsTree(kids[1])
    BY <1>3 DEF IsRow
  <2>3. "NOT" \in ToSet(Texts)
    BY OperatorTexts
  <2>4. QED  BY <2>1, <2>2, <2>3, SmallTree
<1>4. CASE ~IsBinary(cfg) /\ ~IsUnary(cfg) /\ IsGroup(cfg)
  <2> DEFINE k == FirstGiven(<<cfg.threshold, cfg.paramThreshold, cfg.paramK>>)
             ws == WeightsOf(cfg)
  <2>1. PICK n : n = [Operator(OperatorOf(cfg.op), kids) EXCEPT !.k = k, !.weights = ws]
    OBVIOUS
  <2>2. Rigged(n, OperatorOf(cfg.op), kids, k, ws)
    BY <2>1 DEF Rigged
  <2>3. OperatorOf(cfg.op) \in ToSet(Texts)
        /\ cfg.threshold \in Optional(Int) /\ cfg.paramThreshold \in Optional(Int)
        /\ cfg.paramK \in Optional(Int)
    BY <1>4 DEF IsConfig
  <2>4. k \in Optional(Int)
    BY <2>3, FirstGivenIs
  <2>5. ws \in Optional(Seq(Int))
    BY <1>4, GroupWeightsType
  <2>6. TranslatedNode(cfg, kids) = Negated(cfg, n)
    BY <1>4, <2>1 DEF TranslatedNode
  <2> HIDE DEF k, ws
  <2>7. IsTree(n)
    BY <2>2, <2>3, <2>4, <2>5, OperatorTree
  <2>8. QED  BY <1>1, <2>6, <2>7, NegatedTree
<1>5. CASE ~IsBinary(cfg) /\ ~IsUnary(cfg) /\ ~IsGroup(cfg)
  <2>1. TranslatedNode(cfg, kids) = Negated(cfg, Condition(cfg.type, LeafParams(cfg)))
    BY <1>5 DEF TranslatedNode
  <2>2. cfg.type \in ToSet(Texts)
    BY DEF IsConfig
  <2>3. IsTree(Condition(cfg.type, LeafParams(cfg)))
    BY <2>2, LeafParamsType, ConditionTree
  <2>4. QED  BY <1>1, <2>1, <2>3, NegatedTree
<1>6. QED  BY <1>2, <1>3, <1>4, <1>5

\* A configuration that ends somewhere, of fields of their types.
IsConfigTree(root) == FiniteConfig(root) /\ \A cfg \in Subconfigs(root) : IsConfig(cfg)

LEMMA ConfigParts ==
  ASSUME NEW root, IsConfigTree(root)
  PROVE  /\ IsConfig(root) /\ FiniteConfig(root) /\ root \in Subconfigs(root)
         /\ \A cfg \in Subconfigs(root) : IsConfigTree(cfg)
         /\ \A i \in DOMAIN ConfigChildren(root) : IsConfigTree(ConfigChildren(root)[i])
<1>1. /\ FiniteConfig(root) /\ root \in Subconfigs(root)
      /\ \A cfg \in Subconfigs(root) : /\ FiniteConfig(cfg)
                                       /\ Subconfigs(cfg) \subseteq Subconfigs(root)
      /\ ToSet(ConfigChildren(root)) \subseteq Subconfigs(root)
  BY SubconfigFacts DEF IsConfigTree
<1>2. \A cfg \in Subconfigs(root) : IsConfigTree(cfg)
  BY <1>1 DEF IsConfigTree
<1>3. \A i \in DOMAIN ConfigChildren(root) : ConfigChildren(root)[i] \in Subconfigs(root)
  BY <1>1 DEF ToSet
<1>4. QED  BY <1>1, <1>2, <1>3 DEF IsConfigTree

LEMMA PoetNodeTree ==
  ASSUME NEW root, IsConfigTree(root)
  PROVE  IsTree(PoetNode(root))
<1> DEFINE P == {cfg \in Subconfigs(root) : IsTree(PoetNode(cfg))}
<1>1. ASSUME NEW cfg \in Subconfigs(root), ToSet(ConfigChildren(cfg)) \subseteq P
      PROVE  cfg \in P
  <2>1. IsConfigTree(cfg)
    BY ConfigParts
  <2>2. PICK l \in Nat : /\ IsRow(ConfigChildren(cfg), l)
                         /\ DOMAIN ConfigChildren(cfg) = 1 .. l
                         /\ IsUnary(cfg) => l = 1
    BY <2>1, ConfigParts, ConfigKids
  <2>3. PICK kids : kids = [i \in 1 .. l |-> PoetNode(ConfigChildren(cfg)[i])]
    OBVIOUS
  <2>4. PoetNode(cfg) = TranslatedNode(cfg, kids)
    BY <2>1, <2>2, <2>3, ConfigParts, PoetRule
  <2>5. \A i \in 1 .. l : ConfigChildren(cfg)[i] \in P
    BY <1>1, <2>2 DEF ToSet
  <2>6. \A i \in 1 .. l : IsTree(kids[i])
    BY <2>3, <2>5
  <2>7. IsRow(kids, l)
    BY <2>3 DEF IsRow
  <2>8. \A i \in 1 .. l : IsConfig(ConfigChildren(cfg)[i])
    BY <2>1, <2>2, ConfigParts
  <2>9. IsConfig(cfg)
    BY <2>1, ConfigParts
  <2> HIDE DEF P
  <2>10. IsTree(TranslatedNode(cfg, kids))
    BY ONLY <2>2, <2>6, <2>7, <2>8, <2>9, TranslatedTree
  <2>11. QED  BY <2>4, <2>10 DEF P
<1>2. Subconfigs(root) \subseteq P
  <2>1. FiniteConfig(root)
    BY DEF IsConfigTree
  <2> HIDE DEF P
  <2>2. QED  BY <1>1, <2>1, ConfigInduction
<1>3. QED  BY <1>2, ConfigParts

LEMMA PoetTree ==
  ASSUME NEW root, IsConfigTree(root)
  PROVE  IsTree(PoetPolicy(root))
<1>1. IsTree(PoetNode(root))
  BY PoetNodeTree
<1>2. "AND" \in ToSet(Texts)
  BY OperatorTexts
<1>3. IsTree(Operator("AND", <<PoetNode(root)>>))
  BY <1>1, <1>2, SmallTree
<1>4. QED  BY <1>1, <1>3 DEF PoetPolicy

-----------------------------------------------------------------------------
(* The trees the program builds itself.                                    *)

LEMMA SystemFacts ==
  ASSUME NEW sys, sys = SystemClause(SystemTemplate)
  PROVE  /\ IsTree(sys) /\ sys.kind = "condition" /\ sys.type = "REQKEY"
         /\ ReqkeysOf(sys) = <<sys.params>> /\ Subtrees(sys) = {sys}
         /\ sys.params.use_descriptor = <<"boolean", "true">>
         /\ "use_descriptor" \in DOMAIN sys.params
         /\ sys.params.derivation_range = <<"number", SystemRange>>
<1>1. PICK p : p = [use_descriptor |-> <<"boolean", "true">>,
                    descriptor_template |-> <<"string", SystemTemplate>>,
                    derivation_range |-> <<"number", SystemRange>>]
  OBVIOUS
<1>2. /\ DOMAIN p = {"use_descriptor", "descriptor_template", "derivation_range"}
      /\ p["use_descriptor"] = <<"boolean", "true">>
      /\ p["descriptor_template"] = <<"string", SystemTemplate>>
      /\ p["derivation_range"] = <<"number", SystemRange>>
      /\ IsFcn(p)
  BY <1>1 DEF IsFcn
<1>3. {"use_descriptor", "descriptor_template", "derivation_range", "true", "REQKEY",
       SystemTemplate} \subseteq ToSet(Texts)
  BY LaneAssumption DEF Vocabulary
<1>4. <<"boolean", "true">> \in Values /\ <<"number", SystemRange>> \in Values
      /\ <<"string", SystemTemplate>> \in Values
  BY <1>3 DEF Values, SystemRange
<1>5. \A k \in DOMAIN p : p[k] \in Values
  BY <1>2, <1>4
<1>6. IsParams(p)
  BY <1>2, <1>3, <1>5, ParamsFrom
<1>7. sys = Condition("REQKEY", p)
  BY <1>1 DEF SystemClause
<1>8. IsTree(sys) /\ sys.kind = "condition" /\ sys.type = "REQKEY" /\ sys.params = p
  BY <1>3, <1>6, <1>7, ConditionTree
<1>9. ReqkeysOf(sys) = <<sys.params>>
  <2>1. PICK kids : kids = [i \in DOMAIN Children(sys) |-> ReqkeysOf(Children(sys)[i])]
    OBVIOUS
  <2>2. ReqkeysOf(sys) = NodeReqkeys(sys, kids)
    BY <1>8, <2>1, TreeParts, ReqkeysRule
  <2>3. QED  BY <1>8, <2>2 DEF NodeReqkeys
<1>10. QED  BY <1>2, <1>8, <1>9, LeafFacts

LEMMA AfterTree ==
  ASSUME NEW p, p["startUnixSeconds"] \in Values
  PROVE  IsTree(AfterCondition(p))
<1>1. PICK q : q = [constraint_type |-> <<"string", "after">>,
                    start_time |-> p.startUnixSeconds]
  OBVIOUS
<1>2. /\ DOMAIN q = {"constraint_type", "start_time"} /\ IsFcn(q)
      /\ q["constraint_type"] = <<"string", "after">>
      /\ q["start_time"] = p["startUnixSeconds"]
  BY <1>1 DEF IsFcn
<1>3. {"constraint_type", "start_time", "after", "TIME_BASED_CONSTRAINT"} \subseteq ToSet(Texts)
  BY LaneAssumption DEF Vocabulary
<1>4. <<"string", "after">> \in Values
  BY <1>3 DEF Values
<1>5. \A k \in DOMAIN q : q[k] \in Values
  BY <1>2, <1>4
<1>6. IsParams(q)
  BY <1>2, <1>3, <1>5, ParamsFrom
<1>7. AfterCondition(p) = Condition("TIME_BASED_CONSTRAINT", q)
  BY <1>1 DEF AfterCondition
<1>8. QED  BY <1>3, <1>6, <1>7, ConditionTree

LEMMA WindowTree ==
  ASSUME NEW p, IsDays(p),
         \A k \in {"startHourUtc", "endHourUtc", "startDate", "endDate",
                          "startUnixSeconds", "endUnixSeconds"} : p[k] \in Values
  PROVE  IsTree(WindowCondition(p))
<1> DEFINE days == <<"array", DaysInOrder(DaysOf[p.activeDays[2]])>>
<1>1. PICK q : q = [constraint_type |-> <<"string", "within">>, active_days |-> days,
                    start_hour |-> p.startHourUtc, end_hour |-> p.endHourUtc,
                    start_date_within |-> p.startDate, end_date_within |-> p.endDate,
                    start_time |-> p.startUnixSeconds, end_time |-> p.endUnixSeconds]
  OBVIOUS
<1>2. /\ DOMAIN q = {"constraint_type", "active_days", "start_hour", "end_hour",
                     "start_date_within", "end_date_within", "start_time", "end_time"}
      /\ IsFcn(q)
  BY <1>1 DEF IsFcn
<1>3. /\ q["constraint_type"] = <<"string", "within">> /\ q["active_days"] = days
      /\ q["start_hour"] = p["startHourUtc"] /\ q["end_hour"] = p["endHourUtc"]
      /\ q["start_date_within"] = p["startDate"] /\ q["end_date_within"] = p["endDate"]
      /\ q["start_time"] = p["startUnixSeconds"] /\ q["end_time"] = p["endUnixSeconds"]
  BY ONLY <1>1
<1>4. {"constraint_type", "active_days", "start_hour", "end_hour", "start_date_within",
       "end_date_within", "start_time", "end_time", "within", "TIME_BASED_CONSTRAINT"}
      \subseteq ToSet(Texts)
  BY LaneAssumption DEF Vocabulary
<1>5. <<"string", "within">> \in Values /\ days \in Values
  <2>1. PICK text \in DOMAIN DaysOf : text = p.activeDays[2]
    BY DEF IsDays
  <2>2. \E other \in DOMAIN DaysOf : IsDaysInOrder(other, DaysOf[text])
    BY TemplatesAssumption
  <2>3. DaysInOrder(DaysOf[text]) \in ToSet(Texts)
    BY <2>2, TemplatesAssumption DEF DaysInOrder
  <2>4. QED  BY <1>4, <2>1, <2>3 DEF Values
<1> HIDE DEF days
<1>6. \A k \in DOMAIN q : q[k] \in Values
  BY <1>2, <1>3, <1>5
<1>7. IsParams(q)
  BY <1>2, <1>4, <1>6, ParamsFrom
<1>8. WindowCondition(p) = Condition("TIME_BASED_CONSTRAINT", q)
  BY <1>1 DEF WindowCondition, days
<1>9. QED  BY <1>4, <1>7, <1>8, ConditionTree

LEMMA NoNewTree ==
  IsTree(NoNewOutputs)
<1>1. PICK q : q = [expected_value |-> <<"boolean", "true">>]
  OBVIOUS
<1>2. DOMAIN q = {"expected_value"} /\ IsFcn(q) /\ q["expected_value"] = <<"boolean", "true">>
  BY <1>1 DEF IsFcn
<1>3. {"expected_value", "true", "DERIVED_NO_NEW_OUTPUTS"} \subseteq ToSet(Texts)
  BY LaneAssumption DEF Vocabulary
<1>4. <<"boolean", "true">> \in Values
  BY DEF Values
<1>5. IsParams(q)
  BY <1>2, <1>3, <1>4, ParamsFrom
<1>6. NoNewOutputs = Condition("DERIVED_NO_NEW_OUTPUTS", q)
  BY <1>1 DEF NoNewOutputs
<1>7. QED  BY <1>3, <1>5, <1>6, ConditionTree

LEMMA BlacklistTree ==
  ASSUME NEW a \in Values, NEW b \in Values
  PROVE  IsTree(Operator("NOT", <<DestinationSet([addresses |-> a, network |-> b], "ANY")>>))
<1>1. PICK p, q : /\ p = [addresses |-> a, network |-> b]
                  /\ q = [selector |-> <<"object", "ANY">>, addresses |-> a, network |-> b]
  OBVIOUS
<1>2. /\ DOMAIN q = {"selector", "addresses", "network"} /\ IsFcn(q)
      /\ q["selector"] = <<"object", "ANY">> /\ q["addresses"] = a /\ q["network"] = b
      /\ p.addresses = a /\ p.network = b /\ DOMAIN p = {"addresses", "network"}
  BY <1>1 DEF IsFcn
<1>3. {"selector", "addresses", "network", "ANY", "OUTPUT_DEST_IS_IN_SETS"} \subseteq ToSet(Texts)
  BY LaneAssumption DEF Vocabulary
<1>4. <<"object", "ANY">> \in Values
  BY <1>3 DEF Values
<1>5. IsParams(q) /\ IsParams(<<>>)
  <2>1. IsParams(q)
    BY <1>2, <1>3, <1>4, ParamsFrom
  <2>2. QED  BY <2>1 DEF IsParams
<1>6. Renamed(p, "require_change_to_input_addresses", "requireChangeToInputAddresses") = <<>>
  BY <1>2 DEF Renamed
<1>7. DestinationSet(p, "ANY") = Condition("OUTPUT_DEST_IS_IN_SETS", Over(q, <<>>))
  BY <1>1, <1>2, <1>6 DEF DestinationSet
<1>8. IsTree(DestinationSet(p, "ANY"))
  BY <1>3, <1>5, <1>7, OverlayParams, ConditionTree
<1>9. QED  BY <1>1, <1>8, OperatorTexts, SmallTree

LEMMA KeyTemplateTree ==
  ASSUME NEW input \in KeyTemplateInputs, KeyTemplateAccepts(input[1], input[2])
  PROVE  IsTree(KeyTemplatePolicy(input[1], input[2]))
<1>1. PICK template, p : template = input[1] /\ p = input[2]
  OBVIOUS
<1>2. template \in KeyTemplates /\ \A k \in DOMAIN p : p[k] \in Values
  BY <1>1, LaneAssumption
<1>3. KeyTemplateAccepts(template, p)
  BY <1>1
<1>4. CASE template = "bitcoin-inheritance"
  <2>1. "startUnixSeconds" \in DOMAIN p
    BY <1>3, <1>4 DEF KeyTemplateAccepts, IsTime, Has
  <2>2. KeyTemplatePolicy(template, p) = AfterCondition(p)
    BY <1>4 DEF KeyTemplatePolicy
  <2>3. QED  BY <1>1, <1>2, <2>1, <2>2, AfterTree
<1>5. CASE template = "blacklist"
  <2>1. "blockedAddresses" \in DOMAIN p /\ "network" \in DOMAIN p
    BY <1>3, <1>5 DEF KeyTemplateAccepts, IsAddressList, IsNetwork, Has
  <2>2. PICK a \in Values, b \in Values : a = p["blockedAddresses"] /\ b = p["network"]
    BY <1>2, <2>1
  <2>3. KeyTemplatePolicy(template, p) =
          Operator("NOT", <<DestinationSet([addresses |-> a, network |-> b], "ANY")>>)
    BY <1>5, <2>2 DEF KeyTemplatePolicy
  <2>4. QED  BY <1>1, <2>3, BlacklistTree
<1>6. CASE template = "business-hours-only"
  <2>1. /\ IsDays(p)
        /\ \A k \in {"startHourUtc", "endHourUtc", "startDate", "endDate",
                     "startUnixSeconds", "endUnixSeconds"} : k \in DOMAIN p
    BY <1>3, <1>6 DEF KeyTemplateAccepts, WindowAccepts, IsTime, IsHour, IsDate, Has
  <2>2. KeyTemplatePolicy(template, p) = WindowCondition(p)
    BY <1>6 DEF KeyTemplatePolicy
  <2>3. QED  BY <1>1, <1>2, <2>1, <2>2, WindowTree
<1>7. CASE template = "no-new-outputs-consolidation"
  <2>1. KeyTemplatePolicy(template, p) = NoNewOutputs
    BY <1>7 DEF KeyTemplatePolicy
  <2>2. QED  BY <1>1, <2>1, NoNewTree
<1>8. QED  BY <1>2, <1>4, <1>5, <1>6, <1>7 DEF KeyTemplates

-----------------------------------------------------------------------------
(* What the objects an application holds are, in every reachable state.    *)

SystemParams == SystemClause(SystemTemplate).params
\* A tree that carries the system clause once, if it was composed.
Held(root, isComposed) ==
  IsTree(root) /\ (isComposed => ReqkeysOf(root) = <<SystemParams>>)
\* What was stored: the bytes of the tree of an AST.
Saved(entry) ==
  \E root : /\ PlainTree(root) /\ Held(root, entry.composed) /\ Encodable(root)
            /\ entry.bytes = Encoded(root) /\ entry.composed \in BOOLEAN

LaneInv ==
  /\ frozen \in BOOLEAN /\ composed \in BOOLEAN
  /\ outcome \in {"none", "ok", "refused", "TypeError"}
  /\ doc = <<>> => ~frozen /\ ~composed /\ stored = <<>> /\ compiled = <<>>
  /\ doc # <<>> => /\ doc = <<doc[1]>> /\ Held(doc[1], composed)
                   /\ frozen => NormalTree(doc[1])
                   /\ IsAst => PlainTree(doc[1])
  /\ stored # <<>> => stored = <<stored[1]>> /\ Saved(stored[1])
  /\ compiled # <<>> => compiled = <<compiled[1]>> /\ Clean(compiled[1])

LEMMA NormalKnown ==
  ASSUME NEW root, NormalTree(root)
  PROVE  PlainTree(root)
BY DEF NormalTree, NormalNode, IsTree, Plain, PlainTree

\* The clause beside a policy without one.
LEMMA JoinedFacts ==
  ASSUME NEW sys, sys = SystemClause(SystemTemplate),
         NEW user, PlainTree(user), Composes(sys, user),
         NEW n, n = Operator("AND", <<sys, user>>)
  PROVE  /\ IsTree(n) /\ Known(n) /\ ReqkeysOf(n) = <<SystemParams>>
         /\ Children(n) = <<sys, user>> /\ n.kind = "operator" /\ n.operator = "AND"
         /\ n.children = <<sys, user>> /\ IsTree(sys) /\ IsTree(user)
<1>1. IsTree(user) /\ IsTree(sys) /\ ReqkeysOf(sys) = <<sys.params>> /\ Subtrees(sys) = {sys}
      /\ sys.kind = "condition"
  BY SystemFacts DEF PlainTree
<1>2. /\ IsTree(n) /\ Children(n) = <<sys, user>> /\ n.kind = "operator" /\ n.operator = "AND"
      /\ n.children = <<sys, user>>
  BY <1>1, OperatorTexts, SmallTree
<1>3. PICK S : S = ToSet(Children(n))
  OBVIOUS
<1>4. S = {sys, user}
  <2>1. DOMAIN <<sys, user>> = {1, 2} /\ <<sys, user>>[1] = sys /\ <<sys, user>>[2] = user
    OBVIOUS
  <2>2. QED  BY <1>2, <1>3, <2>1 DEF ToSet
<1>5. Known(n)
  <2>1. Subtrees(n) = {n} \cup UNION {Subtrees(c) : c \in ToSet(Children(n))}
    BY <1>2, SubtreeFacts DEF IsTree
  <2>2. \A m \in Subtrees(n) : m = n \/ m = sys \/ m \in Subtrees(user)
    BY <1>1, <1>3, <1>4, <2>1
  <2>3. Known(user)
    BY DEF PlainTree, Plain, Known
  <2>4. QED  BY <1>1, <1>2, <2>2, <2>3, OperatorTexts DEF Known
<1>6. ReqkeysOf(user) = <<>>
  <2>1. \A c \in ConditionsOf(user) : c.type = "REQKEY" => c.params \in {}
    BY DEF Composes, CarriesReqkey
  <2>2. ReqkeysOf(user) \in Seq({})
    BY <1>1, <2>1, ReqkeysType
  <2>3. QED  BY <2>2
<1>7. ReqkeysOf(n) = <<SystemParams>>
  <2>1. PICK p : p = SystemParams
    OBVIOUS
  <2>2. p = sys.params
    BY <2>1 DEF SystemParams
  <2>3. sys \in Bearer(S, p) /\ user \in Bare(S)
    BY <1>1, <1>4, <1>6, <2>2 DEF Bearer, Bare
  <2>4. OneIn(Children(n), Bearer(S, p), Bare(S))
    <3>1. PICK kids, l : kids = Children(n) /\ l = Len(kids)
      OBVIOUS
    <3>2. l = 2 /\ kids[1] = sys /\ kids[2] = user
      BY <1>2, <3>1
    <3>3. kids[1] \in Bearer(S, p) /\ \A j \in 1 .. l : j # 1 => kids[j] \in Bare(S)
      BY <2>3, <3>2
    <3>4. QED  BY <3>1, <3>2, <3>3 DEF OneIn
  <2>5. ReqkeysOf(n) = <<p>>
    BY <1>2, <1>3, <2>4, OperatorReqkeys
  <2>6. QED  BY <2>1, <2>5
<1>8. QED  BY <1>1, <1>2, <1>5, <1>7

LEMMA CanonicalHeld ==
  ASSUME NEW root, IsTree(root), Known(root), NEW c, Held(root, c)
  PROVE  NormalTree(Canonical(root)) /\ Held(Canonical(root), c)
<1>1. NormalTree(Canonical(root)) /\ IsTree(Canonical(root))
  BY CanonicalIsNormal DEF NormalTree
<1>2. c => ReqkeysOf(Canonical(root)) = <<SystemParams>>
  BY OneKept DEF Held
<1>3. QED  BY <1>1, <1>2 DEF Held

LEMMA HoldKept ==
  ASSUME LaneInv, NEW root, IsTree(root), NEW from, Hold(root, from)
  PROVE  LaneInv'
<1>1. /\ doc = <<>> /\ doc' = <<root>> /\ outcome' = "ok" /\ frozen' = frozen
      /\ composed' = composed /\ stored' = stored /\ compiled' = compiled
  BY DEF Hold, Nothing
<1>2. ~frozen /\ ~composed /\ stored = <<>> /\ compiled = <<>>
  BY <1>1 DEF LaneInv
<1>3. doc' # <<>> /\ doc'[1] = root /\ ~IsAst'
  BY <1>1, <1>2 DEF IsAst
<1>4. Held(root, FALSE) /\ composed' = FALSE
  BY <1>1, <1>2 DEF Held, LaneInv
<1>5. QED  BY <1>1, <1>2, <1>3, <1>4 DEF LaneInv

LEMMA CanonicalizeKept ==
  ASSUME LaneInv, Canonicalize
  PROVE  LaneInv'
<1>1. /\ doc # <<>> /\ composed' = composed /\ stored' = stored /\ compiled' = compiled
      /\ outcome' \in {"ok", "refused"}
  BY DEF Canonicalize
<1>2. PICK root : root = doc[1]
  OBVIOUS
<1>3. Held(root, composed) /\ IsTree(root)
  BY <1>1, <1>2 DEF LaneInv, Held
<1>4. CASE Canonicalizes(root)
  <2>1. PICK r : r = Canonical(root)
    OBVIOUS
  <2>2. doc' = <<r>> /\ frozen' = TRUE
    BY <1>2, <1>4, <2>1 DEF Canonicalize
  <2>3. NormalTree(r) /\ Held(r, composed)
    BY <1>3, <1>4, <2>1, CanonicalizesKnown, CanonicalHeld
  <2>4. doc' # <<>> /\ doc'[1] = r /\ PlainTree(r)
    BY <2>2, <2>3, NormalKnown
  <2>5. QED  BY <1>1, <2>2, <2>3, <2>4 DEF LaneInv
<1>5. CASE ~Canonicalizes(root)
  <2>1. doc' = doc /\ frozen' = frozen
    BY <1>2, <1>5 DEF Canonicalize
  <2>2. QED  BY <1>1, <2>1 DEF LaneInv, IsAst
<1>6. QED  BY <1>4, <1>5

LEMMA ComposeKept ==
  ASSUME LaneInv, Compose
  PROVE  LaneInv'
<1>1. /\ doc # <<>> /\ IsAst /\ stored' = stored
      /\ compiled' = compiled /\ outcome' \in {"ok", "refused"}
  BY DEF Compose
<1>2. PICK sys, user : sys = SystemClause(SystemTemplate) /\ user = doc[1]
  OBVIOUS
<1>3. PlainTree(user)
  BY <1>1, <1>2 DEF LaneInv
<1>4. CASE Composes(sys, user)
  <2>1. PICK n : n = Operator("AND", <<sys, user>>)
    OBVIOUS
  <2>2. PICK r : r = Canonical(n)
    OBVIOUS
  <2>3. doc' = <<r>> /\ frozen' = TRUE /\ composed' = TRUE
    BY <1>2, <1>4, <2>1, <2>2 DEF Compose, EffectivePolicy
  <2>4. IsTree(n) /\ Known(n) /\ ReqkeysOf(n) = <<SystemParams>>
    BY <1>2, <1>3, <1>4, <2>1, JoinedFacts
  <2>5. Held(n, TRUE)
    BY <2>4 DEF Held
  <2>6. NormalTree(r) /\ Held(r, TRUE)
    BY <2>2, <2>4, <2>5, CanonicalHeld
  <2>7. doc' # <<>> /\ doc'[1] = r /\ PlainTree(r)
    BY <2>3, <2>6, NormalKnown
  <2>8. QED  BY <1>1, <2>3, <2>6, <2>7 DEF LaneInv
<1>5. CASE ~Composes(sys, user)
  <2>1. doc' = doc /\ frozen' = frozen /\ composed' = composed
    BY <1>2, <1>5 DEF Compose
  <2>2. QED  BY <1>1, <2>1 DEF LaneInv, IsAst
<1>6. QED  BY <1>4, <1>5

LEMMA StoreKept ==
  ASSUME LaneInv, Store
  PROVE  LaneInv'
<1>1. /\ doc # <<>> /\ IsAst /\ doc' = doc /\ frozen' = frozen /\ composed' = composed
      /\ compiled' = compiled /\ outcome' \in {"ok", "refused"}
  BY DEF Store
<1>2. PICK root : root = doc[1]
  OBVIOUS
<1>3. PlainTree(root) /\ Held(root, composed) /\ composed \in BOOLEAN
  BY <1>1, <1>2 DEF LaneInv
<1>4. CASE Encodable(root)
  <2>1. PICK entry : entry = [bytes |-> Encoded(root), composed |-> composed]
    OBVIOUS
  <2>2. stored' = <<entry>> /\ entry.bytes = Encoded(root) /\ entry.composed = composed
    BY <1>2, <1>4, <2>1 DEF Store
  <2>3. Saved(entry)
    BY <1>3, <1>4, <2>2 DEF Saved
  <2>4. stored'[1] = entry
    BY <2>2
  <2>5. QED  BY <1>1, <2>2, <2>3, <2>4 DEF LaneInv
<1>5. CASE ~Encodable(root)
  <2>1. stored' = stored
    BY <1>2, <1>5 DEF Store
  <2>2. QED  BY <1>1, <2>1 DEF LaneInv
<1>6. QED  BY <1>4, <1>5

LEMMA LoadedIs ==
  ASSUME NEW entry, Saved(entry)
  PROVE  /\ Decodes(entry.bytes) /\ Held(Decoded(entry.bytes), entry.composed)
         /\ PlainTree(Decoded(entry.bytes)) /\ Encoded(Decoded(entry.bytes)) = entry.bytes
<1>1. PICK root : /\ PlainTree(root) /\ Held(root, entry.composed)
                  /\ entry.bytes = Encoded(root)
  BY DEF Saved
<1>2. IsTree(root) /\ \A n \in Subtrees(root) : Plain(n)
  BY <1>1 DEF PlainTree
<1>3. Decodes(entry.bytes) /\ Decoded(entry.bytes) = root
  BY <1>1, <1>2, RoundTripOf
<1>4. QED  BY <1>1, <1>3

LEMMA LoadKept ==
  ASSUME LaneInv, Load
  PROVE  LaneInv'
<1>1. /\ stored # <<>> /\ frozen' = FALSE /\ composed' = stored[1].composed
      /\ stored' = stored /\ compiled' = compiled /\ outcome' = "ok"
      /\ doc' = <<Decoded(stored[1].bytes)>>
  BY DEF Load
<1>2. PICK entry, root : entry = stored[1] /\ root = Decoded(entry.bytes)
  OBVIOUS
<1>3. Saved(entry)
  BY <1>1, <1>2 DEF LaneInv
<1>4. Held(root, entry.composed) /\ entry.composed \in BOOLEAN /\ PlainTree(root)
  BY <1>2, <1>3, LoadedIs DEF Saved
<1>5. doc' # <<>> /\ doc'[1] = root /\ doc' = <<root>>
  BY <1>1, <1>2
<1>6. QED  BY <1>1, <1>2, <1>4, <1>5 DEF LaneInv

LEMMA CreateKept ==
  ASSUME LaneInv, CreateKey
  PROVE  LaneInv'
<1>1. /\ doc # <<>> /\ frozen' = frozen /\ composed' = composed /\ stored' = stored
      /\ outcome' \in {"ok", "refused", "TypeError"}
  BY DEF CreateKey
<1>2. PICK root, run : root = doc[1] /\ run = Normalised(root, frozen)
  OBVIOUS
<1>3. /\ Held(root, composed) /\ IsTree(root) /\ frozen \in BOOLEAN
      /\ frozen => NormalTree(root)
      /\ IsAst => PlainTree(root)
  BY <1>1, <1>2 DEF LaneInv, Held
<1>4. Walked(root, frozen)
  BY <1>3, NormalisedFacts
<1>5. /\ Alike(root, run.node)
      /\ frozen => run.node = root
      /\ run.error = "none" => Clean(run.node)
  BY <1>2, <1>4 DEF Walked
<1>6. Held(run.node, composed)
  <2>1. PICK m : m = run.node
    OBVIOUS
  <2>2. Alike(root, m)
    BY <1>5, <2>1
  <2>3. IsTree(m) /\ ReqkeysOf(m) = ReqkeysOf(root)
    BY ONLY <2>2 DEF Alike
  <2>4. composed => ReqkeysOf(root) = <<SystemParams>>
    BY <1>3 DEF Held
  <2>5. composed => ReqkeysOf(m) = <<SystemParams>>
    BY <2>3, <2>4
  <2>6. QED  BY <2>1, <2>3, <2>5 DEF Held
<1>7. doc' = <<run.node>>
  BY <1>2 DEF CreateKey
<1>8. doc' # <<>> /\ doc'[1] = run.node
  BY <1>7
<1>9. compiled' = compiled \/ (compiled' = <<run.node>> /\ Clean(run.node))
  BY <1>2, <1>5 DEF CreateKey
<1>10. compiled' # <<>> => compiled' = <<compiled'[1]>> /\ Clean(compiled'[1])
  BY <1>9 DEF LaneInv
<1>11. /\ doc' = <<doc'[1]>> /\ Held(doc'[1], composed')
       /\ frozen' => NormalTree(doc'[1])
       /\ IsAst' => PlainTree(doc'[1])
  <2>1. doc' = <<doc'[1]>>
    BY <1>7, <1>8
  <2>2. Held(doc'[1], composed')
    BY <1>1, <1>6, <1>8
  <2>3. frozen' => NormalTree(doc'[1])
    BY <1>1, <1>3, <1>5, <1>8
  <2>4. IsAst' => PlainTree(doc'[1])
    <3>1. PlainTree(root) => PlainTree(run.node)
      BY ONLY <1>5 DEF Alike
    <3>2. IsAst' <=> IsAst
      BY <1>1 DEF IsAst
    <3>3. QED  BY <1>3, <1>8, <3>1, <3>2
  <2>5. QED  BY <2>1, <2>2, <2>3, <2>4
<1>12. /\ composed \in BOOLEAN
       /\ stored # <<>> => stored = <<stored[1]>> /\ Saved(stored[1])
  BY DEF LaneInv
<1>13. /\ composed' \in BOOLEAN /\ frozen' \in BOOLEAN
       /\ stored' # <<>> => stored' = <<stored'[1]>> /\ Saved(stored'[1])
  BY <1>1, <1>3, <1>12
<1>14. QED  BY <1>1, <1>8, <1>10, <1>11, <1>13 DEF LaneInv

LEMMA ConfigsAreTrees ==
  \A cfg \in Configs : IsConfigTree(cfg)
BY LaneAssumption DEF IsConfigTree, FiniteConfig, ConfigLevel

LEMMA DocumentsAreTrees ==
  \A root \in Documents : IsTree(root)
BY LaneAssumption DEF IsTree, Finite, NodeLevel

LEMMA LaneInvInductive ==
  Spec => []LaneInv
<1>1. Init => LaneInv
  BY DEF Init, LaneInv
<1>2. ASSUME LaneInv, [Next]_vars  PROVE LaneInv'
  <2>1. ASSUME UNCHANGED docVars  PROVE LaneInv'
    BY <1>2, <2>1 DEF LaneInv, docVars, IsAst
  <2>2. ASSUME NEW cfg \in Configs, FromConfig(cfg)  PROVE LaneInv'
    <3>1. IsTree(PoetPolicy(cfg))
      BY ConfigsAreTrees, PoetTree
    <3>2. PICK from : Hold(PoetPolicy(cfg), from)
      BY <2>2 DEF FromConfig
    <3>3. QED  BY <1>2, <3>1, <3>2, HoldKept
  <2>3. ASSUME NEW root \in Documents, FromDocument(root)  PROVE LaneInv'
    <3>1. PICK from : Hold(root, from)
      BY <2>3 DEF FromDocument
    <3>2. QED  BY <1>2, <3>1, DocumentsAreTrees, HoldKept
  <2>4. ASSUME NEW input \in KeyTemplateInputs, FromKeyTemplate(input[1], input[2])
        PROVE  LaneInv'
    <3>1. PICK root : root = KeyTemplatePolicy(input[1], input[2])
      OBVIOUS
    <3>2. CASE /\ KeyTemplateAccepts(input[1], input[2])
               /\ GateAccepts(KeyTemplatePolicy(input[1], input[2]), FALSE)
      <4>1. IsTree(root)
        BY <3>1, <3>2, KeyTemplateTree
      <4>2. PICK from : Hold(root, from)
        BY <2>4, <3>1, <3>2 DEF FromKeyTemplate
      <4>3. QED  BY <1>2, <4>1, <4>2, HoldKept
    <3>3. CASE ~(/\ KeyTemplateAccepts(input[1], input[2])
                 /\ GateAccepts(KeyTemplatePolicy(input[1], input[2]), FALSE))
      <4>1. /\ outcome' = "refused" /\ doc' = doc /\ frozen' = frozen /\ composed' = composed
            /\ stored' = stored /\ compiled' = compiled
        BY <2>4, <3>3 DEF FromKeyTemplate
      <4>2. QED  BY <1>2, <4>1 DEF LaneInv, IsAst
    <3>4. QED  BY <3>2, <3>3
  <2>5. CASE Canonicalize \/ Compose \/ Store \/ Load \/ CreateKey
    BY <1>2, <2>5, CanonicalizeKept, ComposeKept, StoreKept, LoadKept, CreateKept
  <2>6. CASE \/ \E input \in Selections : Select(input[1], input[2])
             \/ \E t \in Tamperings : Tamper(t[1], t[2])
             \/ ValidateSelection
    <3>1. UNCHANGED docVars
      BY <2>6 DEF Select, Tamper, ValidateSelection
    <3>2. QED  BY <2>1, <3>1
  <2>7. CASE UNCHANGED vars
    BY <2>1, <2>7 DEF vars
  <2>8. QED  BY <1>2, <2>2, <2>3, <2>4, <2>5, <2>6, <2>7 DEF Next
<1>3. QED  BY <1>1, <1>2, PTL DEF Spec

-----------------------------------------------------------------------------
(* The objects.                                                            *)

LEMMA ObjectsAreWhole ==
  ASSUME LaneInv, RecordInv
  PROVE  ObjectsWhole
<1>1. /\ frozen \in BOOLEAN /\ composed \in BOOLEAN /\ tampered \in BOOLEAN
      /\ outcome \in {"none", "ok", "refused", "TypeError"}
      /\ verdict \in {"none", "accepted", "refused"}
  BY DEF LaneInv, RecordInv
<1>2. \A v \in {doc, stored, compiled, record} : Len(v) <= 1
  <2>1. \A v \in {doc, stored, compiled, record} : v = <<>> \/ v = <<v[1]>>
    BY DEF LaneInv, RecordInv
  <2>2. ASSUME NEW v \in {doc, stored, compiled, record}  PROVE Len(v) <= 1
    <3>1. CASE v = <<>>
      <4>1. Len(v) = 0
        BY <3>1
      <4>2. QED  BY <4>1
    <3>2. CASE v = <<v[1]>>
      <4>1. PICK x : v = <<x>>
        BY <3>2
      <4>2. Len(v) = 1
        BY ONLY <4>1
      <4>3. QED  BY <4>2
    <3>3. QED  BY <2>1, <3>1, <3>2
  <2>3. QED  BY <2>2
<1>3. stored # <<>> => Decodes(stored[1].bytes)
  BY LoadedIs DEF LaneInv
<1>4. TypeOK
  BY <1>1, <1>2, <1>3 DEF TypeOK, LaneInv
<1>5. FrozenIsCanonical
  BY NormalIsCanonical DEF LaneInv, FrozenIsCanonical
<1>6. CompiledIsNormal
  BY DEF LaneInv, CompiledIsNormal, Clean
<1>7. QED  BY <1>4, <1>5, <1>6 DEF ObjectsWhole

\* The object an application holds is whole, canonical when it is frozen, and
\* what the compiler got needs no further normalisation.
THEOREM ObjectsStayWhole == Spec => []ObjectsWhole
BY LaneInvInductive, RecordInvInductive, ObjectsAreWhole, PTL

LEMMA FilteredOne ==
  ASSUME NEW p, IsDescriptor(p)
  PROVE  Filtered(<<p>>, IsDescriptor) = <<p>>
<1>1. PICK s : s = <<p>>
  OBVIOUS
<1>2. DOMAIN s = 1 .. 1 /\ s[1] = p
  BY <1>1
<1>3. PICK ss : ss = [i \in 1 .. 1 |-> <<p>>]
  OBVIOUS
<1>4. [i \in DOMAIN s |-> IF IsDescriptor(s[i]) THEN <<s[i]>> ELSE <<>>] = ss
  <2>1. \A i \in DOMAIN s : s[i] = p
    BY <1>2
  <2>2. QED  BY <1>2, <1>3, <2>1
<1>5. Filtered(s, IsDescriptor) = FlattenSeq(ss)
  BY <1>4 DEF Filtered
<1>6. ss \in Seq(Seq({p})) /\ Len(ss) = 1 /\ ss[1] = <<p>>
  <2>1. <<p>> \in Seq({p})
    OBVIOUS
  <2>2. ss \in [1 .. 1 -> Seq({p})]
    BY <1>3, <2>1
  <2>3. QED  BY <1>3, <2>2, FunctionIsSeq
<1>7. FlattenSeq(ss) = <<p>>
  BY <1>6, FlattenShort
<1>8. QED  BY <1>1, <1>5, <1>7

LEMMA ReqkeyIsOne ==
  ASSUME LaneInv
  PROVE  OneReqkey
<1> SUFFICES ASSUME composed
             PROVE  /\ ReqkeysOf(doc[1]) = <<SystemClause(SystemTemplate).params>>
                    /\ ReqkeysAccepted(doc[1])
  BY DEF OneReqkey
<1>1. ReqkeysOf(doc[1]) = <<SystemParams>>
  BY DEF LaneInv, Held
<1>2. PICK p, sys : p = SystemParams /\ sys = SystemClause(SystemTemplate)
  OBVIOUS
<1>3. /\ p = sys.params /\ "use_descriptor" \in DOMAIN p
      /\ p.use_descriptor = <<"boolean", "true">>
      /\ p.derivation_range = <<"number", SystemRange>>
  BY <1>2, SystemFacts DEF SystemParams
<1>4. IsDescriptor(p) /\ p.derivation_range[2] = SystemRange
  BY <1>3 DEF IsDescriptor
<1>5. PICK keys, chosen : keys = <<p>> /\ chosen = Filtered(keys, IsDescriptor)
  OBVIOUS
<1>6. chosen = <<p>>
  BY <1>4, <1>5, FilteredOne
<1>7. Len(keys) = 1 /\ \A i \in DOMAIN chosen : chosen[i] = p
  BY <1>5, <1>6
<1>8. SystemRange <= SystemRange
  BY DEF SystemRange
<1>9. ReqkeysAccepted(doc[1])
  BY <1>1, <1>2, <1>4, <1>5, <1>7, <1>8 DEF ReqkeysAccepted
<1>10. QED  BY <1>1, <1>9 DEF SystemParams

\* A composed policy carries the system clause as its one REQKEY condition.
THEOREM ReqkeyStaysOne == Spec => []OneReqkey
BY LaneInvInductive, ReqkeyIsOne, PTL

\* What an application holds after a createKey compiles to the same again.
THEOREM ReuseIsSame == Spec => ReuseCompilesSame
<1>1. ASSUME LaneInv, [Next]_vars, doc = compiled  PROVE compiled' = compiled
  <2>1. CASE CreateKey
    <3>1. doc # <<>> /\ compiled # <<>>
      BY <1>1, <2>1 DEF CreateKey
    <3>2. PICK root, run : root = doc[1] /\ run = Normalised(root, frozen)
      OBVIOUS
    <3>3. doc = <<root>> /\ frozen \in BOOLEAN /\ IsTree(root) /\ Clean(root)
      BY <1>1, <3>1, <3>2 DEF LaneInv, Held
    <3>4. run.node = root
      <4>1. CASE frozen
        <5>1. Walked(root, frozen)
          BY <3>3, NormalisedFacts
        <5>2. QED  BY <3>2, <4>1, <5>1 DEF Walked
      <4>2. CASE ~frozen
        <5>1. run = [node |-> root, error |-> "none"]
          BY <3>2, <3>3, <4>2 DEF Clean
        <5>2. QED  BY <5>1
      <4>3. QED  BY <4>1, <4>2
    <3>5. compiled' = compiled \/ compiled' = <<run.node>>
      BY <2>1, <3>2 DEF CreateKey
    <3>6. QED  BY <1>1, <3>3, <3>4, <3>5
  <2>2. ASSUME NEW root, NEW from, Hold(root, from)  PROVE compiled' = compiled
    BY <2>2 DEF Hold
  <2>3. CASE \/ \E cfg \in Configs : FromConfig(cfg)
             \/ \E root \in Documents : FromDocument(root)
             \/ \E input \in KeyTemplateInputs : FromKeyTemplate(input[1], input[2])
    BY <2>2, <2>3 DEF FromConfig, FromDocument, FromKeyTemplate
  <2>4. CASE \/ Canonicalize \/ Compose \/ Store \/ Load \/ ValidateSelection
             \/ \E input \in Selections : Select(input[1], input[2])
             \/ \E t \in Tamperings : Tamper(t[1], t[2])
             \/ UNCHANGED vars
    BY <2>4 DEF Canonicalize, Compose, Store, Load, ValidateSelection, Select, Tamper,
                docVars, vars
  <2>5. QED  BY <1>1, <2>1, <2>3, <2>4 DEF Next
<1>2. LaneInv /\ [Next]_vars => (doc = compiled => compiled' = compiled)
  BY <1>1
<1>3. QED  BY <1>2, LaneInvInductive, PTL DEF Spec, ReuseCompilesSame

-----------------------------------------------------------------------------
(* The normal form.                                                        *)

LEMMA EncodingReturns ==
  ASSUME LaneInv
  PROVE  RoundTrip
<1> SUFFICES ASSUME doc # <<>>, Canonicalizes(doc[1]), Encodable(Canonical(doc[1]))
             PROVE  LET bytes == Encoded(Canonical(doc[1]))
                    IN Decodes(bytes) /\ Decoded(bytes) = Canonical(doc[1])
  BY DEF RoundTrip
<1>1. PICK root : root = Canonical(doc[1])
  OBVIOUS
<1>2. NormalTree(root)
  BY <1>1, CanonicalizesKnown, CanonicalIsNormal DEF LaneInv, Held
<1>3. IsTree(root) /\ \A n \in Subtrees(root) : Plain(n)
  BY <1>2, NormalKnown DEF NormalTree, PlainTree
<1>4. QED  BY <1>1, <1>3, RoundTripOf

\* A canonical policy is what its bytes decode to.
THEOREM EncodingReturnsAlways == Spec => []RoundTrip
BY LaneInvInductive, EncodingReturns, PTL

\* Canonicalizing what is canonical changes nothing.
CanonicalIsStable ==
  doc # <<>> /\ Canonicalizes(doc[1]) =>
    Canonical(Canonical(doc[1])) = Canonical(doc[1])

\* Canonicalizing once is canonicalizing twice, whatever policy is held.
THEOREM CanonicalOnce == Spec => []CanonicalIsStable
<1>1. LaneInv => CanonicalIsStable
  BY CanonicalizesKnown, CanonicalIsNormal, NormalIsCanonical
     DEF LaneInv, Held, CanonicalIsStable
<1>2. QED  BY <1>1, LaneInvInductive, PTL

-----------------------------------------------------------------------------
(* What a policy means.                                                    *)

SatKids(s, env) == {i \in DOMAIN s : Satisfied(s[i], env)}

\* An operator is satisfied as it holds for its satisfied children.
LEMMA SatisfiedOperator ==
  ASSUME NEW n, IsTree(n), n.kind = "operator", NEW env
  PROVE  Satisfied(n, env) = HoldsFor(n, SatKids(n.children, env))
<1>1. Finite(n) /\ Children(n) = n.children
  BY TreeParts DEF Children
<1>2. PICK a : a = [i \in DOMAIN n.children |-> Satisfied(n.children[i], env)]
  OBVIOUS
<1>3. Satisfied(n, env) = NodeSatisfied(n, a, env)
  BY <1>1, <1>2, SatisfiedRule
<1>4. {i \in DOMAIN a : a[i]} = SatKids(n.children, env)
  BY <1>2 DEF SatKids
<1>5. NodeSatisfied(n, a, env) = HoldsFor(n, {i \in DOMAIN a : a[i]})
  BY DEF NodeSatisfied
<1>6. QED  BY <1>3, <1>4, <1>5

\* A threshold that became k counts the same.
LEMMA HoldsForPromoted ==
  ASSUME NEW n, NEW m, NEW sat, n.operator = m.operator,
         m.k = IF n.k = <<>> THEN n.threshold ELSE n.k, m.threshold = <<>>,
         n.weights = m.weights, Len(n.children) = Len(m.children)
  PROVE  HoldsFor(n, sat) = HoldsFor(m, sat)
<1>1. (IF n.k = <<>> THEN n.threshold ELSE n.k) = (IF m.k = <<>> THEN m.threshold ELSE m.k)
  OBVIOUS
<1>2. QED  BY <1>1 DEF HoldsFor

\* Of every tree among them, or of one.
AllHold(S, env) == \A c \in S : Satisfied(c, env)
SomeHold(S, env) == \E c \in S : Satisfied(c, env)

LEMMA SetHolds ==
  ASSUME NEW n, IsTree(n), n.kind = "operator", NEW env
  PROVE  /\ n.operator = "AND" => (Satisfied(n, env) <=> AllHold(ToSet(n.children), env))
         /\ n.operator = "OR" => (Satisfied(n, env) <=> SomeHold(ToSet(n.children), env))
         /\ n.operator = "NAND" => (Satisfied(n, env) <=> ~AllHold(ToSet(n.children), env))
         /\ n.operator = "NOR" => (Satisfied(n, env) <=> ~SomeHold(ToSet(n.children), env))
<1>1. PICK s : s = n.children
  OBVIOUS
<1>2. Children(n) = s
  BY <1>1 DEF Children
<1>3. PICK l \in Nat : l = Len(s) /\ DOMAIN s = 1 .. l /\ ToSet(s) = {s[i] : i \in 1 .. l}
  <2>1. IsNode(n)
    BY TreeParts
  <2>2. /\ Len(Children(n)) \in Nat /\ DOMAIN Children(n) = 1 .. Len(Children(n))
        /\ ToSet(Children(n)) = {Children(n)[i] : i \in 1 .. Len(Children(n))}
    BY ONLY <2>1, NodeChildren
  <2>3. QED  BY <1>2, <2>2
<1>4. PICK sat : sat = SatKids(s, env)
  OBVIOUS
<1>5. \A i \in 1 .. l : i \in sat <=> Satisfied(s[i], env)
  BY <1>3, <1>4 DEF SatKids
<1>6. sat \subseteq 1 .. l
  BY <1>3, <1>4 DEF SatKids
<1>7. sat = 1 .. l <=> AllHold(ToSet(s), env)
  BY <1>3, <1>5, <1>6 DEF AllHold
<1>8. sat # {} <=> SomeHold(ToSet(s), env)
  BY <1>3, <1>5, <1>6 DEF SomeHold
<1>9. Satisfied(n, env) = HoldsFor(n, sat)
  BY <1>1, <1>4, SatisfiedOperator
<1>10. /\ n.operator = "AND" => (HoldsFor(n, sat) <=> sat = 1 .. l)
       /\ n.operator = "OR" => (HoldsFor(n, sat) <=> sat # {})
       /\ n.operator = "NAND" => (HoldsFor(n, sat) <=> sat # 1 .. l)
       /\ n.operator = "NOR" => (HoldsFor(n, sat) <=> sat = {})
  BY <1>1, <1>3 DEF HoldsFor
<1>11. QED  BY <1>1, <1>7, <1>8, <1>9, <1>10

\* Grouping does not matter to AND and OR.
LEMMA FlattenedHolds ==
  ASSUME NEW S, NEW kids \in Seq(S), NEW op \in Associative, NEW env,
         \A i \in 1 .. Len(kids) : IsTree(kids[i]),
         \A i \in 1 .. Len(kids) : IsOperator(kids[i], op) => kids[i].children \in Seq(S)
  PROVE  /\ op = "AND" => (AllHold(ToSet(Flattened(op, kids)), env)
                             <=> \A i \in 1 .. Len(kids) : Satisfied(kids[i], env))
         /\ op = "OR" => (SomeHold(ToSet(Flattened(op, kids)), env)
                            <=> \E i \in 1 .. Len(kids) : Satisfied(kids[i], env))
<1>1. PICK l \in Nat : l = Len(kids)
  BY LenProperties
<1>2. PICK part : part = [i \in 1 .. l |-> IF IsOperator(kids[i], op)
                                           THEN ToSet(kids[i].children) ELSE {kids[i]}]
  OBVIOUS
<1>3. ToSet(Flattened(op, kids)) = UNION {part[i] : i \in 1 .. l}
  <2>1. ToSet(Flattened(op, kids)) =
          UNION {IF IsOperator(kids[i], op) THEN ToSet(kids[i].children)
                 ELSE {kids[i]} : i \in 1 .. Len(kids)}
    BY FlattenedFacts
  <2>2. QED  BY <1>1, <1>2, <2>1
<1>4. PICK T : T = ToSet(Flattened(op, kids))
  OBVIOUS
<1>5. ASSUME NEW i \in 1 .. l
      PROVE  /\ op = "AND" => (AllHold(part[i], env) <=> Satisfied(kids[i], env))
             /\ op = "OR" => (SomeHold(part[i], env) <=> Satisfied(kids[i], env))
  <2>1. PICK c : c = kids[i]
    OBVIOUS
  <2>2. IsTree(c)
    BY <1>1, <2>1
  <2>3. CASE IsOperator(c, op)
    <3>1. part[i] = ToSet(c.children) /\ c.kind = "operator" /\ c.operator = op
      BY <1>2, <2>1, <2>3 DEF IsOperator
    <3>2. QED  BY <2>1, <2>2, <3>1, SetHolds
  <2>4. CASE ~IsOperator(c, op)
    <3>1. part[i] = {c}
      BY <1>2, <2>1, <2>4
    <3>2. QED  BY <2>1, <3>1 DEF AllHold, SomeHold
  <2>5. QED  BY <2>3, <2>4
<1>6. CASE op = "AND"
  <2>1. \A i \in 1 .. l : AllHold(part[i], env) <=> Satisfied(kids[i], env)
    BY <1>5, <1>6
  <2>2. AllHold(T, env) <=> \A i \in 1 .. l : AllHold(part[i], env)
    BY <1>3, <1>4 DEF AllHold
  <2>3. QED  BY <1>1, <1>4, <1>6, <2>1, <2>2
<1>7. CASE op = "OR"
  <2>1. \A i \in 1 .. l : SomeHold(part[i], env) <=> Satisfied(kids[i], env)
    BY <1>5, <1>7
  <2>2. SomeHold(T, env) <=> \E i \in 1 .. l : SomeHold(part[i], env)
    BY <1>3, <1>4 DEF SomeHold
  <2>3. QED  BY <1>1, <1>4, <1>7, <2>1, <2>2
<1>8. QED  BY <1>6, <1>7 DEF Associative

-----------------------------------------------------------------------------
(* The order of siblings does not matter to an operator that counts them.  *)

LEMMA PermutedCount ==
  ASSUME NEW l \in Nat, NEW s, NEW t, NEW p, DOMAIN s = 1 .. l, Permutes(p, s, t), NEW env
  PROVE  Cardinality(SatKids(t, env)) = Cardinality(SatKids(s, env))
<1>1. PICK A, B : A = SatKids(s, env) /\ B = SatKids(t, env)
  OBVIOUS
<1>2. /\ p \in [1 .. l -> 1 .. l] /\ DOMAIN t = 1 .. l
      /\ \A k \in 1 .. l : t[k] = s[p[k]]
      /\ \A j, k \in 1 .. l : p[j] = p[k] => j = k
      /\ \A k \in 1 .. l : \E j \in 1 .. l : p[j] = k
  BY DEF Permutes, Bijection, Injection, Surjection, IsInjective
<1>3. /\ \A k \in 1 .. l : k \in B <=> p[k] \in A
      /\ A \subseteq 1 .. l /\ B \subseteq 1 .. l
  BY <1>1, <1>2 DEF SatKids
<1>4. PICK f : f = [k \in B |-> p[k]]
  OBVIOUS
<1>5. f \in Bijection(B, A)
  <2>1. f \in [B -> A]
    BY <1>3, <1>4
  <2>2. \A j, k \in B : f[j] = f[k] => j = k
    BY <1>2, <1>3, <1>4
  <2>3. \A k \in A : \E j \in B : f[j] = k
    BY <1>2, <1>3, <1>4
  <2>4. QED  BY <2>1, <2>2, <2>3 DEF Bijection, Injection, Surjection, IsInjective
<1>6. IsFiniteSet(B)
  <2>1. IsFiniteSet(1 .. l)
    BY FS_Interval
  <2>2. QED  BY <1>3, <2>1, FS_Subset
<1>7. Cardinality(A) = Cardinality(B)
  BY <1>5, <1>6, FS_Bijection DEF ExistsBijection
<1>8. QED  BY <1>1, <1>7

LEMMA HoldsForCount ==
  ASSUME NEW n, NEW A, NEW B, Cardinality(A) = Cardinality(B),
         n.operator \in {"XOR", "MAJORITY", "THRESHOLD", "EXACTLY", "AT_MOST"}
  PROVE  HoldsFor(n, A) = HoldsFor(n, B)
BY DEF HoldsFor

\* The canonical form of an operator over canonical children means what the
\* operator does over children that mean the same.
LEMMA CanonicalOperatorMeans ==
  ASSUME NEW n, IsTree(n), n.kind = "operator", n.operator \in Operators,
         NEW l \in Nat, DOMAIN n.children = 1 .. l, NEW kids, IsRow(kids, l), NEW env,
         \A i \in 1 .. l : NormalTree(kids[i]),
         \A i \in 1 .. l : (Satisfied(kids[i], env) <=> Satisfied(n.children[i], env))
  PROVE  Satisfied(CanonicalNode(n, kids), env) <=> Satisfied(n, env)
<1> DEFINE S == UNION {Subtrees(kids[i]) : i \in 1 .. l}
           op == n.operator
<1>1. IsNode(n) /\ Children(n) = n.children /\ Len(n.children) = l
  <2>1. IsNode(n)
    BY TreeParts
  <2>2. Children(n) = n.children
    BY DEF Children
  <2>3. Len(Children(n)) \in Nat /\ DOMAIN Children(n) = 1 .. Len(Children(n))
    BY ONLY <2>1, NodeChildren
  <2>4. PICK m \in Nat : m = Len(n.children) /\ 1 .. m = 1 .. l
    BY <2>2, <2>3
  <2>5. m = l
    BY ONLY <2>4, m \in Nat, l \in Nat
  <2>6. QED  BY <2>1, <2>2, <2>4, <2>5
<1>2. /\ \A c \in S : NormalTree(c) /\ IsTree(c)
      /\ \A i \in 1 .. l : kids[i] \in S
  BY NormalParts
<1>3. kids \in Seq(S) /\ Len(kids) = l
  <2>1. kids \in [1 .. l -> S]
    BY <1>2 DEF IsRow
  <2> HIDE DEF S
  <2>2. QED  BY <2>1, FunctionIsSeq
<1>4. ASSUME NEW i \in 1 .. l, IsOperator(kids[i], op)
      PROVE  kids[i].children \in Seq(S)
  <2>1. PICK c : c = kids[i]
    OBVIOUS
  <2>2. c.kind = "operator" /\ IsTree(c) /\ c.children = Children(c)
    BY <1>2, <1>4, <2>1 DEF IsOperator, Children
  <2>3. IsNode(c) /\ Finite(c)
    BY <2>2, TreeParts
  <2>4. ToSet(Children(c)) \subseteq Subtrees(c)
    BY <2>3, SubtreeFacts
  <2>5. Children(c) \in Seq(ToSet(Children(c)))
    BY ONLY <2>3, NodeChildren
  <2>6. Subtrees(c) \subseteq S
    BY <2>1
  <2> HIDE DEF S
  <2>7. ToSet(Children(c)) \subseteq S
    BY <2>4, <2>6
  <2>8. QED  BY <2>1, <2>2, <2>5, <2>7
<1> HIDE DEF S
<1>5. PICK r, u : r = CanonicalNode(n, kids) /\ u = CanonicalChildren(op, kids)
  OBVIOUS
<1>6. /\ NormalTree(r) /\ SameHead(n, r) /\ r.children = u
      /\ ToSet(u) = ToSet(Flattened(op, kids))
  <2>1. kids = [i \in 1 .. l |-> kids[i]]
    BY DEF IsRow
  <2>2. QED  BY <1>1, <1>5, <2>1, CanonicalOperator
<1>7. r = [n EXCEPT !.children = u, !.k = IF n.k = <<>> THEN n.threshold ELSE n.k,
                    !.threshold = <<>>]
  BY <1>5 DEF CanonicalNode
<1>8. n \in [kind : {"operator"}, operator : ToSet(Texts), children : {n.children},
             k : Optional(Int), weights : Optional(Seq(Int)), threshold : Optional(Int),
             weight : Optional(Int)]
  BY <1>1 DEF IsNode
<1>9. /\ r.kind = "operator" /\ r.operator = op /\ r.threshold = <<>>
      /\ r.k = (IF n.k = <<>> THEN n.threshold ELSE n.k) /\ r.weights = n.weights
  BY <1>7, <1>8
<1>10. IsTree(r)
  BY <1>6 DEF NormalTree
<1>11. SatKids(kids, env) = SatKids(n.children, env) /\ DOMAIN kids = 1 .. l
  BY DEF SatKids, IsRow
<1>12. CASE op \in Associative
  <2>1. PICK T : T = ToSet(Flattened(op, kids))
    OBVIOUS
  <2>2. /\ op = "AND" => (AllHold(T, env) <=> \A i \in 1 .. l : Satisfied(kids[i], env))
        /\ op = "OR" => (SomeHold(T, env) <=> \E i \in 1 .. l : Satisfied(kids[i], env))
    <3>1. \A i \in 1 .. Len(kids) : IsTree(kids[i])
      BY <1>2, <1>3
    <3>2. \A i \in 1 .. Len(kids) : IsOperator(kids[i], op) => kids[i].children \in Seq(S)
      BY <1>3, <1>4
    <3>3. /\ op = "AND" => (AllHold(ToSet(Flattened(op, kids)), env)
                              <=> \A i \in 1 .. Len(kids) : Satisfied(kids[i], env))
          /\ op = "OR" => (SomeHold(ToSet(Flattened(op, kids)), env)
                             <=> \E i \in 1 .. Len(kids) : Satisfied(kids[i], env))
      BY ONLY <1>3, <1>12, <3>1, <3>2, FlattenedHolds
    <3>4. QED  BY <1>3, <2>1, <3>3
  <2>3. /\ op = "AND" => (Satisfied(r, env) <=> AllHold(T, env))
        /\ op = "OR" => (Satisfied(r, env) <=> SomeHold(T, env))
    BY <1>6, <1>9, <1>10, <2>1, SetHolds
  <2>4. PICK U : U = ToSet(n.children)
    OBVIOUS
  <2>5. /\ op = "AND" => (Satisfied(n, env) <=> AllHold(U, env))
        /\ op = "OR" => (Satisfied(n, env) <=> SomeHold(U, env))
    BY <2>4, SetHolds
  <2>6. U = {n.children[i] : i \in 1 .. l}
    BY <2>4 DEF ToSet
  <2>7. /\ AllHold(U, env) <=> \A i \in 1 .. l : Satisfied(kids[i], env)
        /\ SomeHold(U, env) <=> \E i \in 1 .. l : Satisfied(kids[i], env)
    BY <2>6 DEF AllHold, SomeHold
  <2>8. Satisfied(r, env) <=> Satisfied(n, env)
    BY <1>12, <2>2, <2>3, <2>5, <2>7 DEF Associative
  <2>9. Satisfied(r, env) = HoldsFor(r, SatKids(u, env))
        /\ Satisfied(n, env) = HoldsFor(n, SatKids(n.children, env))
    BY <1>6, <1>9, <1>10, SatisfiedOperator
  <2>10. QED  BY <1>5, <2>8, <2>9
<1>13. CASE op \in {"NAND", "NOR"}
  <2>1. Flattened(op, kids) = kids
    BY <1>13 DEF Flattened, Associative
  <2>2. PICK T, U : T = ToSet(kids) /\ U = ToSet(n.children)
    OBVIOUS
  <2>3. /\ op = "NAND" => (Satisfied(r, env) <=> ~AllHold(T, env))
        /\ op = "NOR" => (Satisfied(r, env) <=> ~SomeHold(T, env))
    BY <1>6, <1>9, <1>10, <2>1, <2>2, SetHolds
  <2>4. /\ op = "NAND" => (Satisfied(n, env) <=> ~AllHold(U, env))
        /\ op = "NOR" => (Satisfied(n, env) <=> ~SomeHold(U, env))
    BY <2>2, SetHolds
  <2>5. T = {kids[i] : i \in 1 .. l} /\ U = {n.children[i] : i \in 1 .. l}
    BY <1>11, <2>2 DEF ToSet
  <2>6. /\ AllHold(T, env) <=> AllHold(U, env)
        /\ SomeHold(T, env) <=> SomeHold(U, env)
    BY <2>5 DEF AllHold, SomeHold
  <2>7. Satisfied(r, env) <=> Satisfied(n, env)
    BY <1>13, <2>3, <2>4, <2>6
  <2>8. Satisfied(r, env) = HoldsFor(r, SatKids(u, env))
        /\ Satisfied(n, env) = HoldsFor(n, SatKids(n.children, env))
    BY <1>6, <1>9, <1>10, SatisfiedOperator
  <2>9. QED  BY <1>5, <2>7, <2>8
<1>14. CASE op \in {"XOR", "MAJORITY", "THRESHOLD", "EXACTLY", "AT_MOST"}
  <2>1. u = Sorted(op, kids)
    BY <1>5, <1>14 DEF CanonicalChildren, Flattened, Unrepeated, Associative,
                       DuplicateInsensitive
  <2>2. op \in Commutative
    BY <1>14 DEF Commutative
  <2>3. /\ Len(u) = l
        /\ \E p : Permutes(p, kids, u)
    BY <1>2, <1>3, <2>1, <2>2, SortedFacts
  <2>4. PICK A, B : A = SatKids(n.children, env) /\ B = SatKids(u, env)
    OBVIOUS
  <2>5. Cardinality(A) = Cardinality(B)
    BY <1>11, <2>3, <2>4, PermutedCount
  <2>6. HoldsFor(n, B) = HoldsFor(r, B)
    BY <1>1, <1>6, <1>9, <2>3, HoldsForPromoted
  <2>7. HoldsFor(n, A) = HoldsFor(n, B)
    BY <1>14, <2>5, HoldsForCount
  <2>8. Satisfied(r, env) = HoldsFor(r, B) /\ Satisfied(n, env) = HoldsFor(n, A)
    BY <1>6, <1>9, <1>10, <2>4, SatisfiedOperator
  <2>9. QED  BY <1>5, <2>6, <2>7, <2>8
<1>15. CASE op \in {"NOT", "IMPLIES", "IFF", "WEIGHTED_THRESHOLD", "VETO"}
  <2>1. u = kids
    BY <1>5, <1>15 DEF CanonicalChildren, Flattened, Sorted, Unrepeated, Associative,
                       Commutative, DuplicateInsensitive
  <2>2. PICK A : A = SatKids(n.children, env)
    OBVIOUS
  <2>3. HoldsFor(n, A) = HoldsFor(r, A)
    BY <1>1, <1>3, <1>6, <1>9, <2>1, HoldsForPromoted
  <2>4. Satisfied(r, env) = HoldsFor(r, A) /\ Satisfied(n, env) = HoldsFor(n, A)
    BY <1>6, <1>9, <1>10, <1>11, <2>1, <2>2, SatisfiedOperator
  <2>5. QED  BY <1>5, <2>3, <2>4
<1>16. op \in Associative \cup {"NAND", "NOR"}
              \cup {"XOR", "MAJORITY", "THRESHOLD", "EXACTLY", "AT_MOST"}
              \cup {"NOT", "IMPLIES", "IFF", "WEIGHTED_THRESHOLD", "VETO"}
  <2>1. \A i \in DOMAIN OperatorNames :
          OperatorNames[i] \in
            {"AND", "OR", "NOT", "IMPLIES", "IFF", "THRESHOLD", "WEIGHTED_THRESHOLD",
             "MAJORITY", "EXACTLY", "AT_MOST", "VETO", "NOR", "NAND", "XOR"}
    BY DEF OperatorNames
  <2>2. op \in {OperatorNames[i] : i \in DOMAIN OperatorNames}
    BY DEF Operators, ToSet
  <2>3. QED  BY <2>1, <2>2 DEF Associative
<1>17. QED  BY <1>12, <1>13, <1>14, <1>15, <1>16

LEMMA CanonicalMeans ==
  ASSUME NEW root, IsTree(root), Known(root), NEW env
  PROVE  Satisfied(Canonical(root), env) <=> Satisfied(root, env)
<1> DEFINE P == {n \in Subtrees(root) : Satisfied(Canonical(n), env) <=> Satisfied(n, env)}
<1>1. ASSUME NEW n \in Subtrees(root), ToSet(Children(n)) \subseteq P
      PROVE  Satisfied(Canonical(n), env) <=> Satisfied(n, env)
  <2>1. IsTree(n) /\ IsNode(n) /\ Finite(n)
    BY TreeParts
  <2>2. PICK kids : kids = [i \in DOMAIN Children(n) |-> Canonical(Children(n)[i])]
    OBVIOUS
  <2>3. Canonical(n) = CanonicalNode(n, kids)
    BY <2>1, <2>2, CanonicalRule
  <2>4. CASE n.kind = "operator"
    <3>1. PICK l \in Nat : DOMAIN Children(n) = 1 .. l
      BY <2>1, NodeChildren
    <3>2. \A i \in 1 .. l : kids[i] = Canonical(Children(n)[i]) /\ Children(n)[i] \in P
      BY <1>1, <2>2, <3>1 DEF ToSet
    <3>3. \A i \in 1 .. l : NormalTree(kids[i])
      <4> SUFFICES ASSUME NEW i \in 1 .. l  PROVE NormalTree(kids[i])
        OBVIOUS
      <4>1. PICK c : c = Children(n)[i]
        OBVIOUS
      <4>2. c \in Subtrees(root)
        BY <3>2, <4>1
      <4>3. IsTree(c)
        BY <4>2, TreeParts
      <4>4. Known(c)
        <5>1. Subtrees(c) \subseteq Subtrees(root)
          BY <4>2, TreeParts, SubtreeFacts
        <5>2. QED  BY <5>1 DEF Known
      <4>5. QED  BY <3>2, <4>1, <4>3, <4>4, CanonicalIsNormal
    <3>4. IsRow(kids, l)
      BY <2>2, <3>1 DEF IsRow
    <3>5. n.operator \in Operators /\ Children(n) = n.children
      BY <2>4 DEF Known, Children
    <3>6. \A i \in 1 .. l : (Satisfied(kids[i], env) <=> Satisfied(n.children[i], env))
      BY <3>2, <3>5
    <3>7. Satisfied(CanonicalNode(n, kids), env) <=> Satisfied(n, env)
      BY <2>1, <2>4, <3>1, <3>3, <3>4, <3>5, <3>6, CanonicalOperatorMeans
    <3>8. QED  BY <2>3, <3>7
  <2>5. CASE n.kind # "operator"
    <3>1. n.kind = "condition"
      BY <2>1, <2>5 DEF IsNode
    <3>2. QED  BY <2>3, <3>1 DEF CanonicalNode
  <2>6. QED  BY <2>4, <2>5
<1>2. Finite(root)
  BY TreeParts
<1>3. Subtrees(root) \subseteq P
  <2>1. \A n \in Subtrees(root) : ToSet(Children(n)) \subseteq P => n \in P
    BY <1>1
  <2> HIDE DEF P
  <2>2. QED  BY <1>2, <2>1, TreeInduction
<1>4. root \in Subtrees(root)
  BY <1>2, SubtreeFacts
<1>5. QED  BY <1>3, <1>4

-----------------------------------------------------------------------------
(* What the builder makes of a configuration means what was written.       *)

LEMMA HoldsForType ==
  ASSUME NEW n, NEW sat
  PROVE  HoldsFor(n, sat) \in BOOLEAN
<1>1. CASE n.operator \in {"AND", "OR", "NOT", "IMPLIES", "IFF"}
  BY <1>1 DEF HoldsFor
<1>2. CASE n.operator \in {"THRESHOLD", "WEIGHTED_THRESHOLD", "MAJORITY", "EXACTLY", "AT_MOST"}
  <2>1. CASE n.operator = "THRESHOLD"
    BY <2>1 DEF HoldsFor
  <2>2. CASE n.operator = "WEIGHTED_THRESHOLD"
    <3>1. PICK k, x : /\ k = (IF n.k = <<>> THEN n.threshold ELSE n.k)
                      /\ x = Weigh([i \in 1 .. Len(n.children) |->
                                      IF n.weights # <<>> /\ i \in DOMAIN n.weights[1]
                                      THEN n.weights[1][i] ELSE 0], sat)
      OBVIOUS
    <3>2. HoldsFor(n, sat) = (k # <<>> /\ x >= k[1])
      BY <2>2, <3>1 DEF HoldsFor
    <3>3. QED  BY <3>2
  <2>3. CASE n.operator = "MAJORITY"
    BY <2>3 DEF HoldsFor
  <2>4. CASE n.operator = "EXACTLY"
    BY <2>4 DEF HoldsFor
  <2>5. CASE n.operator = "AT_MOST"
    BY <2>5 DEF HoldsFor
  <2>6. QED  BY <1>2, <2>1, <2>2, <2>3, <2>4, <2>5
<1>3. CASE n.operator \in {"VETO", "NOR", "NAND", "XOR"}
  BY <1>3 DEF HoldsFor
<1>4. CASE n.operator \notin
             {"AND", "OR", "NOT", "IMPLIES", "IFF", "THRESHOLD", "WEIGHTED_THRESHOLD",
              "MAJORITY", "EXACTLY", "AT_MOST", "VETO", "NOR", "NAND", "XOR"}
  BY <1>4 DEF HoldsFor
<1>5. QED  BY <1>1, <1>2, <1>3, <1>4

\* What a weighted threshold weighs a child with.
WeightAt(node, i) ==
  IF node.weights # <<>> /\ i \in DOMAIN node.weights[1] THEN node.weights[1][i] ELSE 0

LEMMA HoldsForWeights ==
  ASSUME NEW n, NEW m, NEW sat, NEW l \in Nat, n.operator = m.operator, n.k = m.k,
         n.threshold = m.threshold, Len(n.children) = l, Len(m.children) = l,
         \A i \in 1 .. l : WeightAt(n, i) = WeightAt(m, i)
  PROVE  HoldsFor(n, sat) = HoldsFor(m, sat)
<1> DEFINE weights(node) ==
             [i \in 1 .. Len(node.children) |->
                IF node.weights # <<>> /\ i \in DOMAIN node.weights[1]
                THEN node.weights[1][i] ELSE 0]
<1>1. weights(n) = weights(m)
  BY DEF WeightAt
<1>2. PICK w : w = weights(n)
  OBVIOUS
<1>3. Weigh(weights(n), sat) = Weigh(w, sat) /\ Weigh(weights(m), sat) = Weigh(w, sat)
  BY <1>1, <1>2
<1>4. CASE n.operator = "WEIGHTED_THRESHOLD"
  <2>1. HoldsFor(n, sat) = (LET k == IF n.k = <<>> THEN n.threshold ELSE n.k
                            IN k # <<>> /\ Weigh(weights(n), sat) >= k[1])
    BY <1>4 DEF HoldsFor
  <2>2. HoldsFor(m, sat) = (LET k == IF m.k = <<>> THEN m.threshold ELSE m.k
                            IN k # <<>> /\ Weigh(weights(m), sat) >= k[1])
    BY <1>4 DEF HoldsFor
  <2>3. QED  BY <1>3, <2>1, <2>2
<1>5. CASE n.operator # "WEIGHTED_THRESHOLD"
  <2> HIDE DEF weights
  <2>1. QED  BY <1>5 DEF HoldsFor
<1>6. QED  BY <1>4, <1>5

LEMMA SmallSat ==
  ASSUME NEW c, NEW env, NEW kids, kids = <<c>>
  PROVE  /\ SatKids(kids, env) \subseteq {1}
         /\ 1 \in SatKids(kids, env) <=> Satisfied(c, env)
<1>1. DOMAIN kids = {1} /\ kids[1] = c
  OBVIOUS
<1>2. QED  BY <1>1 DEF SatKids

LEMMA NotMeans ==
  ASSUME NEW c, IsTree(c), NEW env
  PROVE  Satisfied(Operator("NOT", <<c>>), env) <=> ~Satisfied(c, env)
<1>1. PICK n : n = Operator("NOT", <<c>>)
  OBVIOUS
<1>2. IsTree(n) /\ n.kind = "operator" /\ n.operator = "NOT" /\ n.children = <<c>>
  BY <1>1, OperatorTexts, SmallTree
<1>3. PICK sat : sat = SatKids(<<c>>, env)
  OBVIOUS
<1>4. Satisfied(n, env) = HoldsFor(n, sat)
  BY <1>2, <1>3, SatisfiedOperator
<1>5. HoldsFor(n, sat) <=> 1 \notin sat
  BY <1>2 DEF HoldsFor
<1>6. 1 \in sat <=> Satisfied(c, env)
  BY <1>3, SmallSat
<1>7. QED  BY <1>1, <1>4, <1>5, <1>6

LEMMA NegatedMeans ==
  ASSUME NEW cfg, cfg.useNot \in BOOLEAN, NEW n, IsTree(n), NEW env,
         NEW b \in BOOLEAN, Satisfied(n, env) <=> b
  PROVE  Satisfied(Negated(cfg, n), env) <=> b # cfg.useNot
<1>1. CASE cfg.useNot = TRUE
  <2>1. Negated(cfg, n) = Operator("NOT", <<n>>)
    BY <1>1 DEF Negated
  <2>2. QED  BY <1>1, <2>1, NotMeans
<1>2. CASE cfg.useNot = FALSE
  <2>1. Negated(cfg, n) = n
    BY <1>2 DEF Negated
  <2>2. QED  BY <1>2, <2>1
<1>3. QED  BY <1>1, <1>2

LEMMA ConditionMeans ==
  ASSUME NEW c, IsTree(c), c.kind = "condition", NEW env
  PROVE  Satisfied(c, env) <=> AtomOf(c) \in env
<1>1. PICK kids : kids = [i \in DOMAIN Children(c) |-> Satisfied(Children(c)[i], env)]
  OBVIOUS
<1>2. Satisfied(c, env) = NodeSatisfied(c, kids, env)
  BY <1>1, TreeParts, SatisfiedRule
<1>3. QED  BY <1>2 DEF NodeSatisfied

\* What is known of a configuration and the nodes made of its children.
Translating(cfg, l, kids, ch, env) ==
  /\ IsConfig(cfg) /\ IsRow(ConfigChildren(cfg), l) /\ DOMAIN ConfigChildren(cfg) = 1 .. l
  /\ Len(ConfigChildren(cfg)) = l
  /\ IsUnary(cfg) => l = 1
  /\ \A i \in 1 .. l : IsConfig(ConfigChildren(cfg)[i])
  /\ IsRow(kids, l) /\ IsRow(ch, l)
  /\ \A i \in 1 .. l : IsTree(kids[i]) /\ (Satisfied(kids[i], env) <=> ch[i])

LEMMA TranslatedSat ==
  ASSUME NEW cfg, NEW l \in Nat, NEW kids, NEW ch, NEW env,
         Translating(cfg, l, kids, ch, env)
  PROVE  SatKids(kids, env) = {i \in DOMAIN ch : ch[i]}
<1>1. DOMAIN kids = 1 .. l /\ DOMAIN ch = 1 .. l
  BY DEF Translating, IsRow
<1>2. \A i \in 1 .. l : Satisfied(kids[i], env) <=> ch[i]
  BY DEF Translating
<1>3. QED  BY <1>1, <1>2 DEF SatKids

\* The reference's operator over the configurations, and the one that was made.
LEMMA RiggedMeans ==
  ASSUME NEW cfg, NEW l \in Nat, NEW kids, NEW ch, NEW env,
         Translating(cfg, l, kids, ch, env),
         NEW op \in ToSet(Texts), NEW k \in Optional(Int), NEW ws \in Optional(Seq(Int)),
         NEW vs, NEW n, Rigged(n, op, kids, k, ws),
         NEW m, Rigged(m, op, ConfigChildren(cfg), k, vs),
         \A i \in 1 .. l : WeightAt(n, i) = WeightAt(m, i)
  PROVE  /\ IsTree(n)
         /\ Satisfied(n, env) = HoldsFor(m, {i \in DOMAIN ch : ch[i]})
<1>1. /\ IsRow(kids, l) /\ Len(ConfigChildren(cfg)) = l
      /\ \A i \in 1 .. l : IsTree(kids[i])
  BY DEF Translating
<1>2. /\ IsTree(n) /\ n.kind = "operator" /\ n.operator = op /\ n.children = kids
      /\ n.k = k /\ n.threshold = <<>>
  BY <1>1, OperatorTree
<1>3. m = [kind |-> "operator", operator |-> op, children |-> ConfigChildren(cfg), k |-> k,
           weights |-> vs, threshold |-> <<>>, weight |-> <<>>]
  BY DEF Rigged, Operator
<1>4. m.operator = op /\ m.k = k /\ m.threshold = <<>> /\ m.children = ConfigChildren(cfg)
  BY ONLY <1>3
<1>5. Len(kids) = l
  <2>1. kids \in [1 .. l -> {kids[i] : i \in 1 .. l}]
    BY <1>1 DEF IsRow
  <2>2. QED  BY <2>1, FunctionIsSeq
<1>6. PICK sat : sat = {i \in DOMAIN ch : ch[i]}
  OBVIOUS
<1>7. SatKids(kids, env) = sat
  BY <1>6, TranslatedSat
<1>8. Satisfied(n, env) = HoldsFor(n, sat)
  BY <1>2, <1>7, SatisfiedOperator
<1>9. HoldsFor(n, sat) = HoldsFor(m, sat)
  BY <1>1, <1>2, <1>4, <1>5, HoldsForWeights
<1>10. QED  BY <1>2, <1>6, <1>8, <1>9

\* The fields of the reference's operator.
MeantOperator(cfg) ==
  [Operator(OperatorOf(cfg.op), ConfigChildren(cfg)) EXCEPT
     !.k = FirstGiven(<<cfg.threshold, cfg.paramThreshold, cfg.paramK>>),
     !.weights = IF IsBinary(cfg) THEN <<>>
                 ELSE IF cfg.weights # <<>> THEN cfg.weights ELSE <<OwnWeights(cfg)>>]

LEMMA BinaryMeans ==
  ASSUME NEW cfg, NEW l \in Nat, NEW kids, NEW ch, NEW env,
         Translating(cfg, l, kids, ch, env), IsBinary(cfg)
  PROVE  Satisfied(TranslatedNode(cfg, kids), env)
           <=> HoldsFor(MeantOperator(cfg), {i \in DOMAIN ch : ch[i]}) # cfg.useNot
<1> DEFINE e == <<>>
<1>1. /\ OperatorOf(cfg.op) \in ToSet(Texts) /\ cfg.threshold \in Optional(Int)
      /\ cfg.paramThreshold = e /\ cfg.paramK = e /\ cfg.useNot \in BOOLEAN
  BY DEF Translating, IsConfig
<1>2. FirstGiven(<<cfg.threshold, cfg.paramThreshold, cfg.paramK>>) = cfg.threshold
  BY <1>1, FirstGivenIs
<1>3. PICK n, m : /\ n = [Operator(OperatorOf(cfg.op), kids) EXCEPT !.k = cfg.threshold]
                  /\ m = MeantOperator(cfg)
  OBVIOUS
<1>4. Rigged(n, OperatorOf(cfg.op), kids, cfg.threshold, e)
  <2>1. PICK o : o = Operator(OperatorOf(cfg.op), kids)
    OBVIOUS
  <2>2. o = [kind |-> "operator", operator |-> OperatorOf(cfg.op), children |-> kids,
             k |-> <<>>, weights |-> <<>>, threshold |-> <<>>, weight |-> <<>>]
        /\ o.weights = <<>>
    BY <2>1 DEF Operator
  <2>3. [o EXCEPT !.k = cfg.threshold] = [o EXCEPT !.k = cfg.threshold, !.weights = <<>>]
    BY ONLY <2>2
  <2>4. QED  BY <1>3, <2>1, <2>3 DEF Rigged
<1>5. Rigged(m, OperatorOf(cfg.op), ConfigChildren(cfg), cfg.threshold, e)
  BY <1>2, <1>3 DEF Rigged, MeantOperator
<1>6. n.weights = e /\ m.weights = e
  <2>1. PICK o, q : /\ o = Operator(OperatorOf(cfg.op), kids)
                    /\ q = Operator(OperatorOf(cfg.op), ConfigChildren(cfg))
    OBVIOUS
  <2>2. "weights" \in DOMAIN o /\ "weights" \in DOMAIN q
    BY <2>1 DEF Operator
  <2>3. n = [o EXCEPT !.k = cfg.threshold, !.weights = e]
        /\ m = [q EXCEPT !.k = cfg.threshold, !.weights = e]
    BY <1>4, <1>5, <2>1 DEF Rigged
  <2>4. QED  BY <2>2, <2>3
<1>7. \A i \in 1 .. l : WeightAt(n, i) = WeightAt(m, i)
  BY <1>6 DEF WeightAt
<1>8. e \in Optional(Seq(Int))
  BY OptionalIs
<1> HIDE DEF e
<1>9. PICK b : b = HoldsFor(m, {i \in DOMAIN ch : ch[i]})
  OBVIOUS
<1>10. IsTree(n) /\ Satisfied(n, env) = b
  <2>1. PICK op, k, ws, vs : op = OperatorOf(cfg.op) /\ k = cfg.threshold /\ ws = e /\ vs = e
    OBVIOUS
  <2>2. op \in ToSet(Texts) /\ k \in Optional(Int) /\ ws \in Optional(Seq(Int))
    BY <1>1, <1>8, <2>1
  <2>3. Rigged(n, op, kids, k, ws) /\ Rigged(m, op, ConfigChildren(cfg), k, vs)
    BY <1>4, <1>5, <2>1
  <2>4. PICK t : t = HoldsFor(m, {i \in DOMAIN ch : ch[i]})
    OBVIOUS
  <2>5. IsTree(n) /\ Satisfied(n, env) = t
    BY <1>7, <2>2, <2>3, <2>4, RiggedMeans
  <2>6. QED  BY <1>9, <2>4, <2>5
<1>11. b \in BOOLEAN
  BY <1>9, HoldsForType
<1>12. TranslatedNode(cfg, kids) = Negated(cfg, n)
  BY <1>3 DEF TranslatedNode
<1>13. Satisfied(Negated(cfg, n), env) <=> b # cfg.useNot
  BY <1>1, <1>10, <1>11, NegatedMeans
<1>14. QED  BY <1>3, <1>9, <1>12, <1>13

LEMMA GroupMeans ==
  ASSUME NEW cfg, NEW l \in Nat, NEW kids, NEW ch, NEW env,
         Translating(cfg, l, kids, ch, env), ~IsBinary(cfg), ~IsUnary(cfg), IsGroup(cfg)
  PROVE  Satisfied(TranslatedNode(cfg, kids), env)
           <=> HoldsFor(MeantOperator(cfg), {i \in DOMAIN ch : ch[i]}) # cfg.useNot
<1> DEFINE k == FirstGiven(<<cfg.threshold, cfg.paramThreshold, cfg.paramK>>)
           ws == WeightsOf(cfg)
           vs == IF cfg.weights # <<>> THEN cfg.weights ELSE <<OwnWeights(cfg)>>
<1>1. /\ OperatorOf(cfg.op) \in ToSet(Texts) /\ cfg.threshold \in Optional(Int)
      /\ cfg.paramThreshold \in Optional(Int) /\ cfg.paramK \in Optional(Int)
      /\ cfg.useNot \in BOOLEAN /\ IsConfig(cfg)
      /\ \A i \in DOMAIN ConfigChildren(cfg) : IsConfig(ConfigChildren(cfg)[i])
  BY DEF Translating, IsConfig
<1>2. k \in Optional(Int)
  BY <1>1, FirstGivenIs
<1>3. ws \in Optional(Seq(Int))
  BY <1>1, GroupWeightsType
<1>4. PICK n, m : /\ n = [Operator(OperatorOf(cfg.op), kids) EXCEPT !.k = k, !.weights = ws]
                  /\ m = MeantOperator(cfg)
  OBVIOUS
<1>5. Rigged(n, OperatorOf(cfg.op), kids, k, ws)
  BY <1>4 DEF Rigged
<1>6. Rigged(m, OperatorOf(cfg.op), ConfigChildren(cfg), k, vs)
  BY <1>4 DEF Rigged, MeantOperator
<1>7. n.weights = ws /\ m.weights = vs
  <2>1. PICK o, q : /\ o = Operator(OperatorOf(cfg.op), kids)
                    /\ q = Operator(OperatorOf(cfg.op), ConfigChildren(cfg))
    OBVIOUS
  <2>2. "weights" \in DOMAIN o /\ "weights" \in DOMAIN q
    BY <2>1 DEF Operator
  <2>3. n = [o EXCEPT !.k = k, !.weights = ws] /\ m = [q EXCEPT !.k = k, !.weights = vs]
    BY <1>5, <1>6, <2>1 DEF Rigged
  <2> HIDE DEF k, ws, vs
  <2>4. QED  BY <2>2, <2>3
<1>8. \A i \in 1 .. l : WeightAt(n, i) = WeightAt(m, i)
  <2>1. CASE ws = vs
    <3> HIDE DEF ws, vs
    <3>1. QED  BY <1>7, <2>1 DEF WeightAt
  <2>2. CASE ws # vs
    <3>1. PICK row : row = cfg.kids[1]
      OBVIOUS
    <3>2. DOMAIN row = 1 .. l
      BY <3>1 DEF Translating, ConfigChildren, IsGroup
    <3>3. PICK own : own = OwnWeights(cfg)
      OBVIOUS
    <3>4. own = [i \in 1 .. l |-> IF row[i].weight = <<>> THEN cfg.defaultWeight
                                  ELSE row[i].weight[1]]
      BY <3>1, <3>2, <3>3 DEF OwnWeights
    <3>5. /\ cfg.weights = <<>> /\ ws = <<>> /\ vs = <<own>> /\ cfg.defaultWeight = 0
          /\ \A i \in 1 .. l : row[i].weight = <<>>
      BY <2>2, <3>1, <3>2, <3>3 DEF WeightsOf, OwnWeights
    <3>6. \A i \in 1 .. l : own[i] = 0
      BY <3>4, <3>5
    <3>7. n.weights = <<>> /\ m.weights = <<own>>
      BY <1>7, <3>5
    <3>8. m.weights[1] = own
      BY <3>7
    <3>9. QED  BY <3>6, <3>7, <3>8 DEF WeightAt
  <2>3. QED  BY <2>1, <2>2
<1>9. TranslatedNode(cfg, kids) = Negated(cfg, n)
  BY <1>4 DEF TranslatedNode
<1> HIDE DEF k, ws, vs
<1>10. PICK b : b = HoldsFor(m, {i \in DOMAIN ch : ch[i]})
  OBVIOUS
<1>11. IsTree(n) /\ Satisfied(n, env) = b
  BY <1>1, <1>2, <1>3, <1>5, <1>6, <1>8, <1>10, RiggedMeans
<1>12. b \in BOOLEAN
  BY <1>10, HoldsForType
<1>13. Satisfied(Negated(cfg, n), env) <=> b # cfg.useNot
  BY <1>1, <1>11, <1>12, NegatedMeans
<1>14. QED  BY <1>4, <1>9, <1>10, <1>13

LEMMA UnaryMeans ==
  ASSUME NEW cfg, NEW l \in Nat, NEW kids, NEW ch, NEW env,
         Translating(cfg, l, kids, ch, env), ~IsBinary(cfg), IsUnary(cfg)
  PROVE  Satisfied(TranslatedNode(cfg, kids), env) <=> {i \in DOMAIN ch : ch[i]} = {}
<1>1. l = 1 /\ IsTree(kids[1]) /\ kids = [i \in 1 .. 1 |-> kids[i]]
  BY DEF Translating, IsRow
<1>2. PICK c : c = kids[1]
  OBVIOUS
<1>3. kids = <<c>> /\ IsTree(c)
  BY <1>1, <1>2
<1>4. TranslatedNode(cfg, kids) = Operator("NOT", <<c>>)
  BY <1>3 DEF TranslatedNode
<1>5. Satisfied(Operator("NOT", <<c>>), env) <=> ~Satisfied(c, env)
  BY <1>3, NotMeans
<1>6. SatKids(kids, env) = {} <=> ~Satisfied(c, env)
  BY <1>3, SmallSat
<1>7. QED  BY <1>4, <1>5, <1>6, TranslatedSat

LEMMA LeafMeans ==
  ASSUME NEW cfg, IsConfig(cfg), ~IsBinary(cfg), ~IsUnary(cfg), ~IsGroup(cfg), NEW kids,
         NEW env
  PROVE  Satisfied(TranslatedNode(cfg, kids), env)
           <=> (AtomOf(Condition(cfg.type, LeafParams(cfg))) \in env) # cfg.useNot
<1>1. PICK c : c = Condition(cfg.type, LeafParams(cfg))
  OBVIOUS
<1>2. IsTree(c) /\ c.kind = "condition"
  BY <1>1, LeafParamsType, ConditionTree DEF IsConfig
<1>3. PICK b : b = (AtomOf(c) \in env)
  OBVIOUS
<1>4. b \in BOOLEAN /\ (Satisfied(c, env) <=> b)
  <2>1. Satisfied(c, env) <=> AtomOf(c) \in env
    BY <1>2, ConditionMeans
  <2>2. b \in BOOLEAN
    BY <1>3
  <2>3. b <=> AtomOf(c) \in env
    BY <1>3
  <2>4. QED  BY <2>1, <2>2, <2>3
<1>5. cfg.useNot \in BOOLEAN
  BY DEF IsConfig
<1>6. Satisfied(Negated(cfg, c), env) <=> b # cfg.useNot
  BY <1>2, <1>4, <1>5, NegatedMeans
<1>7. TranslatedNode(cfg, kids) = Negated(cfg, c)
  BY <1>1 DEF TranslatedNode
<1>8. QED  BY <1>1, <1>3, <1>6, <1>7

LEMMA NodeMeans ==
  ASSUME NEW cfg, NEW l \in Nat, NEW kids, NEW ch, NEW env,
         Translating(cfg, l, kids, ch, env), ~(IsUnary(cfg) /\ cfg.useNot)
  PROVE  Satisfied(TranslatedNode(cfg, kids), env) <=> MeantNode(cfg, ch, env)
<1> DEFINE sat == {i \in DOMAIN ch : ch[i]}
<1>1. MeantNode(cfg, ch, env) =
        IF IsUnary(cfg) THEN (sat = {}) # cfg.useNot
        ELSE IF IsBinary(cfg) \/ IsGroup(cfg)
        THEN HoldsFor(MeantOperator(cfg), sat) # cfg.useNot
        ELSE (AtomOf(Condition(cfg.type, LeafParams(cfg))) \in env) # cfg.useNot
  BY DEF MeantNode, MeantOperator
<1>2. CASE IsBinary(cfg)
  <2>1. ~IsUnary(cfg)
    BY <1>2 DEF IsUnary
  <2>2. Satisfied(TranslatedNode(cfg, kids), env)
          <=> HoldsFor(MeantOperator(cfg), sat) # cfg.useNot
    BY <1>2, BinaryMeans
  <2> HIDE DEF sat
  <2>3. QED  BY <1>1, <1>2, <2>1, <2>2
<1>3. CASE ~IsBinary(cfg) /\ IsUnary(cfg)
  <2>1. Satisfied(TranslatedNode(cfg, kids), env) <=> sat = {}
    BY <1>3, UnaryMeans
  <2> HIDE DEF sat
  <2>2. cfg.useNot = FALSE
    BY <1>3 DEF Translating, IsConfig
  <2>3. PICK b \in BOOLEAN : b = (sat = {})
    OBVIOUS
  <2>4. b # cfg.useNot <=> b
    BY <2>2
  <2>5. QED  BY <1>1, <1>3, <2>1, <2>3, <2>4
<1>4. CASE ~IsBinary(cfg) /\ ~IsUnary(cfg) /\ IsGroup(cfg)
  <2>1. Satisfied(TranslatedNode(cfg, kids), env)
          <=> HoldsFor(MeantOperator(cfg), sat) # cfg.useNot
    BY <1>4, GroupMeans
  <2> HIDE DEF sat
  <2>2. QED  BY <1>1, <1>4, <2>1
<1>5. CASE ~IsBinary(cfg) /\ ~IsUnary(cfg) /\ ~IsGroup(cfg)
  <2>1. IsConfig(cfg)
    BY DEF Translating
  <2>2. Satisfied(TranslatedNode(cfg, kids), env)
          <=> (AtomOf(Condition(cfg.type, LeafParams(cfg))) \in env) # cfg.useNot
    BY <1>5, <2>1, LeafMeans
  <2> HIDE DEF sat
  <2>3. QED  BY <1>1, <1>5, <2>2
<1>6. QED  BY <1>2, <1>3, <1>4, <1>5

\* A configuration and the node it becomes hold in the same environments, where
\* no unary NOT of it is to be negated.
Negatable(root) == \A cfg \in Subconfigs(root) : ~(IsUnary(cfg) /\ cfg.useNot)

LEMMA PoetNodeMeans ==
  ASSUME NEW root, IsConfigTree(root), Negatable(root), NEW env
  PROVE  Satisfied(PoetNode(root), env) <=> ConfigSatisfied(root, env)
<1> DEFINE P == {cfg \in Subconfigs(root) :
                   Satisfied(PoetNode(cfg), env) <=> ConfigSatisfied(cfg, env)}
<1>1. ASSUME NEW cfg \in Subconfigs(root), ToSet(ConfigChildren(cfg)) \subseteq P
      PROVE  cfg \in P
  <2>1. IsConfigTree(cfg)
    BY ConfigParts
  <2>2. PICK l \in Nat : /\ IsRow(ConfigChildren(cfg), l)
                         /\ DOMAIN ConfigChildren(cfg) = 1 .. l
                         /\ Len(ConfigChildren(cfg)) = l
                         /\ IsUnary(cfg) => l = 1
    BY <2>1, ConfigParts, ConfigKids
  <2>3. PICK kids, ch : /\ kids = [i \in 1 .. l |-> PoetNode(ConfigChildren(cfg)[i])]
                        /\ ch = [i \in 1 .. l |-> ConfigSatisfied(ConfigChildren(cfg)[i], env)]
    OBVIOUS
  <2>4. PoetNode(cfg) = TranslatedNode(cfg, kids)
    BY <2>1, <2>2, <2>3, ConfigParts, PoetRule
  <2>5. ConfigSatisfied(cfg, env) = MeantNode(cfg, ch, env)
    BY <2>1, <2>2, <2>3, ConfigParts, ConfigRule
  <2>6. \A i \in 1 .. l : ConfigChildren(cfg)[i] \in P
    BY <1>1, <2>2 DEF ToSet
  <2>7. \A i \in 1 .. l : Satisfied(kids[i], env) <=> ch[i]
    BY <2>3, <2>6
  <2>8. \A i \in 1 .. l : IsConfigTree(ConfigChildren(cfg)[i])
    BY <2>1, <2>2, ConfigParts
  <2>9. \A i \in 1 .. l : IsTree(kids[i]) /\ IsConfig(ConfigChildren(cfg)[i])
    BY <2>3, <2>8, PoetNodeTree, ConfigParts
  <2>10. IsRow(kids, l) /\ IsRow(ch, l)
    BY <2>3 DEF IsRow
  <2>11. Translating(cfg, l, kids, ch, env)
    BY <2>1, <2>2, <2>7, <2>9, <2>10, ConfigParts DEF Translating
  <2>12. Satisfied(TranslatedNode(cfg, kids), env) <=> MeantNode(cfg, ch, env)
    BY <2>11, NodeMeans DEF Negatable
  <2>13. QED  BY <2>4, <2>5, <2>12
<1>2. Subconfigs(root) \subseteq P
  <2>1. FiniteConfig(root)
    BY DEF IsConfigTree
  <2> HIDE DEF P
  <2>2. QED  BY <1>1, <2>1, ConfigInduction
<1>3. QED  BY <1>2, ConfigParts

LEMMA PoetMeans ==
  ASSUME NEW root, IsConfigTree(root), Negatable(root), NEW env
  PROVE  Satisfied(PoetPolicy(root), env) <=> ConfigSatisfied(root, env)
<1>1. PICK c, n : c = PoetNode(root) /\ n = Operator("AND", <<c>>)
  OBVIOUS
<1>2. IsTree(c) /\ (Satisfied(c, env) <=> ConfigSatisfied(root, env))
  BY <1>1, PoetNodeTree, PoetNodeMeans
<1>3. Satisfied(n, env) <=> Satisfied(c, env)
  <2>1. /\ IsTree(n) /\ n.kind = "operator" /\ n.operator = "AND" /\ n.children = <<c>>
    BY <1>1, <1>2, OperatorTexts, SmallTree
  <2>2. Satisfied(n, env) <=> AllHold(ToSet(n.children), env)
    BY <2>1, SetHolds
  <2>3. ToSet(n.children) = {c}
    BY <2>1 DEF ToSet
  <2>4. QED  BY <2>2, <2>3 DEF AllHold
<1>4. PoetPolicy(root) = c \/ PoetPolicy(root) = n
  BY <1>1 DEF PoetPolicy
<1>5. QED  BY <1>2, <1>3, <1>4

\* A policy and the clause, joined, hold where both do.
LEMMA JoinedMeans ==
  ASSUME NEW sys, sys = SystemClause(SystemTemplate),
         NEW user, PlainTree(user), Composes(sys, user),
         NEW n, n = Operator("AND", <<sys, user>>), NEW env
  PROVE  Satisfied(Canonical(n), env) <=> AtomOf(sys) \in env /\ Satisfied(user, env)
<1>1. /\ IsTree(n) /\ Known(n) /\ n.kind = "operator" /\ n.operator = "AND"
      /\ n.children = <<sys, user>> /\ IsTree(sys)
  BY JoinedFacts
<1>2. sys.kind = "condition"
  BY SystemFacts
<1>3. Satisfied(n, env) <=> AllHold(ToSet(n.children), env)
  BY <1>1, SetHolds
<1>4. ToSet(n.children) = {sys, user}
  <2>1. DOMAIN <<sys, user>> = {1, 2} /\ <<sys, user>>[1] = sys /\ <<sys, user>>[2] = user
    OBVIOUS
  <2>2. QED  BY <1>1, <2>1 DEF ToSet
<1>5. AllHold({sys, user}, env) <=> Satisfied(sys, env) /\ Satisfied(user, env)
  BY DEF AllHold
<1>6. Satisfied(sys, env) <=> AtomOf(sys) \in env
  BY <1>1, <1>2, ConditionMeans
<1>7. Satisfied(Canonical(n), env) <=> Satisfied(n, env)
  BY <1>1, CanonicalMeans
<1>8. QED  BY <1>3, <1>4, <1>5, <1>6, <1>7

-----------------------------------------------------------------------------
(* What the policy that is held, and the one that was stored, mean.        *)

SystemAtom == AtomOf(SystemClause(SystemTemplate))
Meant(root, isComposed) ==
  \A env : Satisfied(root, env) <=> SourceSatisfied(env) /\ (isComposed => SystemAtom \in env)

MeantInv ==
  /\ doc # <<>> => Meant(doc[1], composed)
  /\ stored # <<>> => Meant(Decoded(stored[1].bytes), stored[1].composed)

LEMMA SourceStays ==
  ASSUME source' = source
  PROVE  \A env : SourceSatisfied(env)' <=> SourceSatisfied(env)
BY DEF SourceSatisfied

\* What is stored keeps its meaning while neither it nor the source changes.
LEMMA StoredStays ==
  ASSUME MeantInv, source' = source, stored' = stored, stored # <<>>
  PROVE  Meant(Decoded(stored[1].bytes), stored[1].composed)'
<1>1. PICK root, c : root = Decoded(stored[1].bytes) /\ c = stored[1].composed
  OBVIOUS
<1>2. Decoded(stored[1].bytes)' = root /\ stored[1].composed' = c
  BY <1>1
<1>3. \A env : Satisfied(root, env) <=> SourceSatisfied(env) /\ (c => SystemAtom \in env)
  BY <1>1 DEF MeantInv, Meant
<1>4. QED  BY <1>2, <1>3, SourceStays DEF Meant, SystemAtom

\* A step that leaves the source and the store alone, and whose object means
\* what it should.
LEMMA MeantKept ==
  ASSUME MeantInv, source' = source, stored' = stored,
         NEW root, doc' = <<root>>, NEW c, composed' = c,
         \A env : Satisfied(root, env) <=> SourceSatisfied(env) /\ (c => SystemAtom \in env)
  PROVE  MeantInv'
<1>1. doc'[1] = root
  OBVIOUS
<1>2. \A env : Satisfied(root, env)
                 <=> SourceSatisfied(env)' /\ (c => SystemAtom \in env)
  BY SourceStays
<1>3. Meant(doc[1], composed)'
  BY <1>1, <1>2 DEF Meant, SystemAtom
<1>4. stored' # <<>> => Meant(Decoded(stored[1].bytes), stored[1].composed)'
  BY StoredStays
<1>5. QED  BY <1>3, <1>4 DEF MeantInv

LEMMA NothingMeant ==
  ASSUME MeantInv, source' = source, stored' = stored, doc' = doc, composed' = composed
  PROVE  MeantInv'
<1>1. stored' # <<>> => Meant(Decoded(stored[1].bytes), stored[1].composed)'
  BY StoredStays
<1>2. ASSUME doc # <<>>  PROVE Meant(doc[1], composed)'
  <2>1. PICK root, c : root = doc[1] /\ c = composed
    OBVIOUS
  <2>2. \A env : Satisfied(root, env) <=> SourceSatisfied(env) /\ (c => SystemAtom \in env)
    BY <1>2, <2>1 DEF MeantInv, Meant
  <2>3. doc'[1] = root /\ composed' = c
    BY <2>1
  <2>4. QED  BY <2>2, <2>3, SourceStays DEF Meant, SystemAtom
<1>3. QED  BY <1>1, <1>2 DEF MeantInv

\* What was authored is what is held, and nothing was composed or stored yet.
LEMMA HoldMeans ==
  ASSUME LaneInv, NEW root, NEW from, Hold(root, from),
         \A env : Satisfied(root, env)
                    <=> IF from.form = "config" THEN ConfigSatisfied(from.config, env)
                        ELSE Satisfied(from.root, env)
  PROVE  MeantInv'
<1>1. /\ doc = <<>> /\ doc' = <<root>> /\ source' = from /\ composed' = composed
      /\ stored' = stored
  BY DEF Hold, Nothing
<1>2. ~composed /\ stored = <<>>
  BY <1>1 DEF LaneInv
<1>3. \A env : SourceSatisfied(env)' <=> Satisfied(root, env)
  BY <1>1 DEF SourceSatisfied
<1>4. doc'[1] = root /\ ~composed' /\ stored' = <<>>
  BY <1>1, <1>2
<1>5. Meant(doc[1], composed)'
  BY <1>3, <1>4 DEF Meant
<1>6. QED  BY <1>4, <1>5 DEF MeantInv

LEMMA ConfigMeans ==
  ASSUME LaneInv, NEW cfg \in Configs, FromConfig(cfg), NoNegatedNot'
  PROVE  MeantInv'
<1>1. PICK root, from : root = PoetPolicy(cfg) /\ from = [form |-> "config", config |-> cfg]
  OBVIOUS
<1>2. Hold(root, from)
  BY <1>1 DEF FromConfig
<1>3. from.form = "config" /\ from.config = cfg
  BY <1>1
<1>4. Negatable(cfg)
  <2>1. source' = from
    BY <1>2 DEF Hold
  <2>2. QED  BY <1>3, <2>1 DEF NoNegatedNot, Negatable
<1>5. \A env : Satisfied(root, env) <=> ConfigSatisfied(cfg, env)
  BY <1>1, <1>4, ConfigsAreTrees, PoetMeans
<1>6. QED  BY <1>2, <1>3, <1>5, HoldMeans

LEMMA RootMeans ==
  ASSUME LaneInv, NEW root, Hold(root, [form |-> "root", root |-> root])
  PROVE  MeantInv'
<1>1. PICK from : from = [form |-> "root", root |-> root]
  OBVIOUS
<1>2. from.form # "config" /\ from.root = root
  BY <1>1
<1>3. Hold(root, from)
  BY <1>1
<1>4. QED  BY <1>2, <1>3, HoldMeans

LEMMA HeldMeans ==
  ASSUME MeantInv, doc # <<>>, NEW root, root = doc[1], NEW c, c = composed
  PROVE  \A env : Satisfied(root, env) <=> SourceSatisfied(env) /\ (c => SystemAtom \in env)
BY DEF MeantInv, Meant

LEMMA CanonicalizeMeans ==
  ASSUME LaneInv, MeantInv, Canonicalize
  PROVE  MeantInv'
<1>1. doc # <<>> /\ source' = source /\ stored' = stored /\ composed' = composed
  BY DEF Canonicalize
<1>2. PICK root, r, c : root = doc[1] /\ r = Canonical(root) /\ c = composed
  OBVIOUS
<1>3. CASE Canonicalizes(root)
  <2>1. doc' = <<r>> /\ composed' = c
    BY <1>1, <1>2, <1>3 DEF Canonicalize
  <2>2. IsTree(root) /\ Known(root)
    BY <1>1, <1>2, <1>3, CanonicalizesKnown DEF LaneInv, Held
  <2>3. \A env : Satisfied(r, env) <=> Satisfied(root, env)
    BY <1>2, <2>2, CanonicalMeans
  <2>4. \A env : Satisfied(r, env) <=> SourceSatisfied(env) /\ (c => SystemAtom \in env)
    BY <1>1, <1>2, <2>3, HeldMeans
  <2>5. QED  BY <1>1, <2>1, <2>4, MeantKept
<1>4. CASE ~Canonicalizes(root)
  <2>1. doc' = doc
    BY <1>2, <1>4 DEF Canonicalize
  <2>2. QED  BY <1>1, <2>1, NothingMeant
<1>5. QED  BY <1>3, <1>4

LEMMA ComposeMeans ==
  ASSUME LaneInv, MeantInv, Compose
  PROVE  MeantInv'
<1>1. doc # <<>> /\ IsAst /\ source' = source /\ stored' = stored
  BY DEF Compose
<1>2. PICK sys, user, c : /\ sys = SystemClause(SystemTemplate) /\ user = doc[1]
                          /\ c = composed
  OBVIOUS
<1>3. CASE Composes(sys, user)
  <2>1. PICK n : n = Operator("AND", <<sys, user>>)
    OBVIOUS
  <2>2. PICK r, t : r = Canonical(n) /\ t = TRUE
    OBVIOUS
  <2>3. doc' = <<r>> /\ composed' = t
    BY <1>2, <1>3, <2>1, <2>2 DEF Compose, EffectivePolicy
  <2>4. PlainTree(user)
    BY <1>1, <1>2 DEF LaneInv
  <2>5. \A env : Satisfied(r, env) <=> AtomOf(sys) \in env /\ Satisfied(user, env)
    BY <1>2, <1>3, <2>1, <2>2, <2>4, JoinedMeans
  <2>6. \A env : Satisfied(user, env)
                   <=> SourceSatisfied(env) /\ (c => SystemAtom \in env)
    BY <1>1, <1>2, HeldMeans
  <2>7. AtomOf(sys) = SystemAtom
    BY <1>2 DEF SystemAtom
  <2>8. \A env : Satisfied(r, env) <=> SourceSatisfied(env) /\ (t => SystemAtom \in env)
    BY <2>2, <2>5, <2>6, <2>7
  <2>9. QED  BY <1>1, <2>3, <2>8, MeantKept
<1>4. CASE ~Composes(sys, user)
  <2>1. doc' = doc /\ composed' = composed
    BY <1>2, <1>4 DEF Compose
  <2>2. QED  BY <1>1, <2>1, NothingMeant
<1>5. QED  BY <1>3, <1>4

LEMMA CreateMeans ==
  ASSUME LaneInv, MeantInv, CreateKey
  PROVE  MeantInv'
<1>1. doc # <<>> /\ source' = source /\ stored' = stored /\ composed' = composed
  BY DEF CreateKey
<1>2. PICK root, run, c : root = doc[1] /\ run = Normalised(root, frozen) /\ c = composed
  OBVIOUS
<1>3. PICK m : m = run.node
  OBVIOUS
<1>4. doc' = <<m>> /\ composed' = c
  BY <1>1, <1>2, <1>3 DEF CreateKey
<1>5. IsTree(root) /\ frozen \in BOOLEAN
  BY <1>1, <1>2 DEF LaneInv, Held
<1>6. Alike(root, m)
  BY <1>2, <1>3, <1>5, NormalisedFacts DEF Walked
<1>7. \A env : Satisfied(m, env) = Satisfied(root, env)
  BY ONLY <1>6 DEF Alike
<1>8. \A env : Satisfied(root, env) <=> SourceSatisfied(env) /\ (c => SystemAtom \in env)
  BY <1>1, <1>2, HeldMeans
<1>9. \A env : Satisfied(m, env) <=> SourceSatisfied(env) /\ (c => SystemAtom \in env)
  BY <1>7, <1>8
<1>10. QED  BY <1>1, <1>4, <1>9, MeantKept

LEMMA StoreMeans ==
  ASSUME LaneInv, MeantInv, Store
  PROVE  MeantInv'
<1>1. /\ doc # <<>> /\ IsAst /\ source' = source /\ doc' = doc /\ composed' = composed
  BY DEF Store
<1>2. PICK root, c : root = doc[1] /\ c = composed
  OBVIOUS
<1>3. \A env : Satisfied(root, env) <=> SourceSatisfied(env) /\ (c => SystemAtom \in env)
  BY <1>1, <1>2, HeldMeans
<1>4. \A env : Satisfied(root, env) <=> SourceSatisfied(env)' /\ (c => SystemAtom \in env)
  BY <1>1, <1>3, SourceStays
<1>5. CASE Encodable(root)
  <2>1. PICK entry : entry = [bytes |-> Encoded(root), composed |-> c]
    OBVIOUS
  <2>2. stored' = <<entry>> /\ entry.bytes = Encoded(root) /\ entry.composed = c
    BY <1>2, <1>5, <2>1 DEF Store
  <2>3. Decoded(entry.bytes) = root
    <3>1. IsTree(root) /\ \A n \in Subtrees(root) : Plain(n)
      BY <1>1, <1>2 DEF LaneInv, PlainTree
    <3>2. QED  BY <2>2, <3>1, RoundTripOf
  <2>4. stored'[1] = entry /\ stored'[1].composed = c /\ Decoded(stored'[1].bytes) = root
    BY <2>2, <2>3
  <2>5. doc'[1] = root /\ composed' = c
    BY <1>1, <1>2
  <2>6. Meant(doc[1], composed)'
    BY <1>4, <2>5 DEF Meant, SystemAtom
  <2>7. Meant(Decoded(stored[1].bytes), stored[1].composed)'
    BY <1>4, <2>4 DEF Meant, SystemAtom
  <2>8. QED  BY <2>6, <2>7 DEF MeantInv
<1>6. CASE ~Encodable(root)
  <2>1. stored' = stored
    BY <1>2, <1>6 DEF Store
  <2>2. QED  BY <1>1, <2>1, NothingMeant
<1>7. QED  BY <1>5, <1>6

LEMMA LoadMeans ==
  ASSUME LaneInv, MeantInv, Load
  PROVE  MeantInv'
<1>1. stored # <<>> /\ source' = source /\ stored' = stored
  BY DEF Load
<1>2. PICK root, c : root = Decoded(stored[1].bytes) /\ c = stored[1].composed
  OBVIOUS
<1>3. doc' = <<root>> /\ composed' = c
  BY <1>2 DEF Load
<1>4. \A env : Satisfied(root, env) <=> SourceSatisfied(env) /\ (c => SystemAtom \in env)
  BY <1>1, <1>2 DEF MeantInv, Meant
<1>5. QED  BY <1>1, <1>3, <1>4, MeantKept

\* What an author wrote can be told while no unary NOT is to be negated.
MeaningInv == NoNegatedNot => MeantInv

LEMMA NegatedStays ==
  ASSUME source' = source
  PROVE  NoNegatedNot' <=> NoNegatedNot
BY DEF NoNegatedNot

LEMMA MeaningInductive ==
  Spec => []MeaningInv
<1>1. Init => MeaningInv
  BY DEF Init, MeaningInv, MeantInv
<1>2. ASSUME LaneInv, MeaningInv, [Next]_vars, NoNegatedNot'  PROVE MeantInv'
  <2>1. source' = source => MeantInv
    BY <1>2, NegatedStays DEF MeaningInv
  <2>2. ASSUME UNCHANGED docVars  PROVE MeantInv'
    BY <2>1, <2>2, NothingMeant DEF docVars
  <2>3. ASSUME NEW cfg \in Configs, FromConfig(cfg)  PROVE MeantInv'
    BY <1>2, <2>3, ConfigMeans
  <2>4. ASSUME NEW root \in Documents, FromDocument(root)  PROVE MeantInv'
    BY <1>2, <2>4, RootMeans DEF FromDocument
  <2>5. ASSUME NEW input \in KeyTemplateInputs, FromKeyTemplate(input[1], input[2])
        PROVE  MeantInv'
    <3>1. PICK root : root = KeyTemplatePolicy(input[1], input[2])
      OBVIOUS
    <3>2. \/ Hold(root, [form |-> "root", root |-> root])
          \/ UNCHANGED <<source, doc, frozen, composed, stored, compiled>>
      BY <2>5, <3>1 DEF FromKeyTemplate
    <3>3. QED  BY <1>2, <2>1, <3>2, RootMeans, NothingMeant
  <2>6. ASSUME Canonicalize \/ Compose \/ Store \/ Load \/ CreateKey  PROVE MeantInv'
    <3>1. source' = source
      BY <2>6 DEF Canonicalize, Compose, Store, Load, CreateKey
    <3>2. QED
      BY <1>2, <2>1, <2>6, <3>1, CanonicalizeMeans, ComposeMeans, StoreMeans, LoadMeans,
         CreateMeans
  <2>7. CASE \/ \E input \in Selections : Select(input[1], input[2])
             \/ \E t \in Tamperings : Tamper(t[1], t[2])
             \/ ValidateSelection
    <3>1. UNCHANGED docVars
      BY <2>7 DEF Select, Tamper, ValidateSelection
    <3>2. QED  BY <2>2, <3>1
  <2>8. CASE UNCHANGED vars
    BY <2>2, <2>8 DEF vars
  <2>9. QED  BY <1>2, <2>3, <2>4, <2>5, <2>6, <2>7, <2>8 DEF Next
<1>3. LaneInv /\ MeaningInv /\ [Next]_vars => MeaningInv'
  BY <1>2 DEF MeaningInv
<1>4. QED  BY <1>1, <1>3, LaneInvInductive, PTL DEF Spec

\* Whatever was done to a policy, normalisation of its conditions included, it is
\* satisfied exactly where what its author wrote is, unless that puts useNot on a
\* unary NOT, and once composed only together with the system clause.
THEOREM MeaningIsKept == Spec => []MeaningKept
<1>1. MeaningInv => MeaningKept
  BY DEF MeaningInv, MeantInv, MeaningKept, MeansWhatWasWritten, Meant, SystemAtom
<1>2. QED  BY <1>1, MeaningInductive, PTL

-----------------------------------------------------------------------------
(* The gate sees in a canonical form what it saw in the policy.            *)

LEMMA ConcatOneBack ==
  ASSUME NEW S, NEW s \in Seq(S), NEW t \in Seq(S), NEW O, NEW B
  PROVE  /\ AllIn(s \o t, B) => AllIn(s, B) /\ AllIn(t, B)
         /\ OneIn(s \o t, O, B) => \/ OneIn(s, O, B) /\ AllIn(t, B)
                                   \/ AllIn(s, B) /\ OneIn(t, O, B)
<1>1. PICK m \in Nat : m = Len(s)
  BY LenProperties
<1>2. PICK n \in Nat : n = Len(t)
  BY LenProperties
<1>3. PICK u : u = s \o t
  OBVIOUS
<1>4. /\ Len(u) = m + n
      /\ \A i \in 1 .. m + n : u[i] = IF i <= m THEN s[i] ELSE t[i - m]
  BY <1>1, <1>2, <1>3, ConcatProperties
<1>5. \A i \in 1 .. m : i \in 1 .. m + n /\ u[i] = s[i]
  BY <1>4
<1>6. \A i \in 1 .. n : m + i \in 1 .. m + n /\ u[m + i] = t[i]
  BY <1>4
<1>7. ASSUME AllIn(u, B)  PROVE AllIn(s, B) /\ AllIn(t, B)
  <2>1. \A i \in 1 .. m + n : u[i] \in B
    BY <1>4, <1>7 DEF AllIn
  <2>2. \A i \in 1 .. m : s[i] \in B
    BY <1>5, <2>1
  <2>3. \A i \in 1 .. n : t[i] \in B
    BY <1>6, <2>1
  <2>4. QED  BY <1>1, <1>2, <2>2, <2>3 DEF AllIn
<1>8. ASSUME OneIn(u, O, B)
      PROVE  \/ OneIn(s, O, B) /\ AllIn(t, B)
             \/ AllIn(s, B) /\ OneIn(t, O, B)
  <2>1. PICK i \in 1 .. m + n : u[i] \in O /\ \A j \in 1 .. m + n : j # i => u[j] \in B
    BY <1>4, <1>8 DEF OneIn
  <2>2. CASE i \in 1 .. m
    <3>1. s[i] \in O /\ \A j \in 1 .. m : j # i => s[j] \in B
      BY <1>5, <2>1, <2>2
    <3>2. \A j \in 1 .. n : m + j # i
      BY <2>2
    <3>3. \A j \in 1 .. n : t[j] \in B
      BY <1>6, <2>1, <3>2
    <3>4. QED  BY <1>1, <1>2, <2>2, <3>1, <3>3 DEF AllIn, OneIn
  <2>3. CASE i \notin 1 .. m
    <3>1. PICK k \in 1 .. n : i = m + k
      <4>1. i - m \in 1 .. n /\ i = m + (i - m)
        BY <2>1, <2>3
      <4>2. QED  BY <4>1
    <3>2. t[k] \in O
      BY <1>6, <2>1, <3>1
    <3>3. \A j \in 1 .. n : j # k => m + j # i
      BY <3>1
    <3>4. \A j \in 1 .. n : j # k => t[j] \in B
      BY <1>6, <2>1, <3>3
    <3>5. \A j \in 1 .. m : s[j] \in B
      BY <1>5, <2>1, <2>3
    <3>6. QED  BY <1>1, <1>2, <3>1, <3>2, <3>4, <3>5 DEF AllIn, OneIn
  <2>4. QED  BY <2>2, <2>3
<1>9. QED  BY <1>3, <1>7, <1>8

LEMMA FlattenOneBack ==
  ASSUME NEW S, NEW ss \in Seq(Seq(S)), NEW O, NEW B
  PROVE  /\ AllIn(FlattenSeq(ss), B) => \A i \in 1 .. Len(ss) : AllIn(ss[i], B)
         /\ OneIn(FlattenSeq(ss), O, B) =>
              \E i \in 1 .. Len(ss) : /\ OneIn(ss[i], O, B)
                                      /\ \A j \in 1 .. Len(ss) : j # i => AllIn(ss[j], B)
<1>1. PICK n \in Nat : n = Len(ss) /\ \A k \in 1 .. n : ss[k] \in Seq(S)
  BY LenProperties, ElementOfSeq
<1>2. PICK F : /\ Flattens(F, ss) /\ FlattenSeq(ss) = F[n]
               /\ \A k \in 0 .. n : F[k] \in Seq(S)
  BY <1>1, FlattenRule
<1> DEFINE All(k) == \A i \in 1 .. k : AllIn(ss[i], B)
           One(k) == \E i \in 1 .. k : /\ OneIn(ss[i], O, B)
                                       /\ \A j \in 1 .. k : j # i => AllIn(ss[j], B)
           Holds(k) == (AllIn(F[k], B) => All(k)) /\ (OneIn(F[k], O, B) => One(k))
           T == {k \in Nat : k <= n => Holds(k)}
<1>3. Holds(0)
  <2>1. F[0] = <<>> /\ Len(<<>>) = 0
    BY <1>2, EmptySeq DEF Flattens
  <2>2. ~OneIn(F[0], O, B)
    BY <2>1 DEF OneIn
  <2>3. QED  BY <2>2
<1>4. ASSUME NEW k \in Nat, k + 1 <= n, Holds(k)  PROVE Holds(k + 1)
  <2>1. k + 1 \in 1 .. n /\ (k + 1) - 1 = k /\ k \in 0 .. n
    BY <1>4
  <2>2. F[k + 1] = F[k] \o ss[k + 1] /\ F[k] \in Seq(S) /\ ss[k + 1] \in Seq(S)
    BY <1>1, <1>2, <2>1 DEF Flattens
  <2>3. /\ AllIn(F[k + 1], B) => AllIn(F[k], B) /\ AllIn(ss[k + 1], B)
        /\ OneIn(F[k + 1], O, B) => \/ OneIn(F[k], O, B) /\ AllIn(ss[k + 1], B)
                                    \/ AllIn(F[k], B) /\ OneIn(ss[k + 1], O, B)
    <3>1. PICK f, g, h : f = F[k] /\ g = ss[k + 1] /\ h = F[k + 1]
      OBVIOUS
    <3>2. h = f \o g /\ f \in Seq(S) /\ g \in Seq(S)
      BY <2>2, <3>1
    <3>3. /\ AllIn(h, B) => AllIn(f, B) /\ AllIn(g, B)
          /\ OneIn(h, O, B) => \/ OneIn(f, O, B) /\ AllIn(g, B)
                               \/ AllIn(f, B) /\ OneIn(g, O, B)
      BY ONLY <3>2, ConcatOneBack
    <3>4. QED  BY <3>1, <3>3
  <2>4. \A i \in 1 .. k + 1 : i \in 1 .. k \/ i = k + 1
    OBVIOUS
  <2>5. All(k) /\ AllIn(ss[k + 1], B) => All(k + 1)
    BY <2>4
  <2>6. ASSUME One(k), AllIn(ss[k + 1], B)  PROVE One(k + 1)
    <3>1. PICK i \in 1 .. k : /\ OneIn(ss[i], O, B)
                              /\ \A j \in 1 .. k : j # i => AllIn(ss[j], B)
      BY <2>6
    <3>2. i \in 1 .. k + 1
      OBVIOUS
    <3>3. ASSUME NEW j \in 1 .. k + 1, j # i  PROVE AllIn(ss[j], B)
      BY <2>4, <2>6, <3>1, <3>3
    <3>4. QED  BY <3>1, <3>2, <3>3
  <2>7. ASSUME All(k), OneIn(ss[k + 1], O, B)  PROVE One(k + 1)
    <3>1. k + 1 \in 1 .. k + 1 /\ \A j \in 1 .. k + 1 : j # k + 1 => AllIn(ss[j], B)
      BY <2>4, <2>7
    <3>2. QED  BY <2>7, <3>1
  <2> HIDE DEF All, One
  <2>8. QED  BY <1>4, <2>3, <2>5, <2>6, <2>7
<1>5. n \in T
  <2> HIDE DEF Holds
  <2>1. 0 \in T /\ \A k \in Nat : k \in T => k + 1 \in T
    <3>1. ASSUME NEW k \in Nat, k \in T, k + 1 <= n  PROVE Holds(k + 1)
      <4>1. k <= n
        BY <1>1, <3>1
      <4>2. QED  BY <1>4, <3>1, <4>1
    <3>2. QED  BY <1>3, <3>1
  <2> HIDE DEF T
  <2>2. QED  BY <1>1, <2>1, CountUp
<1>6. Holds(n)
  BY <1>1, <1>5
<1>7. QED  BY <1>1, <1>2, <1>6

Signs == [type : ToSet(Texts), negated : BOOLEAN]
\* Trees whose occurrences are all in P, and those with one in N besides.
Clear(S, P) == {n \in S : AllIn(Occurrences(n), P)}
Marked(S, N, P) == {n \in S : OneIn(Occurrences(n), N, P)}

LEMMA OccurrencesType ==
  ASSUME NEW root, IsTree(root)
  PROVE  Occurrences(root) \in Seq(Signs)
<1> DEFINE P == {n \in Subtrees(root) : Occurrences(n) \in Seq(Signs)}
<1>1. ASSUME NEW n \in Subtrees(root), ToSet(Children(n)) \subseteq P
      PROVE  Occurrences(n) \in Seq(Signs)
  <2>1. IsNode(n) /\ Finite(n) /\ IsTree(n)
    BY TreeParts
  <2>2. PICK a : a = [i \in DOMAIN Children(n) |-> Occurrences(Children(n)[i])]
    OBVIOUS
  <2>3. Occurrences(n) = NodeOccurrences(n, a)
    BY <2>1, <2>2, OccurrencesRule
  <2>4. CASE n.kind = "condition"
    <3>1. n.type \in ToSet(Texts)
      BY <2>1, <2>4 DEF IsNode
    <3>2. [type |-> n.type, negated |-> FALSE] \in Signs
      BY <3>1 DEF Signs
    <3>3. Occurrences(n) = <<[type |-> n.type, negated |-> FALSE]>>
      BY <2>3, <2>4 DEF NodeOccurrences
    <3>4. QED  BY <3>2, <3>3
  <2>5. CASE n.kind # "condition"
    <3>1. n.kind = "operator" /\ Children(n) = n.children
      BY <2>1, <2>5 DEF IsNode, Children
    <3>2. PICK c : c = n.children
      OBVIOUS
    <3>3. PICK l \in Nat : DOMAIN c = 1 .. l /\ \A i \in 1 .. l : c[i] \in ToSet(c)
      BY <2>1, <3>1, <3>2, NodeChildren
    <3>4. \A i \in 1 .. l : c[i] \in P /\ IsTree(c[i]) /\ IsNode(c[i])
      BY <1>1, <2>1, <3>1, <3>2, <3>3, TreeParts
    <3>5. PICK b : b = [i \in 1 .. l |->
                          IF n.operator = "NOT" /\ c[i].kind = "condition"
                          THEN <<[type |-> c[i].type, negated |-> TRUE]>> ELSE a[i]]
      OBVIOUS
    <3>6. Occurrences(n) = FlattenSeq(b)
      <4>1. DOMAIN a = 1 .. l
        BY <2>2, <3>1, <3>2, <3>3
      <4>2. NodeOccurrences(n, a) = FlattenSeq(b)
        BY <2>5, <3>2, <3>5, <4>1 DEF NodeOccurrences
      <4>3. QED  BY <2>3, <4>2
    <3>7. ASSUME NEW i \in 1 .. l  PROVE b[i] \in Seq(Signs)
      <4>1. CASE n.operator = "NOT" /\ c[i].kind = "condition"
        <5>1. c[i].type \in ToSet(Texts)
          BY <3>4, <4>1 DEF IsNode
        <5>2. [type |-> c[i].type, negated |-> TRUE] \in Signs
          BY <5>1 DEF Signs
        <5>3. b[i] = <<[type |-> c[i].type, negated |-> TRUE]>>
          BY <3>5, <4>1
        <5>4. QED  BY <5>2, <5>3
      <4>2. CASE ~(n.operator = "NOT" /\ c[i].kind = "condition")
        <5>1. b[i] = a[i]
          BY <3>5, <4>2
        <5>2. a[i] = Occurrences(c[i])
          BY <2>2, <3>1, <3>2, <3>3
        <5>3. QED  BY <3>4, <5>1, <5>2
      <4>3. QED  BY <4>1, <4>2
    <3>8. b \in [1 .. l -> Seq(Signs)]
      BY <3>5, <3>7
    <3>9. b \in Seq(Seq(Signs))
      BY <3>8, FunctionIsSeq
    <3>10. QED  BY <3>6, <3>9, FlattenType
  <2>6. QED  BY <2>4, <2>5
<1>2. Finite(root) /\ root \in Subtrees(root)
  BY TreeParts, SubtreeFacts
<1>3. \A n \in Subtrees(root) : ToSet(Children(n)) \subseteq P => n \in P
  BY <1>1
<1>4. Subtrees(root) \subseteq P
  <2> HIDE DEF P
  <2>1. QED  BY <1>2, <1>3, TreeInduction
<1>5. QED  BY <1>2, <1>4

\* The occurrences in an operator that negates nothing are its children's.
LEMMA OperatorMarks ==
  ASSUME NEW n, IsTree(n), n.kind = "operator", n.operator # "NOT",
         NEW S, ToSet(Children(n)) \subseteq S, NEW N, NEW P
  PROVE  /\ AllIn(Occurrences(n), P) <=> AllIn(Children(n), Clear(S, P))
         /\ OneIn(Occurrences(n), N, P) <=> OneIn(Children(n), Marked(S, N, P), Clear(S, P))
<1>1. IsNode(n) /\ Finite(n) /\ \A d \in ToSet(Children(n)) : IsTree(d)
  BY TreeParts
<1>2. PICK c : c = Children(n)
  OBVIOUS
<1>3. PICK l \in Nat : l = Len(c) /\ DOMAIN c = 1 .. l /\ \A i \in 1 .. l : c[i] \in ToSet(c)
  BY <1>1, <1>2, NodeChildren
<1>4. PICK a : a = [i \in 1 .. l |-> Occurrences(c[i])]
  OBVIOUS
<1>5. Occurrences(n) = FlattenSeq(a)
  <2>1. Occurrences(n) = NodeOccurrences(n, a)
    BY <1>1, <1>2, <1>3, <1>4, OccurrencesRule
  <2>2. DOMAIN a = 1 .. l /\ a = [i \in 1 .. l |-> a[i]]
    BY <1>4
  <2>3. NodeOccurrences(n, a) = FlattenSeq(a)
    BY <2>2 DEF NodeOccurrences
  <2>4. QED  BY <2>1, <2>3
<1>6. a \in Seq(Seq(Signs)) /\ Len(a) = l
  <2>1. \A i \in 1 .. l : Occurrences(c[i]) \in Seq(Signs)
    BY <1>1, <1>2, <1>3, OccurrencesType
  <2>2. a \in [1 .. l -> Seq(Signs)]
    BY <1>4, <2>1
  <2>3. QED  BY <2>2, FunctionIsSeq
<1>7. \A i \in 1 .. l : /\ AllIn(a[i], P) <=> c[i] \in Clear(S, P)
                        /\ OneIn(a[i], N, P) <=> c[i] \in Marked(S, N, P)
  BY <1>2, <1>3, <1>4 DEF Clear, Marked
<1>8. AllIn(FlattenSeq(a), P) <=> \A i \in 1 .. l : AllIn(a[i], P)
  BY ONLY <1>6, FlattenAll, FlattenOneBack
<1>9. OneIn(FlattenSeq(a), N, P) <=>
        \E i \in 1 .. l : OneIn(a[i], N, P) /\ \A j \in 1 .. l : j # i => AllIn(a[j], P)
  BY ONLY <1>6, FlattenOne, FlattenOneBack
<1>10. AllIn(c, Clear(S, P)) <=> \A i \in 1 .. l : AllIn(a[i], P)
  BY <1>3, <1>7 DEF AllIn
<1>11. OneIn(c, Marked(S, N, P), Clear(S, P)) <=>
         \E i \in 1 .. l : OneIn(a[i], N, P) /\ \A j \in 1 .. l : j # i => AllIn(a[j], P)
  BY <1>3, <1>7 DEF OneIn
<1>12. QED  BY <1>2, <1>5, <1>8, <1>9, <1>10, <1>11

\* One operator over canonical children.
LEMMA CanonicalOperatorMarks ==
  ASSUME NEW n, IsNode(n), n.kind = "operator", n.operator \in Operators \ {"NOT"},
         NEW l \in Nat, NEW kids, kids = [i \in 1 .. l |-> kids[i]],
         \A i \in 1 .. l : NormalTree(kids[i]),
         NEW S, S = UNION {Subtrees(kids[i]) : i \in 1 .. l},
         NEW N, NEW P, N \cap P = {}
  PROVE  /\ AllIn(kids, Clear(S, P)) => AllIn(Occurrences(CanonicalNode(n, kids)), P)
         /\ OneIn(kids, Marked(S, N, P), Clear(S, P)) =>
              OneIn(Occurrences(CanonicalNode(n, kids)), N, P)
<1> DEFINE op == n.operator
<1>1. \A c \in S : NormalTree(c)
  BY NormalParts
<1>2. \A i \in 1 .. l : kids[i] \in S
  BY NormalParts
<1>3. kids \in Seq(S) /\ Len(kids) = l
  <2>1. kids \in [1 .. l -> S]
    BY <1>2
  <2>2. QED  BY <2>1, FunctionIsSeq
<1>4. PICK u : u = CanonicalChildren(op, kids)
  OBVIOUS
<1>5. PICK r : r = CanonicalNode(n, kids)
  OBVIOUS
<1>6. /\ NormalTree(r) /\ r.kind = "operator" /\ r.operator = op /\ r.children = u
      /\ ToSet(u) = ToSet(Flattened(op, kids))
  BY <1>4, <1>5, CanonicalOperator DEF SameHead
<1>7. PICK O, B : O = Marked(S, N, P) /\ B = Clear(S, P)
  OBVIOUS
<1>8. ASSUME NEW i \in 1 .. l, IsOperator(kids[i], op)
      PROVE  /\ kids[i].children \in Seq(S)
             /\ kids[i] \in B => AllIn(kids[i].children, B)
             /\ kids[i] \in O => OneIn(kids[i].children, O, B)
  <2> PICK c : c = kids[i]
    OBVIOUS
  <2>1. NormalTree(c) /\ c.kind = "operator" /\ c.operator # "NOT"
    BY <1>8 DEF IsOperator
  <2>2. IsTree(c) /\ IsNode(c) /\ Finite(c) /\ c \in Subtrees(c)
    BY <2>1, NormalParts, TreeParts
  <2>3. Children(c) = c.children
    BY <2>1 DEF Children
  <2>4. ToSet(Children(c)) \subseteq S
    <3>1. Subtrees(c) \subseteq S
      OBVIOUS
    <3>2. ToSet(Children(c)) \subseteq Subtrees(c)
      BY <2>2, SubtreeFacts
    <3>3. QED  BY <3>1, <3>2
  <2>5. Children(c) \in Seq(S)
    <3>1. Children(c) \in Seq(ToSet(Children(c)))
      BY <2>2, NodeChildren
    <3>2. QED  BY ONLY <2>4, <3>1, SeqMonotonic
  <2>6. /\ AllIn(Occurrences(c), P) <=> AllIn(Children(c), B)
        /\ OneIn(Occurrences(c), N, P) <=> OneIn(Children(c), O, B)
    BY <1>7, <2>1, <2>2, <2>4, OperatorMarks
  <2>7. /\ c \in B => AllIn(Occurrences(c), P)
        /\ c \in O => OneIn(Occurrences(c), N, P)
    BY <1>7 DEF Clear, Marked
  <2>8. QED  BY <2>3, <2>5, <2>6, <2>7
<1>9. Flattened(op, kids) \in Seq(S)
  <2>1. CASE op \in Associative
    BY <1>3, <1>8, <2>1, FlattenedFacts
  <2>2. CASE op \notin Associative
    BY <1>3, <2>2 DEF Flattened
  <2>3. QED  BY <2>1, <2>2
<1>10. \A c \in S : IsTree(c)
  BY <1>1 DEF NormalTree
<1>11. O \cap B = {}
  <2>1. \A s : OneIn(s, N, P) => ~AllIn(s, P)
    BY DEF OneIn, AllIn
  <2>2. QED  BY <1>7, <2>1 DEF Marked, Clear
<1>12. /\ AllIn(kids, B) => AllIn(u, B)
       /\ OneIn(kids, O, B) => OneIn(u, O, B)
  <2>1. op \in Associative => \A i \in 1 .. Len(kids) : IsOperator(kids[i], op) =>
          /\ kids[i].children \in Seq(S)
          /\ kids[i] \in B => AllIn(kids[i].children, B)
          /\ kids[i] \in O => OneIn(kids[i].children, O, B)
    BY <1>3, <1>8
  <2>2. /\ AllIn(kids, B) => AllIn(CanonicalChildren(op, kids), B)
        /\ OneIn(kids, O, B) => OneIn(CanonicalChildren(op, kids), O, B)
    BY ONLY <1>3, <1>9, <1>10, <1>11, <2>1, ChildrenOne
  <2>3. QED  BY <1>4, <2>2
<1>13. Children(r) = u /\ IsTree(r)
  BY <1>6 DEF Children, NormalTree
<1>14. ToSet(Children(r)) \subseteq S
  <2>1. ToSet(Flattened(op, kids)) \subseteq S
    <3>1. PICK f : f = Flattened(op, kids)
      OBVIOUS
    <3>2. f \in Seq(S)
      BY <1>9, <3>1
    <3>3. PICK m \in Nat : DOMAIN f = 1 .. m /\ f \in [1 .. m -> S]
      BY <3>2, LenProperties
    <3>4. ToSet(f) \subseteq S
      BY <3>3 DEF ToSet
    <3>5. QED  BY <3>1, <3>4
  <2>2. QED  BY <1>6, <1>13, <2>1
<1>15. /\ AllIn(Occurrences(r), P) <=> AllIn(Children(r), B)
       /\ OneIn(Occurrences(r), N, P) <=> OneIn(Children(r), O, B)
  BY <1>6, <1>7, <1>13, <1>14, OperatorMarks
<1>16. QED  BY <1>5, <1>7, <1>12, <1>13, <1>15

\* A negation is left as it is, but for its k.
LEMMA NegationKept ==
  ASSUME NEW n, IsTree(n), Known(n), IsOperator(n, "NOT"), Len(n.children) = 1,
         n.children[1].kind = "condition"
  PROVE  /\ IsOperator(Canonical(n), "NOT") /\ Canonical(n).children = n.children
         /\ Subtrees(Canonical(n)) = {Canonical(n), n.children[1]}
         /\ Occurrences(Canonical(n)) = <<[type |-> n.children[1].type, negated |-> TRUE]>>
         /\ Occurrences(n) = <<[type |-> n.children[1].type, negated |-> TRUE]>>
<1>1. /\ IsNode(n) /\ Finite(n) /\ n \in Subtrees(n) /\ n.kind = "operator"
      /\ n.operator = "NOT" /\ Children(n) = n.children
  BY TreeParts, SubtreeFacts DEF IsOperator, Children
<1>2. PICK c : c = n.children[1]
  OBVIOUS
<1>3. n.children = <<c>>
  <2>1. DOMAIN n.children = 1 .. 1 /\ n.children \in Seq(ToSet(n.children))
    BY <1>1, NodeChildren
  <2>2. n.children = [i \in 1 .. 1 |-> n.children[i]]
    BY <2>1, LenProperties
  <2>3. n.children = [i \in 1 .. 1 |-> c]
    BY <1>2, <2>2
  <2>4. QED  BY <2>3
<1>4. DOMAIN Children(n) = 1 .. 1 /\ \A i \in 1 .. 1 : Children(n)[i] = c /\ n.children[i] = c
  BY <1>1, <1>3
<1>5. c.kind = "condition" /\ Canonical(c) = c /\ Subtrees(c) = {c}
  BY <1>2, LeafFacts
<1>6. PICK r : r = Canonical(n)
  OBVIOUS
<1>7. r = CanonicalNode(n, <<c>>)
  <2>1. PICK kids : kids = [i \in DOMAIN Children(n) |-> Canonical(Children(n)[i])]
    OBVIOUS
  <2>2. kids = [i \in 1 .. 1 |-> c]
    BY <1>4, <1>5, <2>1
  <2>3. kids = <<c>>
    BY <2>2
  <2>4. QED  BY <1>1, <1>6, <2>1, <2>3, CanonicalRule
<1>8. NormalTree(r) /\ SameHead(n, r)
  BY <1>6, CanonicalIsNormal
<1>9. IsTree(r) /\ IsNode(r) /\ Finite(r) /\ r.kind = "operator" /\ r.operator = "NOT"
  BY <1>1, <1>8, TreeParts DEF NormalTree, SameHead
<1>10. r.children = <<c>>
  <2>1. CanonicalChildren("NOT", <<c>>) = <<c>>
    BY DEF CanonicalChildren, Flattened, Sorted, Unrepeated, Associative, Commutative,
           DuplicateInsensitive
  <2>2. n \in [kind : {"operator"}, operator : ToSet(Texts), children : {n.children},
               k : Optional(Int), weights : Optional(Seq(Int)), threshold : Optional(Int),
               weight : Optional(Int)]
    BY <1>1 DEF IsNode
  <2>3. CanonicalNode(n, <<c>>) =
          [n EXCEPT !.children = <<c>>, !.k = IF n.k = <<>> THEN n.threshold ELSE n.k,
                    !.threshold = <<>>]
    BY <1>1, <2>1 DEF CanonicalNode
  <2>4. QED  BY <1>7, <2>2, <2>3
<1>11. Children(r) = <<c>> /\ ToSet(Children(r)) = {c}
  BY <1>9, <1>10, ShortSets DEF Children
<1>12. Subtrees(r) = {r, c}
  <2>1. Subtrees(r) = {r} \cup UNION {Subtrees(d) : d \in ToSet(Children(r))}
    BY <1>9, SubtreeFacts
  <2>2. QED  BY <1>5, <1>11, <2>1
<1>13. ASSUME NEW m, Finite(m), m.kind = "operator", m.operator = "NOT", m.children = <<c>>
       PROVE  Occurrences(m) = <<[type |-> c.type, negated |-> TRUE]>>
  <2>1. PICK kids : kids = [i \in DOMAIN Children(m) |-> Occurrences(Children(m)[i])]
    OBVIOUS
  <2>2. Occurrences(m) = NodeOccurrences(m, kids)
    BY <1>13, <2>1, OccurrencesRule
  <2>3. PICK o : o = [type |-> c.type, negated |-> TRUE]
    OBVIOUS
  <2>4. PICK ss : ss = [i \in 1 .. 1 |-> <<o>>]
    OBVIOUS
  <2>5. NodeOccurrences(m, kids) = FlattenSeq(ss)
    <3>1. DOMAIN kids = 1 .. 1 /\ \A i \in 1 .. 1 : m.children[i] = c
      BY <1>13, <2>1 DEF Children
    <3>2. [i \in DOMAIN kids |->
             IF m.operator = "NOT" /\ m.children[i].kind = "condition"
             THEN <<[type |-> m.children[i].type, negated |-> TRUE]>> ELSE kids[i]] = ss
      BY <1>5, <1>13, <2>3, <2>4, <3>1
    <3>3. m.kind # "condition"
      BY <1>13
    <3>4. QED  BY <3>2, <3>3 DEF NodeOccurrences
  <2>6. ss \in Seq(Seq({o})) /\ Len(ss) = 1 /\ ss[1] = <<o>>
    <3>1. <<o>> \in Seq({o})
      OBVIOUS
    <3>2. ss \in [1 .. 1 -> Seq({o})]
      BY <2>4, <3>1
    <3>3. QED  BY <2>4, <3>2, FunctionIsSeq
  <2>7. FlattenSeq(ss) = <<o>>
    BY <2>6, FlattenShort
  <2>8. QED  BY <2>2, <2>3, <2>5, <2>7
<1>14. /\ Occurrences(n) = <<[type |-> c.type, negated |-> TRUE]>>
       /\ Occurrences(r) = <<[type |-> c.type, negated |-> TRUE]>>
  BY <1>1, <1>3, <1>9, <1>10, <1>13
<1>15. QED  BY <1>2, <1>3, <1>6, <1>9, <1>10, <1>12, <1>14 DEF IsOperator

\* Where every negation is of one condition.
Negations(root) ==
  \A m \in Subtrees(root) : IsOperator(m, "NOT") =>
    Len(m.children) = 1 /\ m.children[1].kind = "condition"

\* The canonical form has the occurrences of a policy, and no second one of
\* those a policy has once.
LEMMA MarksKept ==
  ASSUME NEW root, IsTree(root), Known(root), Negations(root), NEW N, NEW P, N \cap P = {}
  PROVE  /\ AllIn(Occurrences(root), P) => AllIn(Occurrences(Canonical(root)), P)
         /\ OneIn(Occurrences(root), N, P) => OneIn(Occurrences(Canonical(root)), N, P)
<1> DEFINE Holds(n) ==
             /\ AllIn(Occurrences(n), P) => AllIn(Occurrences(Canonical(n)), P)
             /\ OneIn(Occurrences(n), N, P) => OneIn(Occurrences(Canonical(n)), N, P)
           Q == {n \in Subtrees(root) : Holds(n)}
<1>1. ASSUME NEW n \in Subtrees(root), ToSet(Children(n)) \subseteq Q  PROVE Holds(n)
  <2>1. IsNode(n) /\ Finite(n) /\ IsTree(n) /\ Known(n) /\ n \in Subtrees(n)
        /\ Subtrees(n) \subseteq Subtrees(root)
    BY TreeParts, SubtreeFacts DEF Known
  <2>2. PICK kids : kids = [i \in DOMAIN Children(n) |-> Canonical(Children(n)[i])]
    OBVIOUS
  <2>3. Canonical(n) = CanonicalNode(n, kids)
    BY <2>1, <2>2, CanonicalRule
  <2>4. CASE IsOperator(n, "NOT")
    <3>1. Len(n.children) = 1 /\ n.children[1].kind = "condition"
      BY <2>4 DEF Negations
    <3>2. Occurrences(Canonical(n)) = Occurrences(n)
      BY <2>1, <2>4, <3>1, NegationKept
    <3>3. QED  BY <3>2
  <2>5. CASE n.kind = "operator" /\ n.operator # "NOT"
    <3>1. PICK c : c = Children(n)
      OBVIOUS
    <3>2. PICK l \in Nat : l = Len(c) /\ DOMAIN c = 1 .. l
      BY <2>1, <3>1, NodeChildren
    <3>3. \A i \in 1 .. l : c[i] \in Q /\ kids[i] = Canonical(c[i])
      BY <1>1, <2>2, <3>1, <3>2 DEF ToSet
    <3>4. \A i \in 1 .. l : NormalTree(kids[i])
      <4>1. ASSUME NEW i \in 1 .. l  PROVE IsTree(c[i]) /\ Known(c[i])
        <5>1. c[i] \in Subtrees(root)
          BY <3>3
        <5>2. Subtrees(c[i]) \subseteq Subtrees(root)
          BY <5>1, TreeParts, SubtreeFacts
        <5>3. QED  BY <5>1, <5>2, TreeParts DEF Known
      <4>2. QED  BY <3>3, <4>1, CanonicalIsNormal
    <3>5. kids = [i \in 1 .. l |-> kids[i]] /\ Len(kids) = l
      <4>1. kids = [i \in 1 .. l |-> kids[i]]
        BY <2>2, <3>1, <3>2
      <4>2. kids \in [1 .. l -> {kids[i] : i \in 1 .. l}]
        BY <4>1
      <4>3. QED  BY <4>1, <4>2, FunctionIsSeq
    <3>6. n.operator \in Operators \ {"NOT"}
      BY <2>1, <2>5 DEF Known
    <3>7. PICK S : S = UNION {Subtrees(kids[i]) : i \in 1 .. l}
      OBVIOUS
    <3>8. PICK D : D = ToSet(Children(n))
      OBVIOUS
    <3>9. /\ AllIn(Occurrences(n), P) <=> AllIn(c, Clear(D, P))
          /\ OneIn(Occurrences(n), N, P) <=> OneIn(c, Marked(D, N, P), Clear(D, P))
      BY <2>1, <2>5, <3>1, <3>8, OperatorMarks
    <3>10. /\ AllIn(kids, Clear(S, P)) => AllIn(Occurrences(CanonicalNode(n, kids)), P)
           /\ OneIn(kids, Marked(S, N, P), Clear(S, P)) =>
                OneIn(Occurrences(CanonicalNode(n, kids)), N, P)
      BY <2>1, <2>5, <3>4, <3>5, <3>6, <3>7, CanonicalOperatorMarks
    <3>11. ASSUME NEW i \in 1 .. l
           PROVE  /\ c[i] \in Clear(D, P) => kids[i] \in Clear(S, P)
                  /\ c[i] \in Marked(D, N, P) => kids[i] \in Marked(S, N, P)
      <4>1. Holds(c[i])
        BY <3>3
      <4>2. kids[i] \in S
        BY <3>4, <3>7, NormalParts
      <4>3. QED  BY <3>3, <4>1, <4>2 DEF Clear, Marked
    <3>12. AllIn(c, Clear(D, P)) => AllIn(kids, Clear(S, P))
      BY <3>2, <3>5, <3>11 DEF AllIn
    <3>13. ASSUME OneIn(c, Marked(D, N, P), Clear(D, P))
           PROVE  OneIn(kids, Marked(S, N, P), Clear(S, P))
      BY <3>2, <3>5, <3>11, <3>13 DEF OneIn
    <3>14. QED  BY <2>3, <3>9, <3>10, <3>12, <3>13
  <2>6. CASE n.kind # "operator"
    <3>1. n.kind = "condition"
      BY <2>1, <2>6 DEF IsNode
    <3>2. Canonical(n) = n
      BY <2>3, <3>1 DEF CanonicalNode
    <3>3. QED  BY <3>2
  <2>7. QED  BY <2>4, <2>5, <2>6 DEF IsOperator
<1>2. Finite(root) /\ root \in Subtrees(root)
  BY TreeParts, SubtreeFacts
<1>3. \A n \in Subtrees(root) : ToSet(Children(n)) \subseteq Q => n \in Q
  <2> HIDE DEF Holds
  <2>1. QED  BY <1>1
<1>4. Subtrees(root) \subseteq Q
  <2> HIDE DEF Q
  <2>1. QED  BY <1>2, <1>3, TreeInduction
<1>5. QED  BY <1>2, <1>4

\* The negations and the conditions of a canonical form are the policy's.
LEMMA PartsKept ==
  ASSUME NEW root, IsTree(root), Known(root), NegationsExact(root)
  PROVE  NegationsExact(Canonical(root)) /\ ConditionsOf(Canonical(root)) \subseteq ConditionsOf(root)
<1> DEFINE Exact(m) == IsOperator(m, "NOT") =>
                         /\ Len(m.children) = 1 /\ m.children[1].kind = "condition"
                         /\ IsExactBlocklist(m.children[1])
           Passed(m) == Exact(m) /\ (m.kind = "condition" => m \in ConditionsOf(root))
           Q == {n \in Subtrees(root) : \A m \in Subtrees(Canonical(n)) : Passed(m)}
<1>1. \A m \in Subtrees(root) : Passed(m)
  BY DEF NegationsExact, ConditionsOf
<1>2. ASSUME NEW n \in Subtrees(root), ToSet(Children(n)) \subseteq Q
      PROVE  \A m \in Subtrees(Canonical(n)) : Passed(m)
  <2>1. IsNode(n) /\ Finite(n) /\ IsTree(n) /\ Known(n) /\ n \in Subtrees(n)
        /\ Subtrees(n) \subseteq Subtrees(root)
    BY TreeParts, SubtreeFacts DEF Known
  <2>2. PICK kids : kids = [i \in DOMAIN Children(n) |-> Canonical(Children(n)[i])]
    OBVIOUS
  <2>3. Canonical(n) = CanonicalNode(n, kids)
    BY <2>1, <2>2, CanonicalRule
  <2>4. CASE IsOperator(n, "NOT")
    <3>1. Exact(n)
      BY <1>1
    <3>2. /\ IsOperator(Canonical(n), "NOT") /\ Canonical(n).children = n.children
          /\ Subtrees(Canonical(n)) = {Canonical(n), n.children[1]}
      BY <2>1, <2>4, <3>1, NegationKept
    <3>3. n.children[1] \in Subtrees(root)
      <4>1. 1 \in 1 .. Len(Children(n)) /\ Children(n) = n.children
        BY <2>4, <3>1 DEF IsOperator, Children
      <4>2. n.children[1] \in ToSet(Children(n))
        BY <2>1, <4>1, NodeChildren
      <4>3. QED  BY <2>1, <4>2, SubtreeFacts
    <3>4. Passed(n.children[1]) /\ Passed(Canonical(n))
      BY <1>1, <2>4, <3>1, <3>2, <3>3 DEF IsOperator
    <3>5. QED  BY <3>2, <3>4
  <2>5. CASE n.kind = "operator" /\ n.operator # "NOT"
    <3>1. PICK c : c = Children(n)
      OBVIOUS
    <3>2. PICK l \in Nat : l = Len(c) /\ DOMAIN c = 1 .. l
      BY <2>1, <3>1, NodeChildren
    <3>3. \A i \in 1 .. l : c[i] \in Q /\ kids[i] = Canonical(c[i])
      BY <1>2, <2>2, <3>1, <3>2 DEF ToSet
    <3>4. \A i \in 1 .. l : NormalTree(kids[i])
      <4>1. ASSUME NEW i \in 1 .. l  PROVE IsTree(c[i]) /\ Known(c[i])
        <5>1. c[i] \in Subtrees(root)
          BY <3>3
        <5>2. Subtrees(c[i]) \subseteq Subtrees(root)
          BY <5>1, TreeParts, SubtreeFacts
        <5>3. QED  BY <5>1, <5>2, TreeParts DEF Known
      <4>2. QED  BY <3>3, <4>1, CanonicalIsNormal
    <3>5. kids = [i \in 1 .. l |-> kids[i]]
      BY <2>2, <3>1, <3>2
    <3>6. n.operator \in Operators
      BY <2>1, <2>5 DEF Known
    <3>7. PICK r, u : r = Canonical(n) /\ u = CanonicalChildren(n.operator, kids)
      OBVIOUS
    <3>8. /\ NormalTree(r) /\ SameHead(n, r) /\ r.children = u
          /\ ToSet(u) = ToSet(Flattened(n.operator, kids))
      BY <2>1, <2>3, <2>5, <3>4, <3>5, <3>6, <3>7, CanonicalOperator
    <3>9. r.kind = "operator" /\ r.operator # "NOT" /\ Finite(r) /\ Children(r) = u
      BY <2>5, <3>8, NormalParts, TreeParts DEF SameHead, Children
    <3>10. \A i \in 1 .. l : \A m \in Subtrees(kids[i]) : Passed(m)
      BY <3>3
    <3>11. ASSUME NEW d \in ToSet(u)  PROVE \E i \in 1 .. l : d \in Subtrees(kids[i])
      <4>1. CASE n.operator \in Associative
        <5>1. PICK S : S = UNION {Subtrees(kids[i]) : i \in 1 .. l}
          OBVIOUS
        <5>2. \A i \in 1 .. l : kids[i] \in S
          BY <3>4, <5>1, NormalParts
        <5>3. kids \in Seq(S) /\ Len(kids) = l
          <6>1. kids \in [1 .. l -> S]
            BY <3>5, <5>2
          <6>2. QED  BY <6>1, FunctionIsSeq
        <5>4. ASSUME NEW i \in 1 .. l, IsOperator(kids[i], n.operator)
              PROVE  kids[i].children \in Seq(S)
          <6> PICK k : k = kids[i]
            OBVIOUS
          <6>1. IsNode(k) /\ Finite(k) /\ Children(k) = k.children
            BY <3>4, <5>4, NormalParts, TreeParts DEF IsOperator, Children
          <6>2. Subtrees(k) \subseteq S
            BY <5>1
          <6>3. ToSet(Children(k)) \subseteq S
            BY <6>1, <6>2, SubtreeFacts
          <6>4. Children(k) \in Seq(ToSet(Children(k)))
            BY <6>1, NodeChildren
          <6>5. Children(k) \in Seq(S)
            BY ONLY <6>3, <6>4, SeqMonotonic
          <6>6. QED  BY <6>1, <6>5
        <5>5. PICK f : f = Flattened(n.operator, kids)
          OBVIOUS
        <5>6. f \in Seq(S)
          <6>1. \A i \in 1 .. Len(kids) : IsOperator(kids[i], n.operator) =>
                  kids[i].children \in Seq(S)
            BY <5>3, <5>4
          <6>2. QED  BY <4>1, <5>3, <5>5, <6>1, FlattenedFacts
        <5>7. d \in S
          <6>1. PICK m \in Nat : DOMAIN f = 1 .. m /\ f \in [1 .. m -> S]
            BY <5>6, LenProperties
          <6>2. ToSet(f) \subseteq S
            BY <6>1 DEF ToSet
          <6>3. QED  BY <3>8, <5>5, <6>2
        <5>8. QED  BY <5>1, <5>7
      <4>2. CASE n.operator \notin Associative
        <5>1. Flattened(n.operator, kids) = kids /\ DOMAIN kids = 1 .. l
          BY <3>5, <4>2 DEF Flattened
        <5>2. PICK i \in 1 .. l : d = kids[i]
          BY <3>8, <5>1 DEF ToSet
        <5>3. QED  BY <3>4, <5>2, NormalParts
      <4>3. QED  BY <4>1, <4>2
    <3>12. Passed(r)
      BY <3>9 DEF IsOperator
    <3>13. ASSUME NEW d \in ToSet(u)  PROVE \A m \in Subtrees(d) : Passed(m)
      <4>1. PICK i \in 1 .. l : d \in Subtrees(kids[i])
        BY <3>11
      <4>2. Subtrees(d) \subseteq Subtrees(kids[i])
        BY <3>4, <4>1, NormalParts, TreeParts, SubtreeFacts
      <4>3. QED  BY <3>10, <4>2
    <3>14. Subtrees(r) = {r} \cup UNION {Subtrees(d) : d \in ToSet(u)}
      BY <3>9, SubtreeFacts
    <3> HIDE DEF Passed
    <3>15. \A m \in Subtrees(r) : Passed(m)
      BY <3>12, <3>13, <3>14
    <3>16. QED  BY <3>7, <3>15
  <2>6. CASE n.kind # "operator"
    <3>1. n.kind = "condition"
      BY <2>1, <2>6 DEF IsNode
    <3>2. Canonical(n) = n
      BY <2>3, <3>1 DEF CanonicalNode
    <3>3. QED  BY <1>1, <2>1, <3>2
  <2>7. QED  BY <2>4, <2>5, <2>6 DEF IsOperator
<1>3. Finite(root) /\ root \in Subtrees(root)
  BY TreeParts, SubtreeFacts
<1>4. \A n \in Subtrees(root) : ToSet(Children(n)) \subseteq Q => n \in Q
  <2> HIDE DEF Passed
  <2>1. QED  BY <1>2
<1>5. Subtrees(root) \subseteq Q
  <2> HIDE DEF Q
  <2>1. QED  BY <1>3, <1>4, TreeInduction
<1>6. \A m \in Subtrees(Canonical(root)) : Passed(m)
  BY <1>3, <1>5
<1>7. QED  BY <1>6 DEF NegationsExact, ConditionsOf

\* The occurrences of which a policy may have one, negated.
NegatedKinds(o) == {x \in ToSet(o) : x.negated /\ x.type \in NegatableFamilies}

\* At most one occurrence is negated, in other words.
LEMMA ApartOne ==
  ASSUME NEW o, o \in Seq(Signs),
         NEW N, N = NegatedKinds(o),
         NEW P, P = ToSet(o) \ N
  PROVE  FamiliesApart(o) <=>
           /\ AllIn(o, P) \/ OneIn(o, N, P)
           /\ \A x \in N, y \in P : x.type # y.type
<1> DEFINE of(sign) == {i \in DOMAIN o : /\ o[i].negated = sign
                                         /\ o[i].type \in NegatableFamilies}
<1>0. N = {x \in ToSet(o) : x.negated /\ x.type \in NegatableFamilies}
  BY DEF NegatedKinds
<1>1. PICK n \in Nat : /\ n = Len(o) /\ DOMAIN o = 1 .. n
                       /\ \A i \in 1 .. n : o[i] \in Signs
  BY LenProperties, ElementOfSeq
<1>2. \A i \in 1 .. n : o[i] \in ToSet(o) /\ o[i].negated \in BOOLEAN
  BY <1>1 DEF ToSet, Signs
<1>3. \A x \in ToSet(o) : x.negated \in BOOLEAN /\ \E i \in 1 .. n : x = o[i]
  BY <1>1 DEF ToSet, Signs
<1>4. PICK t : t = of(TRUE)
  OBVIOUS
<1>5. \A i : i \in t <=> i \in 1 .. n /\ o[i] \in N
  BY <1>0, <1>1, <1>2, <1>4
<1>6. \A i \in 1 .. n : i \notin t <=> o[i] \in P
  BY <1>2, <1>5
<1>7. IsFiniteSet(t) /\ t \subseteq 1 .. n
  <2>1. t \subseteq 1 .. n
    BY <1>5
  <2>2. IsFiniteSet(1 .. n)
    BY FS_Interval
  <2>3. QED  BY <2>1, <2>2, FS_Subset
<1>8. Cardinality(t) <= 1 <=> t = {} \/ \E i \in t : t = {i}
  <2>1. Cardinality(t) \in Nat
    BY <1>7, FS_CardinalityType
  <2>2. Cardinality(t) = 0 <=> t = {}
    BY <1>7, FS_EmptySet
  <2>3. Cardinality(t) = 1 <=> \E i : t = {i}
    BY <1>7, FS_Singleton
  <2>4. Cardinality(t) <= 1 <=> Cardinality(t) = 0 \/ Cardinality(t) = 1
    BY <2>1
  <2>5. (\E i : t = {i}) <=> \E i \in t : t = {i}
    OBVIOUS
  <2>6. QED  BY <2>2, <2>3, <2>4, <2>5
<1>9. AllIn(o, P) <=> t = {}
  BY <1>1, <1>5, <1>6 DEF AllIn
<1>10. OneIn(o, N, P) <=> \E i \in t : t = {i}
  <2>1. OneIn(o, N, P) <=>
          \E i \in 1 .. n : o[i] \in N /\ \A j \in 1 .. n : j # i => o[j] \in P
    BY <1>1 DEF OneIn
  <2>2. OneIn(o, N, P) <=> \E i \in t : \A j \in 1 .. n : j # i => j \notin t
    BY <1>5, <1>6, <2>1
  <2>3. \A i \in t : t = {i} <=> \A j \in 1 .. n : j # i => j \notin t
    BY <1>7
  <2>4. QED  BY <2>2, <2>3
<1>11. (\A i \in of(TRUE), j \in of(FALSE) : o[i].type # o[j].type) <=>
         \A x \in N, y \in P : x.type # y.type
  <2>1. ASSUME \A i \in of(TRUE), j \in of(FALSE) : o[i].type # o[j].type,
               NEW x \in N, NEW y \in P
        PROVE  x.type # y.type
    <3>1. PICK i \in 1 .. n, j \in 1 .. n : x = o[i] /\ y = o[j]
      <4>1. x \in ToSet(o) /\ y \in ToSet(o)
        BY <1>0
      <4>2. QED  BY <1>3, <4>1
    <3>2. i \in of(TRUE)
      BY <1>4, <1>5, <2>1, <3>1
    <3>3. CASE y.type \in NegatableFamilies
      <4>1. y.negated = FALSE
        BY <1>0, <1>2, <2>1, <3>1, <3>3
      <4>2. j \in of(FALSE)
        BY <1>1, <3>1, <3>3, <4>1
      <4>3. QED  BY <2>1, <3>1, <3>2, <4>2
    <3>4. CASE y.type \notin NegatableFamilies
      BY <1>0, <2>1, <3>4
    <3>5. QED  BY <3>3, <3>4
  <2>2. ASSUME \A x \in N, y \in P : x.type # y.type,
               NEW i \in of(TRUE), NEW j \in of(FALSE)
        PROVE  o[i].type # o[j].type
    <3>1. o[i] \in N
      BY <1>4, <1>5
    <3>2. o[j] \in P
      BY <1>0, <1>1, <1>2
    <3>3. QED  BY <2>2, <3>1, <3>2
  <2>3. QED  BY <2>1, <2>2
<1>12. FamiliesApart(o) <=> /\ Cardinality(t) <= 1
                            /\ \A i \in of(TRUE), j \in of(FALSE) : o[i].type # o[j].type
  BY <1>4 DEF FamiliesApart
<1>13. QED  BY <1>8, <1>9, <1>10, <1>11, <1>12

LEMMA FewerKept ==
  ASSUME NEW S, NEW s \in Seq(S)
  PROVE  AllIn(s, ToSet(s)) /\ \A X : AllIn(s, X) <=> ToSet(s) \subseteq X
<1>1. PICK n \in Nat : n = Len(s) /\ DOMAIN s = 1 .. n
  BY LenProperties
<1>2. QED  BY <1>1 DEF AllIn, ToSet

LEMMA ApartKept ==
  ASSUME NEW root, IsTree(root), Known(root), Negations(root),
         FamiliesApart(Occurrences(root))
  PROVE  FamiliesApart(Occurrences(Canonical(root)))
<1>1. NormalTree(Canonical(root))
  BY CanonicalIsNormal
<1>2. PICK o, r : o = Occurrences(root) /\ r = Occurrences(Canonical(root))
  OBVIOUS
<1>3. o \in Seq(Signs) /\ r \in Seq(Signs)
  BY <1>1, <1>2, OccurrencesType DEF NormalTree
<1>4. PICK N : N = NegatedKinds(o)
  OBVIOUS
<1>5. PICK P : P = ToSet(o) \ N
  OBVIOUS
<1>6. PICK M : M = NegatedKinds(r)
  OBVIOUS
<1>7. PICK Q : Q = ToSet(r) \ M
  OBVIOUS
<1>8. ToSet(r) \subseteq ToSet(o)
  <2>1. PICK X, E : X = ToSet(o) /\ E = {}
    OBVIOUS
  <2>2. AllIn(o, X) /\ E \cap X = {}
    BY <1>3, <2>1, FewerKept
  <2>3. AllIn(r, X)
    BY <1>2, <2>2, MarksKept
  <2>4. QED  BY <1>3, <2>1, <2>3, FewerKept
<1>9. M = N \cap ToSet(r) /\ Q = P \cap ToSet(r)
  BY <1>4, <1>5, <1>6, <1>7, <1>8 DEF NegatedKinds
<1>10. /\ AllIn(o, P) \/ OneIn(o, N, P)
       /\ \A x \in N, y \in P : x.type # y.type
  BY <1>2, <1>3, <1>4, <1>5, ApartOne
<1>11. AllIn(r, P) \/ OneIn(r, N, P)
  <2>1. N \cap P = {}
    BY <1>5
  <2>2. QED  BY <1>2, <1>10, <2>1, MarksKept
<1>12. AllIn(r, Q) \/ OneIn(r, M, Q)
  <2>1. PICK n \in Nat : n = Len(r) /\ \A i \in 1 .. n : r[i] \in ToSet(r)
    BY <1>3, LenProperties DEF ToSet
  <2>2. \A i \in 1 .. n : (r[i] \in P => r[i] \in Q) /\ (r[i] \in N => r[i] \in M)
    BY <1>9, <2>1
  <2>3. AllIn(r, P) => AllIn(r, Q)
    BY <2>1, <2>2 DEF AllIn
  <2>4. OneIn(r, N, P) => OneIn(r, M, Q)
    BY <2>1, <2>2 DEF OneIn
  <2>5. QED  BY <1>11, <2>3, <2>4
<1>13. \A x \in M, y \in Q : x.type # y.type
  BY <1>9, <1>10
<1>14. FamiliesApart(r)
  BY <1>3, <1>6, <1>7, <1>12, <1>13, ApartOne
<1>15. QED  BY <1>2, <1>14

LEMMA GateSurvives ==
  ASSUME LaneInv
  PROVE  GateSurvivesCanonical
<1> SUFFICES ASSUME doc # <<>>, Canonicalizes(doc[1]), NEW allowUnknown \in BOOLEAN,
                    GateAccepts(doc[1], allowUnknown)
             PROVE  GateAccepts(Canonical(doc[1]), allowUnknown)
  BY DEF GateSurvivesCanonical
<1>1. PICK root : root = doc[1]
  OBVIOUS
<1>2. IsTree(root) /\ Known(root)
  BY <1>1, CanonicalizesKnown DEF LaneInv, Held
<1>3. /\ NegationsExact(root) /\ VocabularyAccepted(root, allowUnknown)
      /\ FamiliesApart(Occurrences(root))
  BY <1>1 DEF GateAccepts
<1>4. NegationsExact(Canonical(root)) /\ ConditionsOf(Canonical(root)) \subseteq ConditionsOf(root)
  BY <1>2, <1>3, PartsKept
<1>5. VocabularyAccepted(Canonical(root), allowUnknown)
  BY <1>3, <1>4 DEF VocabularyAccepted
<1>6. FamiliesApart(Occurrences(Canonical(root)))
  <2>1. Negations(root)
    BY <1>3 DEF Negations, NegationsExact
  <2>2. QED  BY <1>2, <1>3, <2>1, ApartKept
<1>7. QED  BY <1>1, <1>4, <1>5, <1>6 DEF GateAccepts

\* What the gate accepts, it accepts in canonical form.
THEOREM GateSurvivesAlways == Spec => []GateSurvivesCanonical
BY LaneInvInductive, GateSurvives, PTL

-----------------------------------------------------------------------------
(* Written differently: the layouts of a policy and its canonical form.     *)

LEMMA RearrangedRule ==
  ASSUME NEW root, Finite(root)
  PROVE  Rearranged(root) =
           NodeRearranged(root, [i \in DOMAIN Children(root) |-> Rearranged(Children(root)[i])])
<1> DEFINE Kids(f, n) == [i \in DOMAIN Children(n) |-> f[Children(n)[i]]]
           Eq(f, r) == f = [n \in Subtrees(r) |-> NodeRearranged(n, Kids(f, n))]
           Of(r) == CHOOSE f : Eq(f, r)
           Here(n) == NodeRearranged(n, [i \in DOMAIN Children(n) |-> Rearranged(Children(n)[i])])
           R == {m \in Subtrees(root) : Rearranged(m) = Here(m)}
           P == {n \in Subtrees(root) : Subtrees(n) \subseteq R}
<1>1. \A r : Rearranged(r) = Of(r)[r]
  BY DEF Rearranged, Walk, Subtrees
<1>2. ASSUME NEW n \in Subtrees(root), ToSet(Children(n)) \subseteq P  PROVE n \in P
  <2> DEFINE g == [m \in Subtrees(n) |-> Here(m)]
             f == Of(n)
             Q == {m \in Subtrees(n) : f[m] = Here(m)}
  <2>1. /\ Finite(n) /\ n \in Subtrees(n) /\ Subtrees(n) \subseteq Subtrees(root)
        /\ Subtrees(n) = {n} \cup UNION {Subtrees(c) : c \in ToSet(Children(n))}
    BY <1>2, SubtreeFacts
  <2>2. \A m \in Subtrees(n) : \A i \in DOMAIN Children(m) :
          Children(m)[i] \in Subtrees(n) /\ Children(m)[i] \in R
    <3>1. \A c \in ToSet(Children(n)) : Subtrees(c) \subseteq R
      BY <1>2
    <3> HIDE DEF R
    <3>2. QED  BY <2>1, <3>1, BelowRuled
  <2>3. \A d \in R : Rearranged(d) = Here(d)
    OBVIOUS
  <2> HIDE DEF Here, R
  <2>4. \A m \in Subtrees(n) : Here(m) = NodeRearranged(m, Kids(g, m))
    <3> SUFFICES ASSUME NEW m \in Subtrees(n)  PROVE Here(m) = NodeRearranged(m, Kids(g, m))
      OBVIOUS
    <3>1. \A i \in DOMAIN Children(m) : g[Children(m)[i]] = Rearranged(Children(m)[i])
      BY <2>2, <2>3
    <3> HIDE DEF g
    <3>2. Kids(g, m) = [i \in DOMAIN Children(m) |-> Rearranged(Children(m)[i])]
      BY <3>1
    <3>3. QED  BY <3>2 DEF Here
  <2>5. Eq(g, n)
    BY <2>4
  <2>6. Eq(f, n)
    <3> HIDE DEF Eq, g
    <3>1. QED  BY <2>5
  <2> HIDE DEF f, Of
  <2>7. ASSUME NEW m \in Subtrees(n), ToSet(Children(m)) \subseteq Q  PROVE m \in Q
    <3>1. \A i \in DOMAIN Children(m) : f[Children(m)[i]] = Rearranged(Children(m)[i])
      BY <2>2, <2>3, <2>7 DEF ToSet
    <3>2. Kids(f, m) = [i \in DOMAIN Children(m) |-> Rearranged(Children(m)[i])]
      BY <3>1
    <3>3. f[m] = NodeRearranged(m, Kids(f, m))
      BY <2>6
    <3>4. QED  BY <3>2, <3>3 DEF Here
  <2>8. Subtrees(n) \subseteq Q
    <3> HIDE DEF Q
    <3>1. QED  BY <2>1, <2>7, TreeInduction
  <2>9. n \in R
    BY <1>1, <2>1, <2>8 DEF R, f
  <2>10. Subtrees(n) \subseteq R
    BY <1>2, <2>1, <2>9
  <2>11. QED  BY <2>10
<1>3. Subtrees(root) \subseteq P
  <2> HIDE DEF P
  <2>1. QED  BY <1>2, TreeInduction
<1>4. root \in Subtrees(root)
  BY SubtreeFacts
<1>5. QED  BY <1>3, <1>4

\* A writing of an operator node with l children: one of them written
\* differently, all reversed, the first repeated, the first few grouped, or k
\* under its deprecated name.
WrittenAs(other, n, l, writings) ==
  \/ \E j \in 1 .. l : \E r \in writings[j] :
       other = [n EXCEPT !.children = ReplaceAt(n.children, j, r)]
  \/ /\ n.operator \in Commutative
     /\ other = [n EXCEPT !.children = Reverse(n.children)]
  \/ /\ n.operator \in {"AND", "OR", "NAND", "NOR"}
     /\ other = [n EXCEPT !.children = Append(n.children, n.children[1])]
  \/ /\ n.operator \in {"AND", "OR"}
     /\ \E j \in 1 .. l :
          other = [n EXCEPT !.children =
                     <<Operator(n.operator, SubSeq(n.children, 1, j))>>
                       \o SubSeq(n.children, j + 1, l)]
  \/ other = [n EXCEPT !.k = <<>>, !.threshold = IF n.k = <<>> THEN @ ELSE n.k]

LEMMA NodeRearrangedForms ==
  ASSUME NEW n, n.kind = "operator", NEW l, l = Len(n.children), NEW writings
  PROVE  \A other \in NodeRearranged(n, writings) : WrittenAs(other, n, l, writings)
<1> SUFFICES ASSUME NEW other \in NodeRearranged(n, writings)
             PROVE  WrittenAs(other, n, l, writings)
  OBVIOUS
<1> DEFINE A == {[n EXCEPT !.children = ReplaceAt(n.children, p[1], p[2])] :
                   p \in UNION {{i} \X writings[i] : i \in 1 .. l}}
           B == IF n.operator \notin Commutative THEN {}
                ELSE {[n EXCEPT !.children = Reverse(n.children)]}
           C == IF n.operator \notin {"AND", "OR", "NAND", "NOR"} THEN {}
                ELSE {[n EXCEPT !.children = Append(n.children, n.children[1])]}
           D == IF n.operator \notin {"AND", "OR"} THEN {}
                ELSE {[n EXCEPT !.children =
                         <<Operator(n.operator, SubSeq(n.children, 1, i))>>
                           \o SubSeq(n.children, i + 1, l)] : i \in 1 .. l}
           E == {[n EXCEPT !.k = <<>>, !.threshold = IF n.k = <<>> THEN @ ELSE n.k]}
<1>1. other \in A \cup B \cup C \cup D \cup E
  <2>1. n.kind # "condition" /\ Len(n.children) = l
    OBVIOUS
  <2>2. NodeRearranged(n, writings) = A \cup B \cup C \cup D \cup E
    BY ONLY <2>1 DEF NodeRearranged
  <2> HIDE DEF A, B, C, D, E
  <2>3. QED  BY <2>2
<1>2. CASE other \in A
  <2>1. PICK p \in UNION {{i} \X writings[i] : i \in 1 .. l} :
          other = [n EXCEPT !.children = ReplaceAt(n.children, p[1], p[2])]
    BY <1>2
  <2>2. PICK j \in 1 .. l : p \in {j} \X writings[j]
    BY ONLY <2>1, p \in UNION {{i} \X writings[i] : i \in 1 .. l}
  <2>3. PICK r \in writings[j] : p[1] = j /\ p[2] = r
    BY ONLY <2>2
  <2>4. other = [n EXCEPT !.children = ReplaceAt(n.children, j, r)]
    BY <2>1, <2>3
  <2>5. QED  BY <2>4 DEF WrittenAs
<1>3. CASE other \in B
  BY ONLY <1>3 DEF WrittenAs
<1>4. CASE other \in C
  BY ONLY <1>4 DEF WrittenAs
<1>5. CASE other \in D
  BY ONLY <1>5 DEF WrittenAs
<1>6. CASE other \in E
  BY ONLY <1>6 DEF WrittenAs
<1> HIDE DEF A, B, C, D, E
<1>7. QED  BY <1>1, <1>2, <1>3, <1>4, <1>5, <1>6

\* A node of a policy that canonicalizes, written differently: every writing
\* goes back to it, where the writings of its children go back to them.
LEMMA NodeRearrangedReturns ==
  ASSUME NEW n, IsTree(n), Known(n), NodeAccepted(n), n.kind = "operator",
         NEW writings, DOMAIN writings = DOMAIN n.children,
         \A i \in DOMAIN n.children : \A r \in writings[i] :
           Finite(r) /\ Canonical(r) = Canonical(n.children[i])
  PROVE  \A other \in NodeRearranged(n, writings) : Returns(other, n)
<1>1. PICK l : ParentOf(n, l) /\ l = Len(n.children)
  BY ChildrenCanonical
<1>2. l \in Nat /\ DOMAIN n.children = 1 .. l
  BY <1>1 DEF ParentOf
<1>3. l # 0
  <2>1. n.children # <<>>
    BY DEF NodeAccepted
  <2>2. l = 0 => n.children = <<>>
    <3>1. n.children \in Seq(ToSet(n.children))
      BY <1>1 DEF ParentOf, IsNode
    <3>2. QED  BY <1>1, <3>1, EmptySeq
  <2>3. QED  BY <2>1, <2>2
<1> SUFFICES ASSUME NEW other \in NodeRearranged(n, writings)  PROVE Returns(other, n)
  OBVIOUS
<1>4. WrittenAs(other, n, l, writings)
  BY <1>1, NodeRearrangedForms
<1>5. CASE \E j \in 1 .. l : \E r \in writings[j] :
             other = [n EXCEPT !.children = ReplaceAt(n.children, j, r)]
  <2>1. PICK j \in 1 .. l : \E r \in writings[j] :
          other = [n EXCEPT !.children = ReplaceAt(n.children, j, r)]
    BY <1>5
  <2>2. PICK r \in writings[j] : other = [n EXCEPT !.children = ReplaceAt(n.children, j, r)]
    BY <2>1
  <2>3. Finite(r) /\ Canonical(r) = Canonical(n.children[j])
    BY <1>2
  <2>4. QED  BY <1>1, <2>2, <2>3, ReplacedReturns
<1>6. CASE /\ n.operator \in Commutative
           /\ other = [n EXCEPT !.children = Reverse(n.children)]
  BY <1>1, <1>6, ReversedReturns
<1>7. CASE /\ n.operator \in {"AND", "OR", "NAND", "NOR"}
           /\ other = [n EXCEPT !.children = Append(n.children, n.children[1])]
  <2>1. n.operator \in DuplicateInsensitive
    BY <1>7 DEF DuplicateInsensitive
  <2>2. QED  BY <1>1, <1>3, <1>7, <2>1, RepeatedReturns
<1>8. CASE /\ n.operator \in {"AND", "OR"}
           /\ \E j \in 1 .. l :
                other = [n EXCEPT !.children =
                           <<Operator(n.operator, SubSeq(n.children, 1, j))>>
                             \o SubSeq(n.children, j + 1, l)]
  <2>1. n.operator \in Associative
    BY <1>8 DEF Associative
  <2>2. PICK j \in 1 .. l :
          other = [n EXCEPT !.children =
                     <<Operator(n.operator, SubSeq(n.children, 1, j))>>
                       \o SubSeq(n.children, j + 1, l)]
    BY <1>8
  <2>3. Returns([n EXCEPT !.children =
                   <<Operator(n.operator, SubSeq(n.children, 1, j))>>
                     \o SubSeq(n.children, j + 1, l)], n)
    BY <1>1, <2>1, GroupedReturns
  <2>4. QED  BY <2>2, <2>3
<1>9. CASE other = [n EXCEPT !.k = <<>>, !.threshold = IF n.k = <<>> THEN @ ELSE n.k]
  BY <1>1, <1>9, RenamedReturns
<1>10. QED  BY <1>4, <1>5, <1>6, <1>7, <1>8, <1>9 DEF WrittenAs

\* The canonical form forgets how a policy was written down.
LEMMA RearrangedReturns ==
  ASSUME NEW root, IsTree(root), Known(root), Canonicalizes(root)
  PROVE  \A other \in Rearranged(root) : Canonical(other) = Canonical(root)
<1> DEFINE Settles(n) == \A other \in Rearranged(n) :
                           Finite(other) /\ Canonical(other) = Canonical(n)
           P == {n \in Subtrees(root) : Settles(n)}
<1>1. ASSUME NEW n \in Subtrees(root), ToSet(Children(n)) \subseteq P  PROVE Settles(n)
  <2>1. IsTree(n) /\ IsNode(n) /\ Finite(n) /\ Subtrees(n) \subseteq Subtrees(root)
    <3>1. Finite(root) /\ IsTree(n)
      BY TreeParts
    <3>2. QED  BY <3>1, TreeParts, SubtreeFacts
  <2>2. Known(n) /\ NodeAccepted(n)
    BY <2>1 DEF Known, Canonicalizes
  <2>3. PICK w : w = [i \in DOMAIN Children(n) |-> Rearranged(Children(n)[i])]
    OBVIOUS
  <2>4. Rearranged(n) = NodeRearranged(n, w)
    BY <2>1, <2>3, RearrangedRule
  <2>5. CASE n.kind = "operator"
    <3>1. PICK kids : kids = n.children /\ kids = Children(n)
      BY <2>5 DEF Children
    <3>2. DOMAIN w = DOMAIN kids
      BY <2>3, <3>1
    <3>3. \A i \in DOMAIN kids : \A r \in w[i] : Finite(r) /\ Canonical(r) = Canonical(kids[i])
      <4> SUFFICES ASSUME NEW i \in DOMAIN kids, NEW r \in w[i]
                   PROVE  Finite(r) /\ Canonical(r) = Canonical(kids[i])
        OBVIOUS
      <4>1. kids[i] \in P
        BY <1>1, <3>1 DEF ToSet
      <4>2. w[i] = Rearranged(kids[i])
        BY <2>3, <3>1
      <4>3. QED  BY <4>1, <4>2
    <3>4. \A other \in NodeRearranged(n, w) : Returns(other, n)
      <4> HIDE DEF Settles, P
      <4>1. QED  BY <2>1, <2>2, <2>5, <3>1, <3>2, <3>3, NodeRearrangedReturns
    <3>5. Canonical(n) = CanonicalNode(n, Canonicals(kids))
      BY <2>1, <2>2, <2>5, <3>1, ChildrenCanonical
    <3>6. QED  BY <2>4, <3>1, <3>4, <3>5 DEF Returns
  <2>6. CASE n.kind # "operator"
    <3>1. n.kind = "condition"
      BY <2>1, <2>6 DEF IsNode
    <3>2. NodeRearranged(n, w) = {n}
      BY <3>1 DEF NodeRearranged
    <3>3. QED  BY <2>1, <2>4, <3>2
  <2>7. QED  BY <2>5, <2>6
<1>2. Finite(root) /\ root \in Subtrees(root)
  BY TreeParts, SubtreeFacts
<1>3. \A n \in Subtrees(root) : ToSet(Children(n)) \subseteq P => n \in P
  <2> HIDE DEF Settles
  <2>1. QED  BY <1>1
<1>4. Subtrees(root) \subseteq P
  <2> HIDE DEF P
  <2>1. QED  BY <1>2, <1>3, TreeInduction
<1>5. QED  BY <1>2, <1>4

LEMMA LayoutIsForgotten ==
  ASSUME LaneInv
  PROVE  LayoutForgotten
<1> SUFFICES ASSUME doc # <<>>, Canonicalizes(doc[1]),
                    NEW other \in Rearranged(doc[1]) \cup {Canonical(doc[1])}
             PROVE  Canonical(other) = Canonical(doc[1])
  BY DEF LayoutForgotten
<1>1. PICK root : root = doc[1]
  OBVIOUS
<1>2. IsTree(root) /\ Known(root) /\ Canonicalizes(root)
  BY <1>1, CanonicalizesKnown DEF LaneInv, Held
<1>3. CASE other \in Rearranged(doc[1])
  BY <1>1, <1>2, <1>3, RearrangedReturns
<1>4. CASE other = Canonical(doc[1])
  <2>1. NormalTree(Canonical(root))
    BY <1>2, CanonicalIsNormal
  <2>2. Canonical(Canonical(root)) = Canonical(root)
    BY <2>1, NormalIsCanonical
  <2>3. QED  BY <1>1, <1>4, <2>2
<1>5. QED  BY <1>3, <1>4

\* However a policy was written down - siblings swapped, repeated or grouped
\* where that does not matter, k under its deprecated name, at any depth -
\* canonicalizePolicyAst returns the same tree.
THEOREM LayoutForgottenAlways == Spec => []LayoutForgotten
BY LaneInvInductive, LayoutIsForgotten, PTL

\* The canonical form is a normal form of policies: one for every writing, the
\* same after a trip through its bytes, and no less accepted by the gate.
THEOREM CanonicalIsNormalForm == Spec => []NormalForm
<1>1. LayoutForgotten /\ RoundTrip /\ GateSurvivesCanonical => NormalForm
  BY DEF NormalForm
<1>2. QED  BY LayoutForgottenAlways, EncodingReturnsAlways, GateSurvivesAlways, <1>1, PTL

\* A group of children under an operator of its own is one that is taken too.
LEMMA GroupWritable ==
  ASSUME NEW n, IsNode(n), NodeAccepted(n), n.kind = "operator", n.operator \in Associative,
         NEW S, \A c \in S : Writable(c), NEW L \in Seq(S), L # <<>>
  PROVE  Writable(Operator(n.operator, L))
<1>1. PICK op, g : op = n.operator /\ g = Operator(op, L)
  OBVIOUS
<1>2. /\ op \in ToSet(Texts) /\ op \in Operators /\ op \notin Unary
  <2>1. op \in ToSet(Texts)
    BY <1>1 DEF IsNode
  <2>2. QED  BY <1>1, <2>1 DEF NodeAccepted, Associative, Unary
<1>3. /\ g.kind = "operator" /\ g.operator = op /\ g.children = L /\ g.k = <<>>
      /\ g.weights = <<>> /\ g.threshold = <<>> /\ g.weight = <<>>
  BY <1>1 DEF Operator
<1>4. L \in Seq(ToSet(L)) /\ ToSet(L) \subseteq S
  BY RowOfSet
<1>5. IsNode(g)
  <2>1. \A T : <<>> \in Optional(T)
    BY DEF Optional
  <2>2. g \in [kind : {"operator"}, operator : ToSet(Texts), children : {g.children},
               k : Optional(Int), weights : Optional(Seq(Int)), threshold : Optional(Int),
               weight : Optional(Int)]
    BY <1>1, <1>2, <2>1 DEF Operator
  <2>3. QED  BY <1>3, <1>4, <2>2 DEF IsNode
<1>6. NodeAccepted(g)
  <2>1. OperatorParamsAccepted(g)
    BY <1>3 DEF OperatorParamsAccepted, Every
  <2>2. Every(g.weight, IsCount)
    BY <1>3 DEF Every
  <2>3. QED  BY <1>2, <1>3, <2>1, <2>2 DEF NodeAccepted
<1>7. Children(g) = L
  BY <1>3 DEF Children
<1>8. Writable(g)
  BY <1>4, <1>5, <1>6, <1>7, WritableFrom
<1>9. QED  BY <1>1, <1>8

\* A node that is taken, written differently, is one, where every writing of
\* its children is one.
LEMMA NodeRearrangedWritable ==
  ASSUME NEW n, Writable(n), n.kind = "operator",
         NEW writings, DOMAIN writings = DOMAIN n.children,
         \A i \in DOMAIN n.children : \A r \in writings[i] : Writable(r)
  PROVE  \A other \in NodeRearranged(n, writings) : Writable(other)
<1>1. /\ IsNode(n) /\ NodeAccepted(n) /\ n.children \in Seq(ToSet(n.children))
      /\ n.children # <<>> /\ \A c \in ToSet(n.children) : Writable(c)
  <2>1. Children(n) = n.children
    BY DEF Children
  <2>2. IsNode(n) /\ NodeAccepted(n) /\ \A c \in ToSet(n.children) : Writable(c)
    BY <2>1, WritableParts
  <2>3. QED  BY <2>2 DEF IsNode, NodeAccepted
<1>2. PICK S, kids, l : S = ToSet(n.children) /\ kids = n.children /\ l = Len(kids)
  OBVIOUS
<1>3. /\ kids \in Seq(S) /\ kids # <<>> /\ l \in Nat /\ l # 0 /\ DOMAIN kids = 1 .. l
      /\ \A i \in 1 .. l : kids[i] \in S
  BY <1>1, <1>2, LenProperties, EmptySeq DEF ToSet
<1>4. n.operator \in Unary => l = 1
  BY <1>1, <1>2 DEF NodeAccepted
<1>5. ASSUME NEW T, \A c \in T : Writable(c), NEW L \in Seq(T), L # <<>>,
             n.operator \in Unary => Len(L) = 1
      PROVE  Writable([n EXCEPT !.children = L])
  BY <1>1, <1>5, WritableOver
<1>6. SUFFICES ASSUME NEW other \in NodeRearranged(n, writings)  PROVE Writable(other)
  OBVIOUS
<1>7. ASSUME NEW j \in 1 .. l, NEW r \in writings[j]
      PROVE  Writable([n EXCEPT !.children = ReplaceAt(n.children, j, r)])
  <2>1. PICK L : L = ReplaceAt(kids, j, r)
    OBVIOUS
  <2>2. L = [i \in 1 .. l |-> IF i = j THEN r ELSE kids[i]]
    BY <1>3, <2>1 DEF ReplaceAt
  <2>3. L \in [1 .. l -> S \cup {r}]
    BY <1>3, <2>2
  <2>4. L \in Seq(S \cup {r}) /\ Len(L) = l
    BY <1>3, <2>3, FunctionIsSeq
  <2>5. L # <<>>
    BY <1>3, <2>4, EmptySeq
  <2>6. Writable(r)
    BY <1>2, <1>3, <1>7
  <2>7. \A c \in S \cup {r} : Writable(c)
    BY <1>1, <1>2, <2>6
  <2>8. QED  BY <1>2, <1>4, <1>5, <2>1, <2>4, <2>5, <2>7
<1>8. n.operator \in Commutative => Writable([n EXCEPT !.children = Reverse(n.children)])
  <2>1. PICK L : L = Reverse(kids)
    OBVIOUS
  <2>2. L = [i \in 1 .. l |-> kids[(l - i) + 1]]
    BY <1>2, <2>1 DEF Reverse
  <2>3. \A i \in 1 .. l : (l - i) + 1 \in 1 .. l
    BY <1>3
  <2>4. L \in [1 .. l -> S]
    BY <1>3, <2>2, <2>3
  <2>5. L \in Seq(S) /\ Len(L) = l
    BY <1>3, <2>4, FunctionIsSeq
  <2>6. L # <<>>
    BY <1>3, <2>5, EmptySeq
  <2>7. QED  BY <1>1, <1>2, <1>4, <1>5, <2>1, <2>5, <2>6
<1>9. n.operator \in {"AND", "OR", "NAND", "NOR"} =>
        Writable([n EXCEPT !.children = Append(n.children, n.children[1])])
  <2>1. PICK L : L = Append(kids, kids[1])
    OBVIOUS
  <2>2. kids[1] \in S
    BY <1>3
  <2>3. L \in Seq(S) /\ L # <<>>
    BY <1>3, <2>1, <2>2, AppendProperties, EmptySeq
  <2>4. n.operator \in {"AND", "OR", "NAND", "NOR"} => n.operator \notin Unary
    BY DEF Unary
  <2>5. QED  BY <1>1, <1>2, <1>5, <2>1, <2>3, <2>4
<1>10. ASSUME n.operator \in {"AND", "OR"}, NEW j \in 1 .. l
       PROVE  Writable([n EXCEPT !.children =
                          <<Operator(n.operator, SubSeq(n.children, 1, j))>>
                            \o SubSeq(n.children, j + 1, l)])
  <2>1. PICK head, rest : head = SubSeq(kids, 1, j) /\ rest = SubSeq(kids, j + 1, l)
    OBVIOUS
  <2>2. PICK g : g = Operator(n.operator, head)
    OBVIOUS
  <2>3. head \in Seq(S) /\ Len(head) = j
    BY <1>2, <1>3, <2>1, SubSeqProperties
  <2>4. head # <<>>
    BY <2>3
  <2>5. n.operator \in Associative /\ n.operator \notin Unary
    BY <1>10 DEF Associative, Unary
  <2>6. Writable(g)
    BY <1>1, <1>2, <2>2, <2>3, <2>4, <2>5, GroupWritable
  <2>7. rest \in Seq(S)
    <3>1. j + 1 \in Nat /\ l \in Nat /\ l = Len(kids) /\ 1 <= j + 1
      BY <1>2, <1>3
    <3>2. QED  BY <1>3, <2>1, <3>1, SubSeqProperties
  <2>8. PICK L : L = <<g>> \o rest
    OBVIOUS
  <2>9. L \in Seq(S \cup {g}) /\ L # <<>>
    <3>1. rest \in Seq(S \cup {g}) /\ <<g>> \in Seq(S \cup {g}) /\ Len(<<g>>) = 1
      BY <2>7
    <3>2. L \in Seq(S \cup {g}) /\ Len(L) = 1 + Len(rest) /\ Len(rest) \in Nat
      BY <2>8, <3>1, ConcatProperties, LenProperties
    <3>3. QED  BY <3>2
  <2>10. \A c \in S \cup {g} : Writable(c)
    BY <1>1, <1>2, <2>6
  <2>11. Writable([n EXCEPT !.children = L])
    BY <1>5, <2>5, <2>9, <2>10
  <2>12. QED  BY <1>2, <2>1, <2>2, <2>8, <2>11
<1>11. Writable([n EXCEPT !.k = <<>>, !.threshold = IF n.k = <<>> THEN @ ELSE n.k])
  BY RenamedWritable
<1>12. WrittenAs(other, n, l, writings)
  BY <1>2, <1>6, NodeRearrangedForms
<1>13. QED  BY <1>7, <1>8, <1>9, <1>10, <1>11, <1>12 DEF WrittenAs

LEMMA RearrangedWritable ==
  ASSUME NEW root, Writable(root)
  PROVE  \A other \in Rearranged(root) : Writable(other) /\ Canonical(other) = Canonical(root)
<1> DEFINE Kept(n) == \A other \in Rearranged(n) : Writable(other)
           P == {n \in Subtrees(root) : Kept(n)}
<1>1. IsTree(root) /\ Finite(root) /\ Known(root) /\ Canonicalizes(root)
  BY WritableParts DEF Writable
<1>2. ASSUME NEW n \in Subtrees(root), ToSet(Children(n)) \subseteq P  PROVE Kept(n)
  <2>1. IsTree(n) /\ IsNode(n) /\ Finite(n) /\ Subtrees(n) \subseteq Subtrees(root)
    <3>1. Finite(root) /\ IsTree(n)
      BY <1>1, TreeParts
    <3>2. QED  BY <3>1, TreeParts, SubtreeFacts
  <2>2. Writable(n)
    BY <1>1, <2>1 DEF Writable, Canonicalizes
  <2>3. PICK w : w = [i \in DOMAIN Children(n) |-> Rearranged(Children(n)[i])]
    OBVIOUS
  <2>4. Rearranged(n) = NodeRearranged(n, w)
    BY <2>1, <2>3, RearrangedRule
  <2>5. CASE n.kind = "operator"
    <3>1. Children(n) = n.children
      BY <2>5 DEF Children
    <3>2. DOMAIN w = DOMAIN n.children
      BY <2>3, <3>1
    <3>3. \A i \in DOMAIN n.children : \A r \in w[i] : Writable(r)
      <4> SUFFICES ASSUME NEW i \in DOMAIN n.children, NEW r \in w[i]  PROVE Writable(r)
        OBVIOUS
      <4>1. n.children[i] \in P
        BY <1>2, <3>1 DEF ToSet
      <4>2. w[i] = Rearranged(n.children[i])
        BY <2>3, <3>1
      <4>3. QED  BY <4>1, <4>2
    <3> HIDE DEF P, Kept
    <3>4. \A other \in NodeRearranged(n, w) : Writable(other)
      BY <2>2, <2>5, <3>2, <3>3, NodeRearrangedWritable
    <3>5. QED  BY <2>4, <3>4 DEF Kept
  <2>6. CASE n.kind # "operator"
    <3>1. n.kind = "condition"
      BY <2>1, <2>6 DEF IsNode
    <3>2. NodeRearranged(n, w) = {n}
      BY <3>1 DEF NodeRearranged
    <3>3. QED  BY <2>2, <2>4, <3>2
  <2>7. QED  BY <2>5, <2>6
<1>3. root \in Subtrees(root)
  BY <1>1, SubtreeFacts
<1>4. \A n \in Subtrees(root) : ToSet(Children(n)) \subseteq P => n \in P
  <2> HIDE DEF Kept
  <2>1. QED  BY <1>2
<1>5. Subtrees(root) \subseteq P
  <2> HIDE DEF P
  <2>1. QED  BY <1>1, <1>4, TreeInduction
<1>6. \A other \in Rearranged(root) : Writable(other)
  BY <1>3, <1>5
<1>7. \A other \in Rearranged(root) : Canonical(other) = Canonical(root)
  BY <1>1, RearrangedReturns
<1>8. QED  BY <1>6, <1>7

\* A policy that canonicalizePolicyAst takes and that is written differently,
\* then differently again, and so on, any number of times, still has the
\* canonical form it started with.
THEOREM RewritingForgotten ==
  ASSUME NEW s, Writable(s[0]), NEW n \in Nat,
         \A i \in 0 .. n - 1 : s[i + 1] \in Rearranged(s[i])
  PROVE  Canonical(s[n]) = Canonical(s[0])
<1> DEFINE S == {m \in Nat : m <= n => Writable(s[m]) /\ Canonical(s[m]) = Canonical(s[0])}
<1>1. 0 \in S
  OBVIOUS
<1>2. ASSUME NEW m \in Nat, m \in S  PROVE m + 1 \in S
  <2> SUFFICES ASSUME m + 1 <= n
               PROVE  Writable(s[m + 1]) /\ Canonical(s[m + 1]) = Canonical(s[0])
    OBVIOUS
  <2>1. Writable(s[m]) /\ Canonical(s[m]) = Canonical(s[0])
    BY <1>2
  <2>2. s[m + 1] \in Rearranged(s[m])
    OBVIOUS
  <2>3. QED  BY <2>1, <2>2, RearrangedWritable
<1>3. \A m \in Nat : m \in S
  <2> HIDE DEF S
  <2>1. QED  BY <1>1, <1>2, CountUp
<1>4. QED  BY <1>3

=============================================================================
