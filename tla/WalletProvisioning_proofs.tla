---------------------- MODULE WalletProvisioning_proofs ----------------------
(***************************************************************************)
(* Proofs about wallets and their provisioning.  Of the builder: what its  *)
(* two sorts return, that there is only one ascending arrangement of what  *)
(* they are given, and therefore that a wallet is the same whatever order  *)
(* its signers and sets came in.  Of the tree: that the leaves of every    *)
(* wallet whose roots differ hash to one root by the path recorded for     *)
(* each, that the root tells branch and index apart, and that the number   *)
(* pushed for a decay delay is the number meant.  Of the provisioning, for *)
(* every set of sources and reservations: what a reservation stores is     *)
(* what its own intent describes, what the application was told is done    *)
(* has been done, a stored template resolves to the wallet it was made of, *)
(* every wallet is in its canonical form, and the tree of every wallet is  *)
(* what the wallet says.                                                   *)
(***************************************************************************)
EXTENDS WalletProvisioning, FiniteSetTheorems, SequenceTheorems, WellFoundedInduction, TLAPS

-----------------------------------------------------------------------------
(* The builder.                                                            *)

\* The comparison orders the elements of s, some of them perhaps tied.
WeakOrder(less, s) ==
  /\ \A i \in DOMAIN s : <<s[i], s[i]>> \notin less
  /\ \A i, j, k \in DOMAIN s :
       <<s[i], s[j]>> \in less /\ <<s[j], s[k]>> \in less => <<s[i], s[k]>> \in less
  /\ \A i, j, k \in DOMAIN s :
       <<s[i], s[j]>> \notin less /\ <<s[j], s[k]>> \notin less
         => <<s[i], s[k]>> \notin less

\* t is s in another order.
Permutes(p, s, t) ==
  /\ p \in Bijection(DOMAIN s, DOMAIN s)
  /\ DOMAIN t = DOMAIN s
  /\ \A k \in DOMAIN s : t[k] = s[p[k]]

\* A function on 1 .. n is a sequence of length n.
LEMMA FunctionIsSeq ==
  ASSUME NEW S, NEW n \in Nat, NEW c \in [1 .. n -> S]
  PROVE  c \in Seq(S) /\ Len(c) = n
BY SeqDef

\* StableSort returns every element once, and none before one it comes after.
LEMMA SortPermutes ==
  ASSUME NEW n \in Nat, NEW s, DOMAIN s = 1 .. n, NEW less, WeakOrder(less, s)
  PROVE  LET t == StableSort(s, less)
         IN  /\ \E p : Permutes(p, s, t)
             /\ \A i, j \in 1 .. n : i < j => <<t[j], t[i]>> \notin less
<1> DEFINE D == 1 .. n
           B(i, j) == \/ <<s[i], s[j]>> \in less
                      \/ <<s[j], s[i]>> \notin less /\ i < j
           Under(j) == {i \in D : B(i, j)}
           rank == [j \in D |-> Cardinality(Under(j))]
           p == [k \in D |-> CHOOSE j \in D : rank[j] = k - 1]
           t == StableSort(s, less)
<1>1. /\ \A i \in D : ~B(i, i)
      /\ \A i, j, k \in D : B(i, j) /\ B(j, k) => B(i, k)
      /\ \A i, j \in D : i # j => B(i, j) \/ B(j, i)
  <2>1. ASSUME NEW i \in D  PROVE ~B(i, i)
    <3>1. ~(i < i)
      OBVIOUS
    <3>2. QED  BY <3>1 DEF WeakOrder
  <2>2. \A i, j \in D : i # j => B(i, j) \/ B(j, i)
    OBVIOUS
  <2>3. ASSUME NEW i \in D, NEW j \in D, NEW k \in D, B(i, j), B(j, k)
        PROVE  B(i, k)
    <3>1. ~(<<s[j], s[i]>> \in less) /\ ~(<<s[k], s[j]>> \in less)
      BY <2>3 DEF WeakOrder
    <3>2. <<s[k], s[i]>> \notin less
      BY <3>1 DEF WeakOrder
    <3>3. CASE i < k
      BY <3>2, <3>3
    <3>4. CASE ~(i < k)
      <4>1. <<s[i], s[j]>> \in less \/ <<s[j], s[k]>> \in less
        BY <2>3, <3>4
      <4>2. CASE <<s[i], s[k]>> \notin less
        <5>1. <<s[i], s[j]>> \in less => <<s[k], s[j]>> \in less
          BY <3>2, <4>2 DEF WeakOrder
        <5>2. <<s[j], s[k]>> \in less => <<s[j], s[i]>> \in less
          BY <3>2, <4>2 DEF WeakOrder
        <5>3. QED  BY <3>1, <4>1, <5>1, <5>2
      <4>3. QED  BY <4>2
    <3>5. QED  BY <3>3, <3>4
  <2>4. QED  BY <2>1, <2>2, <2>3
<1> HIDE DEF B
<1>2. \A j \in D : IsFiniteSet(Under(j)) /\ Cardinality(Under(j)) \in 0 .. n - 1
  <2> SUFFICES ASSUME NEW j \in D
               PROVE  IsFiniteSet(Under(j)) /\ Cardinality(Under(j)) \in 0 .. n - 1
    OBVIOUS
  <2>1. IsFiniteSet(D) /\ Cardinality(D) = n
    BY FS_Interval
  <2>2. IsFiniteSet(D \ {j}) /\ Cardinality(D \ {j}) = n - 1
    BY <2>1, FS_RemoveElement
  <2>3. Under(j) \in SUBSET (D \ {j})
    BY <1>1
  <2>4. IsFiniteSet(Under(j)) /\ Cardinality(Under(j)) <= n - 1
    BY <2>2, <2>3, FS_Subset
  <2>5. Cardinality(Under(j)) \in Nat
    BY <2>4, FS_CardinalityType
  <2>6. QED  BY <2>4, <2>5
<1>3. ASSUME NEW i \in D, NEW j \in D, B(i, j)  PROVE rank[i] < rank[j]
  <2>1. Under(i) \in SUBSET Under(j) /\ i \in Under(j) /\ i \notin Under(i)
    BY <1>1, <1>3
  <2>2. Under(i) # Under(j)
    BY <2>1
  <2>3. /\ Cardinality(Under(i)) <= Cardinality(Under(j))
        /\ Cardinality(Under(i)) # Cardinality(Under(j))
    BY <1>2, <2>1, <2>2, FS_Subset
  <2>4. Cardinality(Under(i)) \in 0 .. n - 1 /\ Cardinality(Under(j)) \in 0 .. n - 1
    BY <1>2
  <2> HIDE DEF Under
  <2>5. QED  BY <2>3, <2>4
<1>4. rank \in Bijection(D, 0 .. n - 1)
  <2>1. rank \in [D -> 0 .. n - 1]
    BY <1>2
  <2>2. ASSUME NEW i \in D, NEW j \in D, rank[i] = rank[j]  PROVE i = j
    <3> HIDE DEF rank
    <3>1. rank[i] \in 0 .. n - 1 /\ rank[j] \in 0 .. n - 1
      BY <2>1
    <3>2. ~(rank[i] < rank[j]) /\ ~(rank[j] < rank[i])
      BY <2>2, <3>1
    <3>3. ~B(i, j) /\ ~B(j, i)
      BY <1>3, <3>2
    <3>4. QED  BY <1>1, <3>3
  <2> HIDE DEF rank
  <2>3. rank \in Injection(D, 0 .. n - 1)
    BY <2>1, <2>2 DEF Injection, IsInjective
  <2>4. IsFiniteSet(0 .. n - 1) /\ Cardinality(0 .. n - 1) = n
    <3>1. 0 \in Int /\ n - 1 \in Int
      OBVIOUS
    <3>2. /\ IsFiniteSet(0 .. n - 1)
          /\ Cardinality(0 .. n - 1) = IF 0 > n - 1 THEN 0 ELSE (n - 1) - 0 + 1
      BY ONLY <3>1, FS_Interval
    <3>3. QED  BY <3>2
  <2>5. Cardinality(D) = n
    BY FS_Interval
  <2>6. rank \in Surjection(D, 0 .. n - 1)
    BY <2>3, <2>4, <2>5, FS_Injection
  <2>7. QED  BY <2>3, <2>6 DEF Bijection
<1>5. t = [k \in D |-> s[CHOOSE j \in D : rank[j] = k - 1]]
  BY DEF StableSort, B
<1> HIDE DEF rank
<1>6. \A k \in D : p[k] \in D /\ rank[p[k]] = k - 1
  <2> SUFFICES ASSUME NEW k \in D  PROVE p[k] \in D /\ rank[p[k]] = k - 1
    OBVIOUS
  <2>1. k - 1 \in 0 .. n - 1
    OBVIOUS
  <2>2. \E j \in D : rank[j] = k - 1
    BY <1>4, <2>1 DEF Bijection, Surjection
  <2>3. QED  BY <2>2
<1>7. p \in Bijection(D, D)
  <2>1. p \in [D -> D]
    BY <1>6
  <2>2. ASSUME NEW k \in D, NEW m \in D, p[k] = p[m]  PROVE k = m
    <3>1. k - 1 = m - 1
      BY <1>6, <2>2
    <3>2. QED  BY <3>1
  <2>3. \A j \in D : \E k \in D : p[k] = j
    <3> SUFFICES ASSUME NEW j \in D  PROVE \E k \in D : p[k] = j
      OBVIOUS
    <3>1. rank[j] \in 0 .. n - 1
      BY <1>4 DEF Bijection, Injection
    <3>2. rank[j] + 1 \in D /\ (rank[j] + 1) - 1 = rank[j]
      BY <3>1
    <3>3. rank[p[rank[j] + 1]] = rank[j] /\ p[rank[j] + 1] \in D
      BY <1>6, <3>2
    <3>4. p[rank[j] + 1] = j
      BY <1>4, <3>3 DEF Bijection, Injection, IsInjective
    <3>5. QED  BY <3>2, <3>4
  <2> HIDE DEF p
  <2>4. QED  BY <2>1, <2>2, <2>3 DEF Bijection, Injection, Surjection, IsInjective
<1>8. Permutes(p, s, t)
  <2>1. DOMAIN t = D /\ \A k \in D : t[k] = s[p[k]]
    BY <1>5
  <2>2. QED  BY <1>7, <2>1 DEF Permutes
<1> HIDE DEF p, t
<1>9. ASSUME NEW i \in 1 .. n, NEW j \in 1 .. n, i < j
      PROVE  <<t[j], t[i]>> \notin less
  <2>1. t[i] = s[p[i]] /\ t[j] = s[p[j]] /\ p[i] \in D /\ p[j] \in D
    BY <1>6, <1>8 DEF Permutes
  <2>2. ~(rank[p[j]] < rank[p[i]])
    BY <1>6, <1>9
  <2>3. ~B(p[j], p[i])
    BY <1>3, <2>1, <2>2
  <2>4. QED  BY <2>1, <2>3 DEF B
<1>10. QED  BY <1>8, <1>9 DEF t

\* A bijection of two initial segments that keeps their order moves nothing.
LEMMA MonotoneIsIdentity ==
  ASSUME NEW n \in Nat, NEW m \in Nat, NEW g \in Bijection(1 .. n, 1 .. m),
         \A i, j \in 1 .. n : i < j => g[i] < g[j]
  PROVE  n = m /\ \A k \in 1 .. n : g[k] = k
<1>1. /\ g \in [1 .. n -> 1 .. m]
      /\ \A i, j \in 1 .. n : g[i] = g[j] => i = j
      /\ \A y \in 1 .. m : \E i \in 1 .. n : g[i] = y
  BY DEF Bijection, Injection, Surjection, IsInjective
<1>2. n = m
  <2>1. IsFiniteSet(1 .. n) /\ Cardinality(1 .. n) = n /\ Cardinality(1 .. m) = m
    BY FS_Interval
  <2>2. ExistsBijection(1 .. n, 1 .. m)
    BY DEF ExistsBijection
  <2>3. QED  BY <2>1, <2>2, FS_Bijection
<1>3. ASSUME NEW k \in 1 .. n  PROVE g[k] = k
  <2> DEFINE A == 1 .. k - 1
             C == 1 .. g[k] - 1
             h == [i \in A |-> g[i]]
  <2>1. g[k] \in 1 .. m /\ A \subseteq 1 .. n
    BY <1>1
  <2>2. h \in [A -> C]
    <3> SUFFICES ASSUME NEW i \in A  PROVE g[i] \in C
      OBVIOUS
    <3>1. i \in 1 .. n /\ i < k
      BY <2>1
    <3>2. g[i] < g[k] /\ g[i] \in 1 .. m
      BY <1>1, <3>1
    <3>3. QED  BY <2>1, <3>2
  <2>3. ASSUME NEW y \in C  PROVE \E i \in A : h[i] = y
    <3>1. y \in 1 .. m /\ y < g[k]
      BY <2>1
    <3>2. PICK i \in 1 .. n : g[i] = y
      BY <1>1, <3>1
    <3>3. i < k
      <4>1. i # k /\ ~(g[k] < g[i])
        BY <2>1, <3>1, <3>2
      <4>2. QED  BY <4>1
    <3>4. i \in A
      BY <3>3
    <3>5. QED  BY <3>2, <3>4
  <2>4. \A i, j \in A : h[i] = h[j] => i = j
    BY <1>1, <2>1
  <2>5. h \in Bijection(A, C)
    <3> HIDE DEF h, A, C
    <3>1. QED  BY <2>2, <2>3, <2>4 DEF Bijection, Injection, Surjection, IsInjective
  <2>6. IsFiniteSet(A) /\ Cardinality(A) = k - 1
    <3>1. 1 \in Int /\ k - 1 \in Int
      OBVIOUS
    <3>2. /\ IsFiniteSet(A)
          /\ Cardinality(A) = IF 1 > k - 1 THEN 0 ELSE (k - 1) - 1 + 1
      BY ONLY <3>1, FS_Interval
    <3>3. QED  BY <3>2
  <2>7. Cardinality(C) = g[k] - 1
    <3>1. 1 \in Int /\ g[k] - 1 \in Int
      BY <2>1
    <3>2. Cardinality(C) = IF 1 > g[k] - 1 THEN 0 ELSE (g[k] - 1) - 1 + 1
      BY ONLY <3>1, FS_Interval
    <3>3. QED  BY <2>1, <3>2
  <2>8. Cardinality(A) = Cardinality(C)
    <3> HIDE DEF h, A, C
    <3>1. ExistsBijection(A, C)
      BY <2>5 DEF ExistsBijection
    <3>2. QED  BY <2>6, <3>1, FS_Bijection
  <2> HIDE DEF A, C
  <2>9. QED  BY <2>1, <2>6, <2>7, <2>8
<1>4. QED  BY <1>2, <1>3

\* The first n elements of t stand strictly in order.
Strictly(less, n, t) ==
  /\ \A i, j \in 1 .. n : i < j => <<t[i], t[j]>> \in less
  /\ \A i, j \in 1 .. n : ~(<<t[i], t[j]>> \in less /\ <<t[j], t[i]>> \in less)

SameElements(n, t, m, u) ==
  /\ \A i \in 1 .. n : \E j \in 1 .. m : t[i] = u[j]
  /\ \A j \in 1 .. m : \E i \in 1 .. n : t[i] = u[j]

LEMMA SameElementsTransitive ==
  ASSUME NEW n, NEW t, NEW m, NEW u, NEW l, NEW v,
         SameElements(n, t, m, u), SameElements(m, u, l, v)
  PROVE  SameElements(n, t, l, v)
<1>1. ASSUME NEW i \in 1 .. n  PROVE \E k \in 1 .. l : t[i] = v[k]
  <2>1. PICK j \in 1 .. m : t[i] = u[j]
    BY DEF SameElements
  <2>2. PICK k \in 1 .. l : u[j] = v[k]
    BY DEF SameElements
  <2>3. QED  BY <2>1, <2>2
<1>2. ASSUME NEW k \in 1 .. l  PROVE \E i \in 1 .. n : t[i] = v[k]
  <2>1. PICK j \in 1 .. m : u[j] = v[k]
    BY DEF SameElements
  <2>2. PICK i \in 1 .. n : t[i] = u[j]
    BY DEF SameElements
  <2>3. QED  BY <2>1, <2>2
<1>3. QED  BY <1>1, <1>2 DEF SameElements

LEMMA SameElementsSymmetric ==
  ASSUME NEW n, NEW t, NEW m, NEW u, SameElements(n, t, m, u)
  PROVE  SameElements(m, u, n, t)
BY DEF SameElements

\* One ascending arrangement of given elements: two that hold the same
\* elements are equal.
LEMMA OneArrangement ==
  ASSUME NEW n \in Nat, NEW m \in Nat, NEW t, NEW u, NEW less,
         Strictly(less, n, t), Strictly(less, m, u), SameElements(n, t, m, u)
  PROVE  n = m /\ \A k \in 1 .. n : t[k] = u[k]
<1> USE DEF Strictly, SameElements
<1> DEFINE g == [i \in 1 .. n |-> CHOOSE j \in 1 .. m : t[i] = u[j]]
<1>1. \A i \in 1 .. n : g[i] \in 1 .. m /\ u[g[i]] = t[i]
  OBVIOUS
<1>2. \A i, j \in 1 .. n : t[i] = t[j] => i = j
  <2> SUFFICES ASSUME NEW i \in 1 .. n, NEW j \in 1 .. n, t[i] = t[j]  PROVE i = j
    OBVIOUS
  <2>1. <<t[i], t[j]>> \notin less /\ <<t[j], t[i]>> \notin less
    OBVIOUS
  <2>2. ~(i < j) /\ ~(j < i)
    BY <2>1
  <2>3. QED  BY <2>2
<1>3. \A i, j \in 1 .. m : u[i] = u[j] => i = j
  <2> SUFFICES ASSUME NEW i \in 1 .. m, NEW j \in 1 .. m, u[i] = u[j]  PROVE i = j
    OBVIOUS
  <2>1. PICK k \in 1 .. n : t[k] = u[i]
    OBVIOUS
  <2>2. <<u[i], u[j]>> \notin less /\ <<u[j], u[i]>> \notin less
    BY <2>1
  <2>3. ~(i < j) /\ ~(j < i)
    BY <2>2
  <2>4. QED  BY <2>3
<1>4. g \in [1 .. n -> 1 .. m]
  BY <1>1
<1> HIDE DEF g
<1>5. g \in Bijection(1 .. n, 1 .. m)
  <2>1. \A i, j \in 1 .. n : g[i] = g[j] => i = j
    BY <1>1, <1>2
  <2>2. ASSUME NEW y \in 1 .. m  PROVE \E i \in 1 .. n : g[i] = y
    <3>1. PICK i \in 1 .. n : t[i] = u[y]
      OBVIOUS
    <3>2. g[i] = y
      BY <1>1, <1>3, <3>1
    <3>3. QED  BY <3>2
  <2>3. QED  BY <1>4, <2>1, <2>2 DEF Bijection, Injection, Surjection, IsInjective
<1>6. ASSUME NEW i \in 1 .. n, NEW j \in 1 .. n, i < j  PROVE g[i] < g[j]
  <2>1. <<u[g[i]], u[g[j]]>> \in less /\ <<u[g[j]], u[g[i]]>> \notin less
    BY <1>1, <1>6
  <2>2. g[i] # g[j]
    BY ONLY <2>1
  <2>3. g[i] \in 1 .. m /\ g[j] \in 1 .. m
    BY <1>1
  <2>4. ~(g[j] < g[i])
    BY <2>1, <2>3
  <2>5. QED  BY ONLY <2>2, <2>3, <2>4, m \in Nat
<1>7. n = m /\ \A k \in 1 .. n : g[k] = k
  BY <1>5, <1>6, MonotoneIsIdentity
<1>8. QED  BY <1>1, <1>7

-----------------------------------------------------------------------------
(* The order of the signers.                                               *)

\* The comparison of signers is a strict weak order, total where the
\* xpubs differ.
LEMMA SignerLessIsOrder ==
  ASSUME NEW a \in WalletSigner, NEW b \in WalletSigner, NEW c \in WalletSigner
  PROVE  /\ ~SignerLess(a, a)
         /\ SignerLess(a, b) /\ SignerLess(b, c) => SignerLess(a, c)
         /\ ~SignerLess(a, b) /\ ~SignerLess(b, c) => ~SignerLess(a, c)
         /\ ~(SignerLess(a, b) /\ SignerLess(b, a))
         /\ a.xpub # b.xpub => SignerLess(a, b) \/ SignerLess(b, a)
<1>1. \A x \in WalletSigner : KindOrder(x) \in {1, 2} /\ x.xpub \in Nat /\ x.policyKeyId \in Nat
  BY DEF WalletSigner, KindOrder
<1> DEFINE ka == KindOrder(a)
           kb == KindOrder(b)
           kc == KindOrder(c)
<1>2. /\ ka \in {1, 2} /\ kb \in {1, 2} /\ kc \in {1, 2}
      /\ a.xpub \in Nat /\ b.xpub \in Nat /\ c.xpub \in Nat
      /\ a.policyKeyId \in Nat /\ b.policyKeyId \in Nat /\ c.policyKeyId \in Nat
  BY <1>1
<1> HIDE DEF WalletSigner
<1>3. \A x, y \in {a, b, c} :
        SignerLess(x, y) <=> \/ KindOrder(x) < KindOrder(y)
                             \/ KindOrder(x) = KindOrder(y) /\ x.xpub < y.xpub
                             \/ /\ KindOrder(x) = KindOrder(y) /\ x.xpub = y.xpub
                                /\ x.policyKeyId < y.policyKeyId
  BY DEF SignerLess
<1>4. QED  BY ONLY <1>2, <1>3

\* The canonical order is an arrangement of the signers in which none stands
\* before one it comes after.
LEMMA CanonicalOrderSorts ==
  ASSUME NEW a \in Seq(WalletSigner)
  PROVE  LET c == CanonicalOrder(a)
         IN  /\ c \in Seq(WalletSigner) /\ Len(c) = Len(a)
             /\ \E p : Permutes(p, a, c)
             /\ \A i, j \in 1 .. Len(a) : i < j => ~SignerLess(c[j], c[i])
<1> DEFINE n == Len(a)
           less == {q \in PairsOf(a) : SignerLess(q[1], q[2])}
           c == CanonicalOrder(a)
<1>1. n \in Nat /\ DOMAIN a = 1 .. n /\ \A i \in 1 .. n : a[i] \in WalletSigner
  BY LenProperties, ElementOfSeq
<1>2. \A i, j \in 1 .. n : <<a[i], a[j]>> \in less <=> SignerLess(a[i], a[j])
  BY <1>1 DEF PairsOf, ToSet
<1> HIDE DEF less
<1>3. WeakOrder(less, a)
  <2>1. \A i \in 1 .. n : <<a[i], a[i]>> \notin less
    BY <1>1, <1>2, SignerLessIsOrder
  <2>2. ASSUME NEW i \in 1 .. n, NEW j \in 1 .. n, NEW k \in 1 .. n
        PROVE  /\ <<a[i], a[j]>> \in less /\ <<a[j], a[k]>> \in less => <<a[i], a[k]>> \in less
               /\ <<a[i], a[j]>> \notin less /\ <<a[j], a[k]>> \notin less
                    => <<a[i], a[k]>> \notin less
    BY <1>1, <1>2, SignerLessIsOrder
  <2>3. QED  BY <1>1, <2>1, <2>2 DEF WeakOrder
<1>4. c = StableSort(a, less)
  BY DEF CanonicalOrder, less
<1> HIDE DEF c
<1>5. /\ \E p : Permutes(p, a, c)
      /\ \A i, j \in 1 .. n : i < j => <<c[j], c[i]>> \notin less
  BY <1>1, <1>3, <1>4, SortPermutes
<1>6. PICK p : Permutes(p, a, c)
  BY <1>5
<1>7. \A k \in 1 .. n : p[k] \in 1 .. n /\ c[k] = a[p[k]]
  BY <1>1, <1>6 DEF Permutes, Bijection, Injection
<1>8. c \in [1 .. n -> WalletSigner]
  <2>1. c = [k \in 1 .. n |-> c[k]]
    BY <1>1, <1>4 DEF StableSort
  <2>2. QED  BY <1>1, <1>7, <2>1
<1>9. c \in Seq(WalletSigner) /\ Len(c) = n
  BY <1>1, <1>8, FunctionIsSeq
<1>10. ASSUME NEW i \in 1 .. n, NEW j \in 1 .. n, i < j
       PROVE  ~SignerLess(c[j], c[i])
  <2>1. c[i] = a[p[i]] /\ c[j] = a[p[j]] /\ p[i] \in 1 .. n /\ p[j] \in 1 .. n
    BY <1>7
  <2>2. <<c[j], c[i]>> \notin less
    BY <1>5, <1>10
  <2>3. QED  BY <1>2, <2>1, <2>2
<1>11. QED  BY <1>6, <1>9, <1>10 DEF c

-----------------------------------------------------------------------------
(* The order of the sets and of the indices within one.                    *)

\* Sorting a set by its indices arranges them upwards.
LEMMA AscendingSorts ==
  ASSUME NEW a \in Seq(Nat)
  PROVE  LET c == Ascending(a)
         IN  /\ c \in Seq(Nat) /\ Len(c) = Len(a)
             /\ \E p : Permutes(p, a, c)
             /\ \A i, j \in 1 .. Len(a) : i < j => ~(c[j] < c[i])
<1> DEFINE n == Len(a)
           less == {q \in PairsOf(a) : q[1] < q[2]}
           c == Ascending(a)
<1>1. n \in Nat /\ DOMAIN a = 1 .. n /\ \A i \in 1 .. n : a[i] \in Nat
  BY LenProperties, ElementOfSeq
<1>2. \A i, j \in 1 .. n : <<a[i], a[j]>> \in less <=> a[i] < a[j]
  BY <1>1 DEF PairsOf, ToSet
<1> HIDE DEF less
<1>3. WeakOrder(less, a)
  BY <1>1, <1>2 DEF WeakOrder
<1>4. c = StableSort(a, less)
  BY DEF Ascending, less
<1> HIDE DEF c
<1>5. /\ \E p : Permutes(p, a, c)
      /\ \A i, j \in 1 .. n : i < j => <<c[j], c[i]>> \notin less
  BY <1>1, <1>3, <1>4, SortPermutes
<1>6. PICK p : Permutes(p, a, c)
  BY <1>5
<1>7. \A k \in 1 .. n : p[k] \in 1 .. n /\ c[k] = a[p[k]]
  BY <1>1, <1>6 DEF Permutes, Bijection, Injection
<1>8. c \in [1 .. n -> Nat]
  <2>1. c = [k \in 1 .. n |-> c[k]]
    BY <1>1, <1>4 DEF StableSort
  <2>2. QED  BY <1>1, <1>7, <2>1
<1>9. c \in Seq(Nat) /\ Len(c) = n
  BY <1>1, <1>8, FunctionIsSeq
<1>10. ASSUME NEW i \in 1 .. n, NEW j \in 1 .. n, i < j
       PROVE  ~(c[j] < c[i])
  <2>1. c[i] = a[p[i]] /\ c[j] = a[p[j]] /\ p[i] \in 1 .. n /\ p[j] \in 1 .. n
    BY <1>7
  <2>2. <<c[j], c[i]>> \notin less
    BY <1>5, <1>10
  <2>3. QED  BY <1>2, <2>1, <2>2
<1>11. QED  BY <1>6, <1>9, <1>10 DEF c

\* Two different tuples differ at a first place, or one continues the other.
LEMMA FirstDifference ==
  ASSUME NEW a \in Seq(Nat), NEW b \in Seq(Nat), a # b
  PROVE  TupleLess(a, b) \/ TupleLess(b, a)
<1>1. PICK l \in Nat : l = Len(a) /\ DOMAIN a = 1 .. l /\ \A i \in 1 .. l : a[i] \in Nat
  BY LenProperties, ElementOfSeq
<1>2. PICK m \in Nat : m = Len(b) /\ DOMAIN b = 1 .. m /\ \A i \in 1 .. m : b[i] \in Nat
  BY LenProperties, ElementOfSeq
<1>3. CASE \A i \in 1 .. l : i \in 1 .. m => a[i] = b[i]
  <2>1. l # m
    <3>1. SUFFICES ASSUME l = m  PROVE FALSE
      OBVIOUS
    <3>2. Len(a) = Len(b) /\ \A i \in 1 .. Len(a) : a[i] = b[i]
      BY ONLY <1>1, <1>2, <1>3, <3>1
    <3>3. QED  BY <3>2, SeqEqual
  <2>2. CASE l < m
    <3>1. \A i \in 1 .. l : a[i] = b[i]
      BY ONLY <1>3, <2>2, l \in Nat, m \in Nat
    <3>2. QED  BY ONLY <1>1, <1>2, <2>2, <3>1 DEF TupleLess
  <2>3. CASE m < l
    <3>1. \A i \in 1 .. m : b[i] = a[i]
      BY ONLY <1>3, <2>3, l \in Nat, m \in Nat
    <3>2. QED  BY ONLY <1>1, <1>2, <2>3, <3>1 DEF TupleLess
  <2>4. QED  BY ONLY <2>1, <2>2, <2>3, l \in Nat, m \in Nat
<1>4. CASE \E i \in 1 .. l : i \in 1 .. m /\ a[i] # b[i]
  <2> DEFINE T == {i \in 1 .. l : i \in 1 .. m /\ a[i] # b[i]}
  <2>1. T \subseteq Nat /\ T # {}
    <3>1. PICK i \in 1 .. l : i \in 1 .. m /\ a[i] # b[i]
      BY ONLY <1>4
    <3>2. i \in T
      BY <3>1
    <3>3. T \subseteq Nat
      OBVIOUS
    <3>4. QED  BY <3>2, <3>3
  <2>2. PICK i \in T : \A j \in T : <<j, i>> \notin OpToRel(<, Nat)
    <3> HIDE DEF T
    <3>1. QED  BY <2>1, NatLessThanWellFounded, WFMin
  <2>3. \A j \in T : ~(j < i)
    BY <2>1, <2>2 DEF OpToRel
  <2>4. i \in 1 .. l /\ i \in 1 .. m /\ a[i] # b[i]
    OBVIOUS
  <2>5. \A j \in 1 .. l : j \in 1 .. m /\ j < i => a[j] = b[j]
    BY ONLY <2>3
  <2> HIDE DEF T
  <2>6. PICK k \in Nat : k = i
    BY <2>1
  <2>7. k \in 1 .. l /\ k \in 1 .. m /\ a[k] # b[k]
    BY ONLY <2>4, <2>6
  <2>8. \A j \in 1 .. k - 1 : a[j] = b[j]
    <3>1. k <= l /\ k <= m
      BY ONLY <2>7, k \in Nat, l \in Nat, m \in Nat
    <3>2. \A j \in 1 .. k - 1 : j \in 1 .. l /\ j \in 1 .. m /\ j < k
      BY ONLY <3>1, k \in Nat, l \in Nat, m \in Nat
    <3>3. QED  BY ONLY <2>5, <2>6, <3>2
  <2>9. a[k] < b[k] \/ b[k] < a[k]
    <3>1. a[k] \in Nat /\ b[k] \in Nat
      BY ONLY <1>1, <1>2, <2>7
    <3>2. QED  BY ONLY <2>7, <3>1
  <2>10. QED  BY ONLY <1>1, <1>2, <2>7, <2>8, <2>9 DEF TupleLess
<1>5. QED  BY ONLY <1>3, <1>4

LEMMA TupleLessTransitive ==
  ASSUME NEW a \in Seq(Nat), NEW b \in Seq(Nat), NEW c \in Seq(Nat),
         TupleLess(a, b), TupleLess(b, c)
  PROVE  TupleLess(a, c)
<1>1. PICK l \in Nat : l = Len(a) /\ DOMAIN a = 1 .. l /\ \A i \in 1 .. l : a[i] \in Nat
  BY LenProperties, ElementOfSeq
<1>2. PICK m \in Nat : m = Len(b) /\ DOMAIN b = 1 .. m /\ \A i \in 1 .. m : b[i] \in Nat
  BY LenProperties, ElementOfSeq
<1>3. PICK n \in Nat : n = Len(c) /\ DOMAIN c = 1 .. n /\ \A i \in 1 .. n : c[i] \in Nat
  BY LenProperties, ElementOfSeq
<1>4. \/ \E i \in 1 .. l : i \in 1 .. m /\ a[i] < b[i] /\ \A j \in 1 .. i - 1 : a[j] = b[j]
      \/ l < m /\ \A j \in 1 .. l : a[j] = b[j]
  BY ONLY TupleLess(a, b), <1>1, <1>2 DEF TupleLess
<1>5. \/ \E i \in 1 .. m : i \in 1 .. n /\ b[i] < c[i] /\ \A j \in 1 .. i - 1 : b[j] = c[j]
      \/ m < n /\ \A j \in 1 .. m : b[j] = c[j]
  BY ONLY TupleLess(b, c), <1>2, <1>3 DEF TupleLess
<1>6. SUFFICES
        \/ \E i \in 1 .. l : i \in 1 .. n /\ a[i] < c[i] /\ \A j \in 1 .. i - 1 : a[j] = c[j]
        \/ l < n /\ \A j \in 1 .. l : a[j] = c[j]
  BY ONLY <1>1, <1>3, <1>6 DEF TupleLess
<1>7. CASE \E i \in 1 .. l : i \in 1 .. m /\ a[i] < b[i] /\ \A j \in 1 .. i - 1 : a[j] = b[j]
  <2>1. PICK i \in 1 .. l : i \in 1 .. m /\ a[i] < b[i] /\ \A j \in 1 .. i - 1 : a[j] = b[j]
    BY ONLY <1>7
  <2>2. a[i] \in Nat /\ b[i] \in Nat
    BY ONLY <1>1, <1>2, <2>1
  <2>3. CASE \E k \in 1 .. m : k \in 1 .. n /\ b[k] < c[k] /\ \A j \in 1 .. k - 1 : b[j] = c[j]
    <3>1. PICK k \in 1 .. m : k \in 1 .. n /\ b[k] < c[k] /\ \A j \in 1 .. k - 1 : b[j] = c[j]
      BY ONLY <2>3
    <3>2. CASE i < k
      <4>1. i \in 1 .. n /\ i \in 1 .. k - 1
        BY ONLY <3>1, <3>2, l \in Nat, n \in Nat, i \in 1 .. l
      <4>2. a[i] < c[i]
        BY ONLY <2>1, <3>1, <4>1
      <4>3. \A j \in 1 .. i - 1 : a[j] = c[j]
        BY ONLY <2>1, <3>1, <3>2, i \in 1 .. l, l \in Nat, m \in Nat
      <4>4. QED  BY ONLY <4>1, <4>2, <4>3, i \in 1 .. l
    <3>3. CASE i = k
      <4>1. a[i] < c[i]
        BY ONLY <2>1, <2>2, <3>1, <3>3, <1>3, n \in Nat
      <4>2. \A j \in 1 .. i - 1 : a[j] = c[j]
        BY ONLY <2>1, <3>1, <3>3
      <4>3. QED  BY ONLY <3>1, <3>3, <4>1, <4>2, i \in 1 .. l
    <3>4. CASE k < i
      <4>1. k \in 1 .. l /\ k \in 1 .. i - 1
        BY ONLY <3>1, <3>4, i \in 1 .. l, l \in Nat, m \in Nat
      <4>2. a[k] < c[k]
        BY ONLY <2>1, <3>1, <4>1
      <4>3. \A j \in 1 .. k - 1 : a[j] = c[j]
        BY ONLY <2>1, <3>1, <3>4, i \in 1 .. l, k \in 1 .. m, l \in Nat, m \in Nat
      <4>4. QED  BY ONLY <3>1, <4>1, <4>2, <4>3
    <3>5. QED  BY ONLY <3>2, <3>3, <3>4, i \in 1 .. l, k \in 1 .. m, l \in Nat, m \in Nat
  <2>4. CASE m < n /\ \A j \in 1 .. m : b[j] = c[j]
    <3>1. i \in 1 .. n /\ a[i] < c[i]
      BY ONLY <2>1, <2>4, m \in Nat, n \in Nat
    <3>2. \A j \in 1 .. i - 1 : a[j] = c[j]
      BY ONLY <2>1, <2>4, m \in Nat, i \in 1 .. l, l \in Nat
    <3>3. QED  BY ONLY <3>1, <3>2, i \in 1 .. l
  <2>5. QED  BY ONLY <1>5, <2>3, <2>4
<1>8. CASE l < m /\ \A j \in 1 .. l : a[j] = b[j]
  <2>1. CASE \E k \in 1 .. m : k \in 1 .. n /\ b[k] < c[k] /\ \A j \in 1 .. k - 1 : b[j] = c[j]
    <3>1. PICK k \in 1 .. m : k \in 1 .. n /\ b[k] < c[k] /\ \A j \in 1 .. k - 1 : b[j] = c[j]
      BY ONLY <2>1
    <3>2. CASE k <= l
      <4>1. k \in 1 .. l /\ a[k] < c[k]
        BY ONLY <1>8, <3>1, <3>2, k \in 1 .. m, l \in Nat, m \in Nat
      <4>2. \A j \in 1 .. k - 1 : a[j] = c[j]
        BY ONLY <1>8, <3>1, <3>2, k \in 1 .. m, l \in Nat, m \in Nat
      <4>3. QED  BY ONLY <3>1, <4>1, <4>2
    <3>3. CASE l < k
      <4>1. l < n
        BY ONLY <3>1, <3>3, l \in Nat, n \in Nat
      <4>2. \A j \in 1 .. l : a[j] = c[j]
        BY ONLY <1>8, <3>1, <3>3, k \in 1 .. m, l \in Nat, m \in Nat
      <4>3. QED  BY ONLY <4>1, <4>2
    <3>4. QED  BY ONLY <3>2, <3>3, k \in 1 .. m, l \in Nat, m \in Nat
  <2>2. CASE m < n /\ \A j \in 1 .. m : b[j] = c[j]
    BY ONLY <1>8, <2>2, l \in Nat, m \in Nat, n \in Nat
  <2>3. QED  BY ONLY <1>5, <2>1, <2>2
<1>9. QED  BY ONLY <1>4, <1>7, <1>8

\* The comparison of sets is a strict total order.
LEMMA TupleLessIsOrder ==
  ASSUME NEW a \in Seq(Nat), NEW b \in Seq(Nat), NEW c \in Seq(Nat)
  PROVE  /\ ~TupleLess(a, a)
         /\ TupleLess(a, b) /\ TupleLess(b, c) => TupleLess(a, c)
         /\ ~TupleLess(a, b) /\ ~TupleLess(b, c) => ~TupleLess(a, c)
         /\ ~(TupleLess(a, b) /\ TupleLess(b, a))
         /\ a # b => TupleLess(a, b) \/ TupleLess(b, a)
<1>1. ASSUME NEW x \in Seq(Nat)  PROVE ~TupleLess(x, x)
  <2>1. Len(x) \in Nat /\ \A i \in DOMAIN x : x[i] \in Nat
    BY LenProperties, ElementOfSeq
  <2>2. QED  BY <2>1 DEF TupleLess
<1>2. ~(TupleLess(a, b) /\ TupleLess(b, a))
  BY <1>1, TupleLessTransitive
<1>3. ~TupleLess(a, b) /\ ~TupleLess(b, c) => ~TupleLess(a, c)
  <2> SUFFICES ASSUME ~TupleLess(a, b), ~TupleLess(b, c), TupleLess(a, c)
               PROVE  FALSE
    OBVIOUS
  <2>1. (a = b \/ TupleLess(b, a)) /\ (b = c \/ TupleLess(c, b))
    BY FirstDifference
  <2>2. a = b \/ TupleLess(b, c)
    BY <2>1, TupleLessTransitive
  <2>3. QED  BY <2>2
<1>4. QED  BY <1>1, <1>2, <1>3, FirstDifference, TupleLessTransitive

\* Sorting a list of sets arranges them lexicographically.
LEMMA LexicographicSorts ==
  ASSUME NEW a \in Seq(Seq(Nat))
  PROVE  LET c == Lexicographic(a)
         IN  /\ c \in Seq(Seq(Nat)) /\ Len(c) = Len(a)
             /\ \E p : Permutes(p, a, c)
             /\ \A i, j \in 1 .. Len(a) : i < j => ~TupleLess(c[j], c[i])
<1> DEFINE n == Len(a)
           less == {q \in PairsOf(a) : TupleLess(q[1], q[2])}
           c == Lexicographic(a)
<1>1. n \in Nat /\ DOMAIN a = 1 .. n /\ \A i \in 1 .. n : a[i] \in Seq(Nat)
  BY LenProperties, ElementOfSeq
<1>2. \A i, j \in 1 .. n : <<a[i], a[j]>> \in less <=> TupleLess(a[i], a[j])
  BY <1>1 DEF PairsOf, ToSet
<1> HIDE DEF less
<1>3. WeakOrder(less, a)
  <2>1. \A i \in 1 .. n : <<a[i], a[i]>> \notin less
    BY <1>1, <1>2, TupleLessIsOrder
  <2>2. ASSUME NEW i \in 1 .. n, NEW j \in 1 .. n, NEW k \in 1 .. n
        PROVE  /\ <<a[i], a[j]>> \in less /\ <<a[j], a[k]>> \in less => <<a[i], a[k]>> \in less
               /\ <<a[i], a[j]>> \notin less /\ <<a[j], a[k]>> \notin less
                    => <<a[i], a[k]>> \notin less
    BY <1>1, <1>2, TupleLessIsOrder
  <2>3. QED  BY <1>1, <2>1, <2>2 DEF WeakOrder
<1>4. c = StableSort(a, less)
  BY DEF Lexicographic, less
<1> HIDE DEF c
<1>5. /\ \E p : Permutes(p, a, c)
      /\ \A i, j \in 1 .. n : i < j => <<c[j], c[i]>> \notin less
  BY <1>1, <1>3, <1>4, SortPermutes
<1>6. PICK p : Permutes(p, a, c)
  BY <1>5
<1>7. \A k \in 1 .. n : p[k] \in 1 .. n /\ c[k] = a[p[k]]
  BY <1>1, <1>6 DEF Permutes, Bijection, Injection
<1>8. c \in [1 .. n -> Seq(Nat)]
  <2>1. c = [k \in 1 .. n |-> c[k]]
    BY <1>1, <1>4 DEF StableSort
  <2>2. QED  BY <1>1, <1>7, <2>1
<1>9. c \in Seq(Seq(Nat)) /\ Len(c) = n
  BY <1>1, <1>8, FunctionIsSeq
<1>10. ASSUME NEW i \in 1 .. n, NEW j \in 1 .. n, i < j
       PROVE  ~TupleLess(c[j], c[i])
  <2>1. c[i] = a[p[i]] /\ c[j] = a[p[j]] /\ p[i] \in 1 .. n /\ p[j] \in 1 .. n
    BY <1>7
  <2>2. <<c[j], c[i]>> \notin less
    BY <1>5, <1>10
  <2>3. QED  BY <1>2, <2>1, <2>2
<1>11. QED  BY <1>6, <1>9, <1>10 DEF c

-----------------------------------------------------------------------------
(* Bijections.                                                             *)

\* What is used of a bijection.
LEMMA BijectionFacts ==
  ASSUME NEW S, NEW T, NEW f \in Bijection(S, T)
  PROVE  /\ \A x \in S : f[x] \in T
         /\ \A x, y \in S : f[x] = f[y] => x = y
         /\ \A t \in T : \E x \in S : f[x] = t
BY DEF Bijection, Injection, Surjection, IsInjective

LEMMA BijectionCompose ==
  ASSUME NEW S, NEW T, NEW U, NEW f \in Bijection(S, T), NEW g \in Bijection(T, U)
  PROVE  [x \in S |-> g[f[x]]] \in Bijection(S, U)
<1> DEFINE h == [x \in S |-> g[f[x]]]
<1>1. h \in [S -> U]
  BY BijectionFacts
<1>2. \A x, y \in S : h[x] = h[y] => x = y
  BY BijectionFacts
<1>3. ASSUME NEW u \in U  PROVE \E x \in S : h[x] = u
  <2>1. PICK t \in T : g[t] = u
    BY BijectionFacts
  <2>2. PICK x \in S : f[x] = t
    BY BijectionFacts
  <2>3. QED  BY <2>1, <2>2
<1> HIDE DEF h
<1>4. h \in Bijection(S, U)
  BY <1>1, <1>2, <1>3 DEF Bijection, Injection, Surjection, IsInjective
<1>5. QED  BY <1>4 DEF h

LEMMA BijectionInverse ==
  ASSUME NEW S, NEW T, NEW f \in Bijection(S, T)
  PROVE  \E g \in Bijection(T, S) : /\ \A t \in T : f[g[t]] = t
                                    /\ \A x \in S : g[f[x]] = x
<1> DEFINE g == [t \in T |-> CHOOSE x \in S : f[x] = t]
<1>1. \A t \in T : g[t] \in S /\ f[g[t]] = t
  BY BijectionFacts
<1>2. g \in [T -> S]
  BY <1>1
<1> HIDE DEF g
<1>3. \A x \in S : g[f[x]] = x
  BY <1>1, BijectionFacts
<1>4. \A t, u \in T : g[t] = g[u] => t = u
  BY <1>1
<1>5. \A x \in S : \E t \in T : g[t] = x
  BY <1>3, BijectionFacts
<1>6. g \in Bijection(T, S)
  BY <1>2, <1>4, <1>5 DEF Bijection, Injection, Surjection, IsInjective
<1>7. QED  BY <1>1, <1>3, <1>6

LEMMA BijectionLengths ==
  ASSUME NEW n \in Nat, NEW m \in Nat, Bijection(1 .. n, 1 .. m) # {}
  PROVE  n = m
<1>1. IsFiniteSet(1 .. n) /\ Cardinality(1 .. n) = n /\ Cardinality(1 .. m) = m
  BY FS_Interval
<1>2. ExistsBijection(1 .. n, 1 .. m)
  BY DEF ExistsBijection
<1>3. QED  BY <1>1, <1>2, FS_Bijection

-----------------------------------------------------------------------------
(* One canonical form whatever order the lists came in.                    *)

Upwards == {q \in Nat \X Nat : q[1] < q[2]}

\* A bijection between places with equal elements.
LEMMA BijectionElements ==
  ASSUME NEW n, NEW t, NEW m, NEW u, NEW p \in Bijection(1 .. n, 1 .. m),
         \A i \in 1 .. n : t[i] = u[p[i]]
  PROVE  SameElements(n, t, m, u)
<1>1. /\ \A i \in 1 .. n : p[i] \in 1 .. m
      /\ \A j \in 1 .. m : \E i \in 1 .. n : p[i] = j
  BY DEF Bijection, Injection, Surjection
<1>2. ASSUME NEW j \in 1 .. m  PROVE \E i \in 1 .. n : t[i] = u[j]
  <2>1. PICK i \in 1 .. n : p[i] = j
    BY <1>1
  <2>2. QED  BY <2>1
<1>3. QED  BY <1>1, <1>2 DEF SameElements

\* A set sorted holds the same indices, strictly upwards.
LEMMA AscendingStrict ==
  ASSUME NEW n \in Nat, NEW z \in Seq(Nat), Len(z) = n, IsInjective(z)
  PROVE  /\ Ascending(z) \in Seq(Nat) /\ Len(Ascending(z)) = n
         /\ Strictly(Upwards, n, Ascending(z))
         /\ SameElements(n, Ascending(z), n, z)
<1> DEFINE e == Ascending(z)
<1>1. DOMAIN z = 1 .. n
  BY LenProperties
<1>2. /\ e \in Seq(Nat) /\ Len(e) = n
      /\ \E p : Permutes(p, z, e)
      /\ \A i, j \in 1 .. n : i < j => ~(e[j] < e[i])
  BY AscendingSorts
<1> HIDE DEF e
<1>3. PICK p : Permutes(p, z, e)
  BY <1>2
<1>4. /\ p \in Bijection(1 .. n, 1 .. n)
      /\ \A k \in 1 .. n : e[k] = z[p[k]]
  BY <1>1, <1>3 DEF Permutes
<1>5. \A i \in 1 .. n : e[i] \in Nat
  BY <1>2, ElementOfSeq
<1>6. /\ \A k \in 1 .. n : p[k] \in 1 .. n
      /\ \A i, j \in 1 .. n : p[i] = p[j] => i = j
  BY ONLY <1>4, BijectionFacts
<1>7. ASSUME NEW i \in 1 .. n, NEW j \in 1 .. n, i < j  PROVE e[i] < e[j]
  <2>1. p[i] \in 1 .. n /\ p[j] \in 1 .. n /\ p[i] # p[j]
    BY <1>6, <1>7
  <2>2. z[p[i]] # z[p[j]]
    BY <1>1, <2>1 DEF IsInjective
  <2>3. e[i] # e[j]
    BY <1>4, <2>2
  <2>4. ~(e[j] < e[i])
    BY <1>2, <1>7
  <2>5. QED  BY <1>5, <2>3, <2>4
<1>8. Strictly(Upwards, n, e)
  <2>1. \A a, b \in Nat : <<a, b>> \in Upwards <=> a < b
    BY DEF Upwards
  <2>2. \A i, j \in 1 .. n : i < j => <<e[i], e[j]>> \in Upwards
    BY <1>5, <1>7, <2>1
  <2>3. ASSUME NEW i \in 1 .. n, NEW j \in 1 .. n
        PROVE  ~(<<e[i], e[j]>> \in Upwards /\ <<e[j], e[i]>> \in Upwards)
    <3>1. e[i] \in Nat /\ e[j] \in Nat
      BY <1>5
    <3>2. ~(e[i] < e[j] /\ e[j] < e[i])
      BY ONLY <3>1
    <3>3. QED  BY <2>1, <3>1, <3>2
  <2>4. QED  BY <2>2, <2>3 DEF Strictly
<1>9. SameElements(n, e, n, z)
  BY <1>4, BijectionElements
<1>10. QED  BY <1>2, <1>8, <1>9 DEF e

\* The indices of a set in another order sort to the same tuple.
LEMMA AscendingAlike ==
  ASSUME NEW x \in Seq(Nat), NEW y \in Seq(Nat), NEW r \in Bijection(DOMAIN x, DOMAIN y),
         \A i \in DOMAIN x : x[i] = y[r[i]], IsInjective(x)
  PROVE  /\ Len(x) = Len(y) /\ IsInjective(y) /\ ToSet(x) = ToSet(y)
         /\ Ascending(x) = Ascending(y)
<1>1. PICK n \in Nat : n = Len(x) /\ DOMAIN x = 1 .. n
  BY LenProperties
<1>2. PICK m \in Nat : m = Len(y) /\ DOMAIN y = 1 .. m
  BY LenProperties
<1>3. m = n
  <2>1. r \in Bijection(1 .. n, 1 .. m)
    BY <1>1, <1>2
  <2>2. QED  BY ONLY n \in Nat, m \in Nat, <2>1, BijectionLengths
<1>4. r \in Bijection(1 .. n, 1 .. n) /\ \A i \in 1 .. n : x[i] = y[r[i]]
  BY <1>1, <1>2, <1>3
<1>5. SameElements(n, x, n, y)
  BY ONLY <1>4, BijectionElements
<1>6. IsInjective(y)
  <2> SUFFICES ASSUME NEW i \in 1 .. n, NEW j \in 1 .. n, y[i] = y[j]  PROVE i = j
    BY <1>2, <1>3 DEF IsInjective
  <2>1. \A l \in 1 .. n : \E k \in 1 .. n : r[k] = l
    BY ONLY <1>4 DEF Bijection, Surjection
  <2>2. PICK k \in 1 .. n : r[k] = i
    BY <2>1
  <2>3. PICK l \in 1 .. n : r[l] = j
    BY <2>1
  <2>4. x[k] = x[l]
    BY <1>4, <2>2, <2>3
  <2>5. QED  BY <1>1, <2>2, <2>3, <2>4 DEF IsInjective
<1>7. ToSet(x) = ToSet(y)
  <2>1. ToSet(x) = {x[i] : i \in 1 .. n} /\ ToSet(y) = {y[i] : i \in 1 .. n}
    BY <1>1, <1>2, <1>3 DEF ToSet
  <2>2. QED  BY ONLY <1>5, <2>1 DEF SameElements
<1> DEFINE c == Ascending(x)
           d == Ascending(y)
<1>8. /\ c \in Seq(Nat) /\ Len(c) = n
      /\ Strictly(Upwards, n, c) /\ SameElements(n, c, n, x)
  BY <1>1, AscendingStrict
<1>9. /\ d \in Seq(Nat) /\ Len(d) = n
      /\ Strictly(Upwards, n, d) /\ SameElements(n, d, n, y)
  BY <1>2, <1>3, <1>6, AscendingStrict
<1> HIDE DEF c, d
<1>10. SameElements(n, c, n, d)
  BY <1>5, <1>8, <1>9, SameElementsSymmetric, SameElementsTransitive
<1>11. \A k \in 1 .. n : c[k] = d[k]
  <2>1. Strictly(Upwards, n, c) /\ Strictly(Upwards, n, d)
    BY <1>8, <1>9
  <2>2. QED  BY ONLY n \in Nat, <1>10, <2>1, OneArrangement
<1>12. c = d
  BY <1>8, <1>9, <1>11, SeqEqual
<1>13. QED  BY <1>1, <1>2, <1>3, <1>6, <1>7, <1>12 DEF c, d

Distinct(n, t) == \A i, j \in 1 .. n : t[i] = t[j] => i = j

\* A bijection between places with equal elements carries distinctness.
LEMMA DistinctCarried ==
  ASSUME NEW n, NEW t, NEW m, NEW u, NEW p \in Bijection(1 .. n, 1 .. m),
         \A i \in 1 .. n : t[i] = u[p[i]]
  PROVE  Distinct(n, t) <=> Distinct(m, u)
<1>1. /\ \A i \in 1 .. n : p[i] \in 1 .. m
      /\ \A i, j \in 1 .. n : p[i] = p[j] => i = j
      /\ \A j \in 1 .. m : \E i \in 1 .. n : p[i] = j
  BY DEF Bijection, Injection, Surjection, IsInjective
<1>2. ASSUME Distinct(n, t)  PROVE Distinct(m, u)
  <2> SUFFICES ASSUME NEW k \in 1 .. m, NEW l \in 1 .. m, u[k] = u[l]  PROVE k = l
    BY DEF Distinct
  <2>1. PICK i \in 1 .. n : p[i] = k
    BY <1>1
  <2>2. PICK j \in 1 .. n : p[j] = l
    BY <1>1
  <2>3. t[i] = t[j]
    BY <2>1, <2>2
  <2>4. QED  BY <1>2, <2>1, <2>2, <2>3 DEF Distinct
<1>3. ASSUME Distinct(m, u)  PROVE Distinct(n, t)
  <2> SUFFICES ASSUME NEW i \in 1 .. n, NEW j \in 1 .. n, t[i] = t[j]  PROVE i = j
    BY DEF Distinct
  <2>1. p[i] = p[j]
    BY <1>1, <1>3 DEF Distinct
  <2>2. QED  BY <1>1, <2>1
<1>4. QED  BY <1>2, <1>3

TuplesUp == {q \in Seq(Nat) \X Seq(Nat) : TupleLess(q[1], q[2])}

\* A sorted list of distinct sets stands strictly in order.
LEMMA LexicographicStrict ==
  ASSUME NEW n \in Nat, NEW z \in Seq(Seq(Nat)), Len(z) = n,
         Distinct(n, Lexicographic(z))
  PROVE  /\ Lexicographic(z) \in Seq(Seq(Nat)) /\ Len(Lexicographic(z)) = n
         /\ Strictly(TuplesUp, n, Lexicographic(z))
<1> DEFINE e == Lexicographic(z)
<1>1. /\ e \in Seq(Seq(Nat)) /\ Len(e) = n
      /\ \A i, j \in 1 .. n : i < j => ~TupleLess(e[j], e[i])
  BY LexicographicSorts
<1>2. Distinct(n, e)
  OBVIOUS
<1> HIDE DEF e
<1>3. \A i \in 1 .. n : e[i] \in Seq(Nat)
  BY <1>1, ElementOfSeq
<1>4. \A a, b \in Seq(Nat) : <<a, b>> \in TuplesUp <=> TupleLess(a, b)
  BY DEF TuplesUp
<1>5. ASSUME NEW i \in 1 .. n, NEW j \in 1 .. n, i < j  PROVE <<e[i], e[j]>> \in TuplesUp
  <2>1. e[i] \in Seq(Nat) /\ e[j] \in Seq(Nat)
    BY <1>3
  <2>2. e[i] # e[j]
    BY <1>2, <1>5 DEF Distinct
  <2>3. TupleLess(e[i], e[j])
    BY <1>1, <1>5, <2>1, <2>2, TupleLessIsOrder
  <2>4. QED  BY <1>4, <2>1, <2>3
<1>6. ASSUME NEW i \in 1 .. n, NEW j \in 1 .. n
      PROVE  ~(<<e[i], e[j]>> \in TuplesUp /\ <<e[j], e[i]>> \in TuplesUp)
  <2>1. e[i] \in Seq(Nat) /\ e[j] \in Seq(Nat)
    BY <1>3
  <2>2. ~(TupleLess(e[i], e[j]) /\ TupleLess(e[j], e[i]))
    BY <2>1, TupleLessIsOrder
  <2>3. QED  BY <1>4, <2>1, <2>2
<1>7. Strictly(TuplesUp, n, e)
  BY <1>5, <1>6 DEF Strictly
<1>8. QED  BY <1>1, <1>7 DEF e

\* How the sorted list comes from the given one.
LEMMA LexicographicFrom ==
  ASSUME NEW n \in Nat, NEW z \in Seq(Seq(Nat)), Len(z) = n
  PROVE  \E p \in Bijection(1 .. n, 1 .. n) : \A k \in 1 .. n : Lexicographic(z)[k] = z[p[k]]
<1>1. DOMAIN z = 1 .. n
  BY LenProperties
<1>2. PICK p : Permutes(p, z, Lexicographic(z))
  BY LexicographicSorts
<1>3. QED  BY <1>1, <1>2 DEF Permutes

\* The same sets in another order sort to the same list.
LEMMA LexicographicAlike ==
  ASSUME NEW n \in Nat, NEW x \in Seq(Seq(Nat)), NEW y \in Seq(Seq(Nat)),
         Len(x) = n, Len(y) = n,
         NEW r \in Bijection(1 .. n, 1 .. n), \A i \in 1 .. n : x[i] = y[r[i]],
         Distinct(n, Lexicographic(x))
  PROVE  Lexicographic(x) = Lexicographic(y)
<1> DEFINE c == Lexicographic(x)
           d == Lexicographic(y)
<1>1. PICK p \in Bijection(1 .. n, 1 .. n) : \A k \in 1 .. n : c[k] = x[p[k]]
  BY LexicographicFrom
<1>2. PICK q \in Bijection(1 .. n, 1 .. n) : \A k \in 1 .. n : d[k] = y[q[k]]
  BY LexicographicFrom
<1>3. c \in Seq(Seq(Nat)) /\ Len(c) = n /\ Strictly(TuplesUp, n, c)
  BY LexicographicStrict
<1>4. Distinct(n, c)
  OBVIOUS
<1> HIDE DEF c
<1>5. Distinct(n, d)
  <2> HIDE DEF d
  <2>1. Distinct(n, x)
    BY ONLY <1>1, <1>4, p \in Bijection(1 .. n, 1 .. n), DistinctCarried
  <2>2. Distinct(n, y)
    BY <2>1, DistinctCarried
  <2>3. QED  BY ONLY <1>2, <2>2, q \in Bijection(1 .. n, 1 .. n), DistinctCarried
<1>6. d \in Seq(Seq(Nat)) /\ Len(d) = n /\ Strictly(TuplesUp, n, d)
  BY <1>5, LexicographicStrict
<1> HIDE DEF d
<1>7. SameElements(n, c, n, d)
  <2>1. SameElements(n, c, n, x)
    BY ONLY <1>1, p \in Bijection(1 .. n, 1 .. n), BijectionElements
  <2>2. SameElements(n, x, n, y)
    BY BijectionElements
  <2>3. SameElements(n, d, n, y)
    BY ONLY <1>2, q \in Bijection(1 .. n, 1 .. n), BijectionElements
  <2>4. QED  BY ONLY <2>1, <2>2, <2>3, SameElementsSymmetric, SameElementsTransitive
<1>8. \A k \in 1 .. n : c[k] = d[k]
  <2>1. Strictly(TuplesUp, n, c) /\ Strictly(TuplesUp, n, d)
    BY <1>3, <1>6
  <2>2. QED  BY ONLY n \in Nat, <1>7, <2>1, OneArrangement
<1>9. c = d
  <2> DEFINE T == Seq(Nat)
  <2>1. c \in Seq(T) /\ d \in Seq(T) /\ Len(c) = n /\ Len(d) = n
    BY <1>3, <1>6
  <2> HIDE DEF T
  <2>2. QED  BY <1>8, <2>1, SeqEqual
<1>10. QED  BY <1>9 DEF c, d

-----------------------------------------------------------------------------
(* The signers of a wallet, apart from their origins.                      *)

Bare(s) == [s EXCEPT !.origin = NoOrigin]
Bares(n, t) == [i \in 1 .. n |-> Bare(t[i])]
Xpubs(n, t) == [i \in 1 .. n |-> t[i].xpub]

SignersUp == {q \in WalletSigner \X WalletSigner : SignerLess(q[1], q[2])}

LEMMA BareFacts ==
  ASSUME NEW s \in WalletSigner
  PROVE  /\ Bare(s) \in WalletSigner
         /\ Bare(s).kind = s.kind /\ Bare(s).xpub = s.xpub
         /\ Bare(s).policyKeyId = s.policyKeyId /\ Bare(s).origin = NoOrigin
<1>1. NoOrigin \in Origin \cup {NoOrigin}
  OBVIOUS
<1>2. Bare(s) = [kind |-> s.kind, xpub |-> s.xpub, policyKeyId |-> s.policyKeyId,
                 origin |-> NoOrigin]
  BY DEF Bare, WalletSigner
<1>3. s.kind \in {Sigbash, External} /\ s.xpub \in Nat /\ s.policyKeyId \in Nat
  BY DEF WalletSigner
<1>4. Bare(s) \in WalletSigner
  BY <1>1, <1>2, <1>3 DEF WalletSigner
<1>5. QED  BY <1>2, <1>4

\* Two signers alike but for their origins.
LEMMA BareEqual ==
  ASSUME NEW s \in WalletSigner, NEW t \in WalletSigner
  PROVE  Bare(s) = Bare(t) <=> /\ s.kind = t.kind /\ s.xpub = t.xpub
                               /\ s.policyKeyId = t.policyKeyId
<1>1. ASSUME Bare(s) = Bare(t)
      PROVE  s.kind = t.kind /\ s.xpub = t.xpub /\ s.policyKeyId = t.policyKeyId
  BY <1>1, BareFacts
<1>2. ASSUME s.kind = t.kind, s.xpub = t.xpub, s.policyKeyId = t.policyKeyId
      PROVE  Bare(s) = Bare(t)
  BY <1>2 DEF Bare, WalletSigner
<1>3. QED  BY <1>1, <1>2

LEMMA BareOrder ==
  ASSUME NEW s \in WalletSigner, NEW t \in WalletSigner
  PROVE  <<Bare(s), Bare(t)>> \in SignersUp <=> SignerLess(s, t)
<1>1. Bare(s) \in WalletSigner /\ Bare(t) \in WalletSigner
  BY BareFacts
<1>2. SignerLess(Bare(s), Bare(t)) <=> SignerLess(s, t)
  BY BareFacts DEF SignerLess, KindOrder
<1>3. QED  BY <1>1, <1>2 DEF SignersUp

\* Signers of distinct xpubs sorted stand strictly in order.
LEMMA CanonicalOrderStrict ==
  ASSUME NEW n \in Nat, NEW z \in Seq(WalletSigner), Len(z) = n,
         Distinct(n, Xpubs(n, CanonicalOrder(z)))
  PROVE  Strictly(SignersUp, n, Bares(n, CanonicalOrder(z)))
<1> DEFINE e == CanonicalOrder(z)
<1>1. /\ e \in Seq(WalletSigner) /\ Len(e) = n
      /\ \A i, j \in 1 .. n : i < j => ~SignerLess(e[j], e[i])
  BY CanonicalOrderSorts
<1>2. Distinct(n, Xpubs(n, e))
  OBVIOUS
<1> HIDE DEF e
<1>3. \A i \in 1 .. n : e[i] \in WalletSigner
  BY <1>1, ElementOfSeq
<1>4. \A i \in 1 .. n : Bares(n, e)[i] = Bare(e[i]) /\ Xpubs(n, e)[i] = e[i].xpub
  BY DEF Bares, Xpubs
<1>5. ASSUME NEW i \in 1 .. n, NEW j \in 1 .. n, i < j
      PROVE  <<Bares(n, e)[i], Bares(n, e)[j]>> \in SignersUp
  <2>1. e[i] \in WalletSigner /\ e[j] \in WalletSigner
    BY <1>3
  <2>2. e[i].xpub # e[j].xpub
    BY <1>2, <1>4, <1>5 DEF Distinct
  <2>3. SignerLess(e[i], e[j])
    BY <1>1, <1>5, <2>1, <2>2, SignerLessIsOrder
  <2>4. QED  BY <1>4, <2>1, <2>3, BareOrder
<1>6. ASSUME NEW i \in 1 .. n, NEW j \in 1 .. n
      PROVE  ~(/\ <<Bares(n, e)[i], Bares(n, e)[j]>> \in SignersUp
               /\ <<Bares(n, e)[j], Bares(n, e)[i]>> \in SignersUp)
  <2>1. e[i] \in WalletSigner /\ e[j] \in WalletSigner
    BY <1>3
  <2>2. ~(SignerLess(e[i], e[j]) /\ SignerLess(e[j], e[i]))
    BY <2>1, SignerLessIsOrder
  <2>3. QED  BY <1>4, <2>1, <2>2, BareOrder
<1>7. QED  BY <1>5, <1>6 DEF Strictly, e

\* How the canonical order comes from the given one.
LEMMA CanonicalOrderFrom ==
  ASSUME NEW n \in Nat, NEW z \in Seq(WalletSigner), Len(z) = n
  PROVE  \E p \in Bijection(1 .. n, 1 .. n) :
           /\ \A k \in 1 .. n : CanonicalOrder(z)[k] = z[p[k]]
           /\ \A k \in 1 .. n : Bares(n, CanonicalOrder(z))[k] = Bares(n, z)[p[k]]
           /\ \A k \in 1 .. n : Xpubs(n, CanonicalOrder(z))[k] = Xpubs(n, z)[p[k]]
<1>1. DOMAIN z = 1 .. n
  BY LenProperties
<1>2. PICK p : Permutes(p, z, CanonicalOrder(z))
  BY CanonicalOrderSorts
<1>3. /\ p \in Bijection(1 .. n, 1 .. n)
      /\ \A k \in 1 .. n : CanonicalOrder(z)[k] = z[p[k]]
  BY <1>1, <1>2 DEF Permutes
<1>4. \A k \in 1 .. n : p[k] \in 1 .. n
  BY <1>3 DEF Bijection, Injection
<1>5. QED  BY <1>3, <1>4 DEF Bares, Xpubs

\* The same roots in another order, with whatever origins, have the same
\* canonical order, origins apart.
LEMMA CanonicalOrderAlike ==
  ASSUME NEW n \in Nat, NEW x \in Seq(WalletSigner), NEW y \in Seq(WalletSigner),
         Len(x) = n, Len(y) = n, NEW r \in Bijection(1 .. n, 1 .. n),
         \A i \in 1 .. n : Bare(x[i]) = Bare(y[r[i]]),
         Distinct(n, Xpubs(n, CanonicalOrder(x)))
  PROVE  /\ Distinct(n, Xpubs(n, CanonicalOrder(y)))
         /\ \A k \in 1 .. n : Bare(CanonicalOrder(x)[k]) = Bare(CanonicalOrder(y)[k])
<1> DEFINE c == CanonicalOrder(x)
           d == CanonicalOrder(y)
<1>0. \A i \in 1 .. n : x[i] \in WalletSigner /\ y[i] \in WalletSigner
  BY ElementOfSeq
<1>1. PICK p \in Bijection(1 .. n, 1 .. n) :
        /\ \A k \in 1 .. n : Bares(n, c)[k] = Bares(n, x)[p[k]]
        /\ \A k \in 1 .. n : Xpubs(n, c)[k] = Xpubs(n, x)[p[k]]
  BY CanonicalOrderFrom
<1>2. PICK q \in Bijection(1 .. n, 1 .. n) :
        /\ \A k \in 1 .. n : Bares(n, d)[k] = Bares(n, y)[q[k]]
        /\ \A k \in 1 .. n : Xpubs(n, d)[k] = Xpubs(n, y)[q[k]]
  BY CanonicalOrderFrom
<1>3. /\ \A k \in 1 .. n : Bares(n, x)[k] = Bares(n, y)[r[k]]
      /\ \A k \in 1 .. n : Xpubs(n, x)[k] = Xpubs(n, y)[r[k]]
  <2>1. \A k \in 1 .. n : r[k] \in 1 .. n
    BY DEF Bijection, Injection
  <2>2. \A k \in 1 .. n : x[k].xpub = y[r[k]].xpub
    BY <1>0, <2>1, BareEqual
  <2>3. QED  BY <2>1, <2>2 DEF Bares, Xpubs
<1>4. Distinct(n, Xpubs(n, c)) /\ Strictly(SignersUp, n, Bares(n, c))
  BY CanonicalOrderStrict
<1> HIDE DEF c
<1>5. Distinct(n, Xpubs(n, d))
  <2> HIDE DEF d
  <2>1. Distinct(n, Xpubs(n, x))
    BY ONLY <1>1, <1>4, p \in Bijection(1 .. n, 1 .. n), DistinctCarried
  <2>2. Distinct(n, Xpubs(n, y))
    BY ONLY <1>3, <2>1, r \in Bijection(1 .. n, 1 .. n), DistinctCarried
  <2>3. QED  BY ONLY <1>2, <2>2, q \in Bijection(1 .. n, 1 .. n), DistinctCarried
<1>6. Strictly(SignersUp, n, Bares(n, d))
  BY <1>5, CanonicalOrderStrict
<1> HIDE DEF d
<1>7. SameElements(n, Bares(n, c), n, Bares(n, d))
  <2>1. SameElements(n, Bares(n, c), n, Bares(n, x))
    BY ONLY <1>1, p \in Bijection(1 .. n, 1 .. n), BijectionElements
  <2>2. SameElements(n, Bares(n, x), n, Bares(n, y))
    BY ONLY <1>3, r \in Bijection(1 .. n, 1 .. n), BijectionElements
  <2>3. SameElements(n, Bares(n, d), n, Bares(n, y))
    BY ONLY <1>2, q \in Bijection(1 .. n, 1 .. n), BijectionElements
  <2>4. QED  BY ONLY <2>1, <2>2, <2>3, SameElementsSymmetric, SameElementsTransitive
<1>8. \A k \in 1 .. n : Bares(n, c)[k] = Bares(n, d)[k]
  BY ONLY n \in Nat, <1>4, <1>6, <1>7, OneArrangement
<1>9. \A k \in 1 .. n : Bare(c[k]) = Bare(d[k])
  BY <1>8 DEF Bares
<1>10. QED  BY <1>5, <1>9 DEF c, d

-----------------------------------------------------------------------------
(* The builder.                                                            *)

\* The checks buildInstitutionalWalletDescriptor makes.
Accepted(network, signers, sets, recovery) ==
  /\ SignersValid(network, CanonicalOrder(signers))
  /\ Len(sets) \in 1 .. MaxSets
  /\ \A i \in DOMAIN sets : SetValid(CanonicalOrder(signers), sets[i])
  /\ IsInjective(CanonicalSets(sets))
  /\ RecoveryValid(recovery)

\* When the builder accepts, and what it then returns.
LEMMA BuildAccepts ==
  ASSUME NEW network, NEW signers, NEW sets, NEW recovery
  PROVE  /\ Accepted(network, signers, sets, recovery)
              <=> IsWallet(Build(network, signers, sets, recovery))
         /\ Accepted(network, signers, sets, recovery)
              => Build(network, signers, sets, recovery) =
                   [network |-> network, signers |-> CanonicalOrder(signers),
                    sets |-> CanonicalSets(sets), recovery |-> recovery]
<1> DEFINE w == [network |-> network, signers |-> CanonicalOrder(signers),
                 sets |-> CanonicalSets(sets), recovery |-> recovery]
<1>1. w # Refused
  <2>1. "network" \in DOMAIN w /\ "network" \notin DOMAIN Refused
    BY DEF Refused
  <2>2. QED  BY <2>1
<1>2. Build(network, signers, sets, recovery) =
        IF Accepted(network, signers, sets, recovery) THEN w ELSE Refused
  BY DEF Build, Accepted
<1> HIDE DEF w
<1>3. QED  BY <1>1, <1>2 DEF IsWallet, w

\* The sets with their indices sorted.
Inner(sets) == [i \in DOMAIN sets |-> Ascending(sets[i])]

LEMMA InnerType ==
  ASSUME NEW n \in Nat, NEW sets \in Seq(Seq(Nat)), Len(sets) = n
  PROVE  /\ Inner(sets) \in Seq(Seq(Nat)) /\ Len(Inner(sets)) = n
         /\ \A i \in 1 .. n : Inner(sets)[i] = Ascending(sets[i])
         /\ CanonicalSets(sets) = Lexicographic(Inner(sets))
<1>1. DOMAIN sets = 1 .. n /\ \A i \in 1 .. n : sets[i] \in Seq(Nat)
  BY LenProperties, ElementOfSeq
<1>2. \A i \in 1 .. n : Ascending(sets[i]) \in Seq(Nat)
  BY <1>1, AscendingSorts
<1>3. Inner(sets) \in [1 .. n -> Seq(Nat)]
  BY <1>1, <1>2 DEF Inner
<1>4. Inner(sets) \in Seq(Seq(Nat)) /\ Len(Inner(sets)) = n
  BY <1>3, FunctionIsSeq
<1>5. \A i \in 1 .. n : Inner(sets)[i] = Ascending(sets[i])
  BY <1>1 DEF Inner
<1>6. CanonicalSets(sets) = Lexicographic(Inner(sets))
  BY DEF CanonicalSets, Inner
<1>7. QED  BY <1>4, <1>5, <1>6

LEMMA CanonicalSetsType ==
  ASSUME NEW n \in Nat, NEW sets \in Seq(Seq(Nat)), Len(sets) = n
  PROVE  CanonicalSets(sets) \in Seq(Seq(Nat)) /\ Len(CanonicalSets(sets)) = n
BY InnerType, LexicographicSorts

\* What the builder accepts of signers it accepts of the same roots with
\* other origins.
LEMMA SignersValidAlike ==
  ASSUME NEW network, NEW n \in Nat, NEW c \in Seq(WalletSigner), NEW d \in Seq(WalletSigner),
         Len(c) = n, Len(d) = n, \A k \in 1 .. n : Bare(c[k]) = Bare(d[k]),
         SignersValid(network, c)
  PROVE  SignersValid(network, d)
<1>1. /\ DOMAIN c = 1 .. n /\ DOMAIN d = 1 .. n
      /\ \A k \in 1 .. n : c[k] \in WalletSigner /\ d[k] \in WalletSigner
  BY LenProperties, ElementOfSeq
<1>2. \A k \in 1 .. n : /\ c[k].kind = d[k].kind /\ c[k].xpub = d[k].xpub
                        /\ c[k].policyKeyId = d[k].policyKeyId
  BY <1>1, BareEqual
<1>3. QED  BY <1>1, <1>2 DEF SignersValid

LEMMA SetValidAlike ==
  ASSUME NEW n \in Nat, NEW c \in Seq(WalletSigner), NEW d \in Seq(WalletSigner),
         Len(c) = n, Len(d) = n, \A k \in 1 .. n : Bare(c[k]) = Bare(d[k]),
         NEW x \in Seq(Nat), NEW y \in Seq(Nat), Rearranged(x, y), SetValid(c, x)
  PROVE  SetValid(d, y) /\ Ascending(x) = Ascending(y)
<1>1. \A k \in 1 .. n : c[k] \in WalletSigner /\ d[k] \in WalletSigner
  BY ElementOfSeq
<1>2. \A k \in 1 .. n : c[k].kind = d[k].kind
  BY <1>1, BareEqual
<1>3. IsInjective(x)
  BY DEF SetValid
<1>4. /\ Len(x) = Len(y) /\ IsInjective(y) /\ ToSet(x) = ToSet(y)
      /\ Ascending(x) = Ascending(y)
  <2>1. PICK r \in Bijection(DOMAIN x, DOMAIN y) : \A i \in DOMAIN x : x[i] = y[r[i]]
    BY DEF Rearranged
  <2>2. QED  BY <1>3, <2>1, AscendingAlike
<1>5. \A i \in ToSet(x) : i \in Nat
  <2>1. DOMAIN x = 1 .. Len(x) /\ \A i \in DOMAIN x : x[i] \in Nat
    BY LenProperties, ElementOfSeq
  <2>2. QED  BY <2>1 DEF ToSet
<1>6. \A i \in ToSet(x) : i < n => c[i + 1].kind = d[i + 1].kind
  BY <1>2, <1>5
<1>7. QED  BY <1>4, <1>6 DEF SetValid

\* Two lists of signer roots with the same roots, and two lists of sets with
\* the same sets.
SameRoots(a, b) == Rearranged(Bares(Len(a), a), Bares(Len(b), b))
SameSets(sa, sb) ==
  \E p \in Bijection(DOMAIN sa, DOMAIN sb) :
    \A i \in DOMAIN sa : Rearranged(sa[i], sb[p[i]])

\* Wallets that differ in nothing but the origins of their signers.
SameButOrigins(v, w) ==
  /\ v.network = w.network /\ v.sets = w.sets /\ v.recovery = w.recovery
  /\ Len(v.signers) = Len(w.signers)
  /\ \A k \in 1 .. Len(v.signers) : Bare(v.signers[k]) = Bare(w.signers[k])

\* The same roots in two orders, as a bijection of positions.
LEMMA SameRootsOrder ==
  ASSUME NEW a \in Seq(WalletSigner), NEW b \in Seq(WalletSigner), SameRoots(a, b)
  PROVE  /\ Len(a) = Len(b)
         /\ \E r \in Bijection(1 .. Len(a), 1 .. Len(a)) :
              \A i \in 1 .. Len(a) : Bare(a[i]) = Bare(b[r[i]])
<1>1. PICK n \in Nat : n = Len(a)
  BY LenProperties
<1>2. PICK m \in Nat : m = Len(b)
  BY LenProperties
<1>3. PICK r \in Bijection(1 .. n, 1 .. m) :
        \A i \in 1 .. n : Bares(n, a)[i] = Bares(m, b)[r[i]]
  <2>1. DOMAIN Bares(n, a) = 1 .. n /\ DOMAIN Bares(m, b) = 1 .. m
    BY DEF Bares
  <2>2. QED  BY <1>1, <1>2, <2>1 DEF SameRoots, Rearranged
<1>4. n = m
  BY ONLY n \in Nat, m \in Nat, r \in Bijection(1 .. n, 1 .. m), BijectionLengths
<1>5. \A i \in 1 .. n : r[i] \in 1 .. n
  BY <1>4 DEF Bijection, Injection
<1>6. \A i \in 1 .. n : Bare(a[i]) = Bare(b[r[i]])
  BY <1>3, <1>4, <1>5 DEF Bares
<1>7. QED  BY <1>1, <1>2, <1>4, <1>6

\* The same sets in two orders, as a bijection of positions.
LEMMA SameSetsOrder ==
  ASSUME NEW sa \in Seq(Seq(Nat)), NEW sb \in Seq(Seq(Nat)), SameSets(sa, sb)
  PROVE  /\ Len(sa) = Len(sb)
         /\ \E q \in Bijection(1 .. Len(sa), 1 .. Len(sa)) :
              \A i \in 1 .. Len(sa) : Rearranged(sa[i], sb[q[i]])
<1>1. PICK n \in Nat : n = Len(sa) /\ DOMAIN sa = 1 .. n
  BY LenProperties
<1>2. PICK m \in Nat : m = Len(sb) /\ DOMAIN sb = 1 .. m
  BY LenProperties
<1>3. PICK q \in Bijection(1 .. n, 1 .. m) : \A i \in 1 .. n : Rearranged(sa[i], sb[q[i]])
  BY <1>1, <1>2 DEF SameSets
<1>4. n = m
  BY ONLY n \in Nat, m \in Nat, q \in Bijection(1 .. n, 1 .. m), BijectionLengths
<1>5. QED  BY <1>1, <1>2, <1>3, <1>4

\* What a wallet that was built looks like.
LEMMA BuiltWallet ==
  ASSUME NEW network, NEW a \in Seq(WalletSigner), NEW sa \in Seq(Seq(Nat)), NEW recovery,
         IsWallet(Build(network, a, sa, recovery))
  PROVE  LET w == Build(network, a, sa, recovery)
         IN  /\ w = [network |-> network, signers |-> CanonicalOrder(a),
                     sets |-> CanonicalSets(sa), recovery |-> recovery]
             /\ w.signers \in Seq(WalletSigner) /\ Len(w.signers) = Len(a)
             /\ w.sets \in Seq(Seq(Nat)) /\ Len(w.sets) = Len(sa)
             /\ Distinct(Len(a), Xpubs(Len(a), w.signers))
             /\ Distinct(Len(sa), w.sets)
             /\ Accepted(network, a, sa, recovery)
<1> DEFINE w == Build(network, a, sa, recovery)
           c == CanonicalOrder(a)
           l == CanonicalSets(sa)
<1>1. Accepted(network, a, sa, recovery)
  BY BuildAccepts
<1>2. w = [network |-> network, signers |-> c, sets |-> l, recovery |-> recovery]
  BY <1>1, BuildAccepts
<1>3. PICK n \in Nat : n = Len(a)
  BY LenProperties
<1>4. PICK m \in Nat : m = Len(sa)
  BY LenProperties
<1>5. c \in Seq(WalletSigner) /\ Len(c) = n
  BY <1>3, CanonicalOrderSorts
<1>6. l \in Seq(Seq(Nat)) /\ Len(l) = m
  BY <1>4, CanonicalSetsType
<1>7. SignersValid(network, c) /\ IsInjective(l)
  BY <1>1 DEF Accepted
<1> HIDE DEF c, l, w
<1>8. Distinct(n, Xpubs(n, c))
  <2>1. DOMAIN c = 1 .. n
    BY <1>5, LenProperties
  <2>2. \A i, j \in 1 .. n : i # j => c[i].xpub # c[j].xpub
    BY <1>7, <2>1 DEF SignersValid
  <2>3. QED  BY <2>2 DEF Distinct, Xpubs
<1>9. Distinct(m, l)
  <2> DEFINE T == Seq(Nat)
  <2>1. l \in Seq(T)
    BY <1>6
  <2> HIDE DEF T
  <2>2. DOMAIN l = 1 .. m
    BY <1>6, <2>1, LenProperties
  <2>3. QED  BY <1>7, <2>2 DEF Distinct, IsInjective
<1>10. w.signers = c /\ w.sets = l
  BY <1>2
<1>11. QED  BY <1>1, <1>2, <1>3, <1>4, <1>5, <1>6, <1>8, <1>9, <1>10 DEF c, l, w

\* One wallet for one intent: whatever order its roots and its sets are given
\* in and whatever origins the roots carry, the builder accepts both or
\* neither and the wallets differ in nothing but the origins
\* (walletBuilder.ts:167).
THEOREM OneWallet ==
  ASSUME NEW network, NEW recovery,
         NEW a \in Seq(WalletSigner), NEW b \in Seq(WalletSigner), SameRoots(a, b),
         NEW sa \in Seq(Seq(Nat)), NEW sb \in Seq(Seq(Nat)), SameSets(sa, sb),
         IsWallet(Build(network, a, sa, recovery))
  PROVE  /\ IsWallet(Build(network, b, sb, recovery))
         /\ SameButOrigins(Build(network, a, sa, recovery), Build(network, b, sb, recovery))
<1> DEFINE v == Build(network, a, sa, recovery)
           w == Build(network, b, sb, recovery)
           c == CanonicalOrder(a)
           d == CanonicalOrder(b)
<1>1. PICK n \in Nat : n = Len(a)
  BY LenProperties
<1>2. PICK m \in Nat : m = Len(sa) /\ DOMAIN sa = 1 .. m
  BY LenProperties
<1>3. /\ Len(b) = n
      /\ \E r \in Bijection(1 .. n, 1 .. n) : \A i \in 1 .. n : Bare(a[i]) = Bare(b[r[i]])
  BY <1>1, SameRootsOrder
<1>4. /\ Len(sb) = m /\ DOMAIN sb = 1 .. m
      /\ \E q \in Bijection(1 .. m, 1 .. m) : \A i \in 1 .. m : Rearranged(sa[i], sb[q[i]])
  BY <1>2, SameSetsOrder, LenProperties
<1>5. PICK q \in Bijection(1 .. m, 1 .. m) : \A i \in 1 .. m : Rearranged(sa[i], sb[q[i]])
  BY <1>4
<1>6. /\ Accepted(network, a, sa, recovery)
      /\ v = [network |-> network, signers |-> c, sets |-> CanonicalSets(sa),
              recovery |-> recovery]
      /\ Distinct(n, Xpubs(n, c)) /\ Distinct(m, CanonicalSets(sa))
  <2>1. /\ Accepted(network, a, sa, recovery)
        /\ v = [network |-> network, signers |-> c, sets |-> CanonicalSets(sa),
                recovery |-> recovery]
        /\ Distinct(Len(a), Xpubs(Len(a), v.signers)) /\ Distinct(Len(sa), v.sets)
    BY BuiltWallet
  <2>2. QED  BY <1>1, <1>2, <2>1
<1>7. /\ c \in Seq(WalletSigner) /\ Len(c) = n
      /\ d \in Seq(WalletSigner) /\ Len(d) = n
  BY <1>1, <1>3, CanonicalOrderSorts
<1>8. \A k \in 1 .. n : Bare(c[k]) = Bare(d[k])
  <2>1. PICK r \in Bijection(1 .. n, 1 .. n) : \A i \in 1 .. n : Bare(a[i]) = Bare(b[r[i]])
    BY <1>3
  <2>2. QED  BY <1>1, <1>3, <1>6, <2>1, CanonicalOrderAlike
<1> HIDE DEF c, d
<1>9. SignersValid(network, d)
  BY <1>6, <1>7, <1>8, SignersValidAlike DEF Accepted, c
<1>10. ASSUME NEW i \in 1 .. m
       PROVE  SetValid(d, sb[q[i]]) /\ Ascending(sa[i]) = Ascending(sb[q[i]])
  <2>1. q[i] \in 1 .. m
    BY DEF Bijection, Injection
  <2>2. sa[i] \in Seq(Nat) /\ sb[q[i]] \in Seq(Nat)
    BY <1>2, <1>4, <2>1, ElementOfSeq
  <2>3. SetValid(c, sa[i]) /\ Rearranged(sa[i], sb[q[i]])
    BY <1>2, <1>5, <1>6 DEF Accepted, c
  <2>4. QED  BY <1>7, <1>8, <2>2, <2>3, SetValidAlike
<1>11. \A j \in 1 .. m : SetValid(d, sb[j])
  <2> SUFFICES ASSUME NEW j \in 1 .. m  PROVE SetValid(d, sb[j])
    OBVIOUS
  <2>1. PICK i \in 1 .. m : q[i] = j
    BY DEF Bijection, Surjection
  <2>2. QED  BY <1>10, <2>1
<1>12. CanonicalSets(sa) = CanonicalSets(sb)
  <2> DEFINE x == Inner(sa)
             y == Inner(sb)
  <2>1. /\ x \in Seq(Seq(Nat)) /\ Len(x) = m /\ \A i \in 1 .. m : x[i] = Ascending(sa[i])
        /\ CanonicalSets(sa) = Lexicographic(x)
    BY <1>2, InnerType
  <2>2. /\ y \in Seq(Seq(Nat)) /\ Len(y) = m /\ \A i \in 1 .. m : y[i] = Ascending(sb[i])
        /\ CanonicalSets(sb) = Lexicographic(y)
    BY <1>4, InnerType
  <2> HIDE DEF x, y
  <2>3. \A i \in 1 .. m : x[i] = y[q[i]]
    <3>1. \A i \in 1 .. m : q[i] \in 1 .. m
      BY DEF Bijection, Injection
    <3>2. QED  BY <1>10, <2>1, <2>2, <3>1
  <2>4. Distinct(m, Lexicographic(x))
    BY <1>6, <2>1
  <2>5. Lexicographic(x) = Lexicographic(y)
    BY <2>1, <2>2, <2>3, <2>4, LexicographicAlike
  <2>6. QED  BY <2>1, <2>2, <2>5
<1>13. Accepted(network, b, sb, recovery)
  <2>1. /\ Len(sb) \in 1 .. MaxSets /\ IsInjective(CanonicalSets(sb))
        /\ RecoveryValid(recovery)
    BY <1>2, <1>4, <1>6, <1>12 DEF Accepted
  <2>2. QED  BY <1>4, <1>9, <1>11, <2>1 DEF Accepted, d
<1>14. /\ IsWallet(w)
       /\ w = [network |-> network, signers |-> d, sets |-> CanonicalSets(sb),
               recovery |-> recovery]
  BY <1>13, BuildAccepts DEF d
<1> HIDE DEF v, w
<1>15. SameButOrigins(v, w)
  BY <1>6, <1>7, <1>8, <1>12, <1>14 DEF SameButOrigins
<1>16. QED  BY <1>14, <1>15 DEF v, w

-----------------------------------------------------------------------------
(* The canonical form is a fixed point.                                    *)

\* A permutation that keeps the order of the places moves nothing.
LEMMA PermutesInOrder ==
  ASSUME NEW n \in Nat, NEW s, DOMAIN s = 1 .. n, NEW t, NEW p, Permutes(p, s, t),
         \A i, j \in 1 .. n : i < j => ~(p[j] < p[i])
  PROVE  \A k \in 1 .. n : t[k] = s[k]
<1>1. p \in Bijection(1 .. n, 1 .. n) /\ \A k \in 1 .. n : t[k] = s[p[k]]
  BY DEF Permutes
<1>2. /\ \A k \in 1 .. n : p[k] \in 1 .. n
      /\ \A i, j \in 1 .. n : p[i] = p[j] => i = j
  BY <1>1 DEF Bijection, Injection, IsInjective
<1>3. ASSUME NEW i \in 1 .. n, NEW j \in 1 .. n, i < j  PROVE p[i] < p[j]
  <2>1. p[i] # p[j] /\ ~(p[j] < p[i])
    BY <1>2, <1>3
  <2>2. p[i] \in 1 .. n /\ p[j] \in 1 .. n
    BY <1>2
  <2>3. QED  BY <2>1, <2>2
<1>4. \A k \in 1 .. n : p[k] = k
  BY ONLY n \in Nat, <1>1, <1>3, MonotoneIsIdentity
<1>5. QED  BY <1>1, <1>4

\* Sorting what is sorted moves nothing: signers, members, sets.
LEMMA CanonicalOrderFixed ==
  ASSUME NEW n \in Nat, NEW c \in Seq(WalletSigner), Len(c) = n,
         \A i, j \in 1 .. n : i < j => SignerLess(c[i], c[j])
  PROVE  CanonicalOrder(c) = c
<1> DEFINE e == CanonicalOrder(c)
<1>1. DOMAIN c = 1 .. n
  BY LenProperties
<1>2. /\ e \in Seq(WalletSigner) /\ Len(e) = n /\ \E p : Permutes(p, c, e)
      /\ \A i, j \in 1 .. n : i < j => ~SignerLess(e[j], e[i])
  BY CanonicalOrderSorts
<1> HIDE DEF e
<1>3. PICK p : Permutes(p, c, e)
  BY <1>2
<1>4. ASSUME NEW i \in 1 .. n, NEW j \in 1 .. n, i < j, p[j] < p[i]  PROVE FALSE
  <2>1. p[i] \in 1 .. n /\ p[j] \in 1 .. n /\ e[i] = c[p[i]] /\ e[j] = c[p[j]]
    BY <1>1, <1>3 DEF Permutes, Bijection, Injection
  <2>2. SignerLess(e[j], e[i])
    BY <1>4, <2>1
  <2>3. QED  BY <1>2, <1>4, <2>2
<1>5. \A k \in 1 .. n : e[k] = c[k]
  BY <1>1, <1>3, <1>4, PermutesInOrder
<1>6. e = c
  BY <1>2, <1>5, SeqEqual
<1>7. QED  BY <1>6 DEF e

LEMMA AscendingFixed ==
  ASSUME NEW n \in Nat, NEW c \in Seq(Nat), Len(c) = n,
         \A i, j \in 1 .. n : i < j => c[i] < c[j]
  PROVE  Ascending(c) = c
<1> DEFINE e == Ascending(c)
<1>1. DOMAIN c = 1 .. n
  BY LenProperties
<1>2. /\ e \in Seq(Nat) /\ Len(e) = n /\ \E p : Permutes(p, c, e)
      /\ \A i, j \in 1 .. n : i < j => ~(e[j] < e[i])
  BY AscendingSorts
<1> HIDE DEF e
<1>3. PICK p : Permutes(p, c, e)
  BY <1>2
<1>4. ASSUME NEW i \in 1 .. n, NEW j \in 1 .. n, i < j, p[j] < p[i]  PROVE FALSE
  <2>1. p[i] \in 1 .. n /\ p[j] \in 1 .. n /\ e[i] = c[p[i]] /\ e[j] = c[p[j]]
    BY <1>1, <1>3 DEF Permutes, Bijection, Injection
  <2>2. e[j] < e[i]
    BY <1>4, <2>1
  <2>3. QED  BY <1>2, <1>4, <2>2
<1>5. \A k \in 1 .. n : e[k] = c[k]
  BY <1>1, <1>3, <1>4, PermutesInOrder
<1>6. e = c
  BY <1>2, <1>5, SeqEqual
<1>7. QED  BY <1>6 DEF e

LEMMA LexicographicFixed ==
  ASSUME NEW n \in Nat, NEW c \in Seq(Seq(Nat)), Len(c) = n,
         \A i, j \in 1 .. n : i < j => TupleLess(c[i], c[j])
  PROVE  Lexicographic(c) = c
<1> DEFINE e == Lexicographic(c)
           T == Seq(Nat)
<1>1. c \in Seq(T)
  OBVIOUS
<1>2. /\ e \in Seq(T) /\ Len(e) = n /\ \E p : Permutes(p, c, e)
      /\ \A i, j \in 1 .. n : i < j => ~TupleLess(e[j], e[i])
  BY LexicographicSorts
<1> HIDE DEF e, T
<1>3. PICK p : Permutes(p, c, e)
  BY <1>2
<1>4. DOMAIN c = 1 .. n
  BY ONLY <1>1, Len(c) = n, LenProperties
<1>5. ASSUME NEW i \in 1 .. n, NEW j \in 1 .. n, i < j, p[j] < p[i]  PROVE FALSE
  <2>1. p[i] \in 1 .. n /\ p[j] \in 1 .. n /\ e[i] = c[p[i]] /\ e[j] = c[p[j]]
    BY <1>3, <1>4 DEF Permutes, Bijection, Injection
  <2>2. TupleLess(e[j], e[i])
    BY <1>5, <2>1
  <2>3. QED  BY <1>2, <1>5, <2>2
<1>6. \A k \in 1 .. n : e[k] = c[k]
  BY ONLY n \in Nat, <1>3, <1>4, <1>5, PermutesInOrder
<1>7. e = c
  BY <1>1, <1>2, <1>6, SeqEqual
<1>8. QED  BY <1>7 DEF e

\* Rearrangement goes both ways and is passed on.
LEMMA RearrangedSymmetric ==
  ASSUME NEW a, NEW b, Rearranged(a, b)
  PROVE  Rearranged(b, a)
<1>1. PICK p \in Bijection(DOMAIN a, DOMAIN b) : \A i \in DOMAIN a : a[i] = b[p[i]]
  BY DEF Rearranged
<1>2. PICK g \in Bijection(DOMAIN b, DOMAIN a) : \A j \in DOMAIN b : p[g[j]] = j
  BY BijectionInverse
<1>3. \A j \in DOMAIN b : g[j] \in DOMAIN a
  BY BijectionFacts
<1>4. \A j \in DOMAIN b : b[j] = a[g[j]]
  BY <1>1, <1>2, <1>3
<1>5. QED  BY <1>4 DEF Rearranged

LEMMA RearrangedTransitive ==
  ASSUME NEW a, NEW b, NEW c, Rearranged(a, b), Rearranged(b, c)
  PROVE  Rearranged(a, c)
<1>1. PICK p \in Bijection(DOMAIN a, DOMAIN b) : \A i \in DOMAIN a : a[i] = b[p[i]]
  BY DEF Rearranged
<1>2. PICK q \in Bijection(DOMAIN b, DOMAIN c) : \A i \in DOMAIN b : b[i] = c[q[i]]
  BY DEF Rearranged
<1> DEFINE h == [i \in DOMAIN a |-> q[p[i]]]
<1>3. h \in Bijection(DOMAIN a, DOMAIN c)
  BY BijectionCompose
<1>4. \A i \in DOMAIN a : p[i] \in DOMAIN b
  BY BijectionFacts
<1>5. \A i \in DOMAIN a : a[i] = c[h[i]]
  BY <1>1, <1>2, <1>4
<1>6. QED  BY <1>3, <1>5 DEF Rearranged

LEMMA SameSetsSymmetric ==
  ASSUME NEW a, NEW b, SameSets(a, b)
  PROVE  SameSets(b, a)
<1>1. PICK p \in Bijection(DOMAIN a, DOMAIN b) : \A i \in DOMAIN a : Rearranged(a[i], b[p[i]])
  BY DEF SameSets
<1>2. PICK g \in Bijection(DOMAIN b, DOMAIN a) : \A j \in DOMAIN b : p[g[j]] = j
  BY BijectionInverse
<1>3. \A j \in DOMAIN b : g[j] \in DOMAIN a
  BY BijectionFacts
<1>4. ASSUME NEW j \in DOMAIN b  PROVE Rearranged(b[j], a[g[j]])
  <2>1. Rearranged(a[g[j]], b[j])
    BY <1>1, <1>2, <1>3
  <2>2. QED  BY <2>1, RearrangedSymmetric
<1>5. QED  BY <1>4 DEF SameSets

LEMMA SameSetsTransitive ==
  ASSUME NEW a, NEW b, NEW c, SameSets(a, b), SameSets(b, c)
  PROVE  SameSets(a, c)
<1>1. PICK p \in Bijection(DOMAIN a, DOMAIN b) : \A i \in DOMAIN a : Rearranged(a[i], b[p[i]])
  BY DEF SameSets
<1>2. PICK q \in Bijection(DOMAIN b, DOMAIN c) : \A i \in DOMAIN b : Rearranged(b[i], c[q[i]])
  BY DEF SameSets
<1> DEFINE h == [i \in DOMAIN a |-> q[p[i]]]
<1>3. h \in Bijection(DOMAIN a, DOMAIN c)
  BY BijectionCompose
<1>4. \A i \in DOMAIN a : p[i] \in DOMAIN b
  BY BijectionFacts
<1>5. ASSUME NEW i \in DOMAIN a  PROVE Rearranged(a[i], c[h[i]])
  <2>1. Rearranged(a[i], b[p[i]]) /\ Rearranged(b[p[i]], c[q[p[i]]])
    BY <1>1, <1>2, <1>4
  <2>2. QED  BY <2>1, RearrangedTransitive
<1> HIDE DEF h
<1>6. QED  BY <1>3, <1>5 DEF SameSets

\* The signers of a built wallet stand strictly in order, and so do its sets.
LEMMA BuiltInOrder ==
  ASSUME NEW network, NEW a \in Seq(WalletSigner), NEW sa \in Seq(Seq(Nat)), NEW recovery,
         IsWallet(Build(network, a, sa, recovery))
  PROVE  LET w == Build(network, a, sa, recovery)
         IN  /\ \A i, j \in 1 .. Len(w.signers) :
                  i < j => SignerLess(w.signers[i], w.signers[j])
             /\ \A i, j \in 1 .. Len(w.sets) : i < j => TupleLess(w.sets[i], w.sets[j])
<1> DEFINE w == Build(network, a, sa, recovery)
           c == CanonicalOrder(a)
           l == CanonicalSets(sa)
<1>1. PICK n \in Nat : n = Len(a)
  BY LenProperties
<1>2. PICK m \in Nat : m = Len(sa)
  BY LenProperties
<1>3. /\ w = [network |-> network, signers |-> c, sets |-> l, recovery |-> recovery]
      /\ w.signers \in Seq(WalletSigner) /\ Len(w.signers) = n
      /\ w.sets \in Seq(Seq(Nat)) /\ Len(w.sets) = m
      /\ Distinct(n, Xpubs(n, w.signers)) /\ Distinct(m, w.sets)
  BY <1>1, <1>2, BuiltWallet
<1>4. w.signers = c /\ w.sets = l
  BY <1>3
<1>5. Strictly(SignersUp, n, Bares(n, c))
  <2>1. Distinct(n, Xpubs(n, c))
    BY <1>3, <1>4
  <2>2. QED  BY <1>1, <2>1, CanonicalOrderStrict
<1>6. ASSUME NEW i \in 1 .. n, NEW j \in 1 .. n, i < j  PROVE SignerLess(c[i], c[j])
  <2>1. c[i] \in WalletSigner /\ c[j] \in WalletSigner
    BY <1>3, <1>4, ElementOfSeq
  <2>2. <<Bare(c[i]), Bare(c[j])>> \in SignersUp
    BY <1>5, <1>6 DEF Strictly, Bares
  <2>3. QED  BY <2>1, <2>2, BareOrder
<1>7. Strictly(TuplesUp, m, l)
  <2>1. Inner(sa) \in Seq(Seq(Nat)) /\ Len(Inner(sa)) = m /\ l = Lexicographic(Inner(sa))
    BY <1>2, InnerType
  <2>2. Distinct(m, Lexicographic(Inner(sa)))
    BY <1>3, <1>4, <2>1
  <2>3. QED  BY <2>1, <2>2, LexicographicStrict
<1>8. ASSUME NEW i \in 1 .. m, NEW j \in 1 .. m, i < j  PROVE TupleLess(l[i], l[j])
  <2>1. <<l[i], l[j]>> \in TuplesUp
    BY <1>7, <1>8 DEF Strictly
  <2>2. QED  BY <2>1 DEF TuplesUp
<1> HIDE DEF c, l, w
<1>9. QED  BY <1>3, <1>4, <1>6, <1>8 DEF w

\* Every wallet the builder returns is in canonical form.
LEMMA BuiltCanonical ==
  ASSUME NEW network, NEW a \in Seq(WalletSigner), NEW sa \in Seq(Seq(Nat)), NEW recovery,
         IsWallet(Build(network, a, sa, recovery))
  PROVE  Canonical(Build(network, a, sa, recovery))
<1> DEFINE w == Build(network, a, sa, recovery)
<1>1. /\ \A i, j \in 1 .. Len(w.signers) : i < j => SignerLess(w.signers[i], w.signers[j])
      /\ \A i, j \in 1 .. Len(w.sets) : i < j => TupleLess(w.sets[i], w.sets[j])
  BY BuiltInOrder
<1>2. Len(w.signers) \in Nat /\ Len(w.sets) \in Nat
  BY BuiltWallet, LenProperties
<1> HIDE DEF w
<1>3. ASSUME NEW i \in 2 .. Len(w.signers)
      PROVE  SignerLess(w.signers[i - 1], w.signers[i])
  <2>1. i - 1 \in 1 .. Len(w.signers) /\ i \in 1 .. Len(w.signers) /\ i - 1 < i
    BY <1>2
  <2>2. QED  BY <1>1, <2>1
<1>4. ASSUME NEW i \in 2 .. Len(w.sets)
      PROVE  TupleLess(w.sets[i - 1], w.sets[i])
  <2>1. i - 1 \in 1 .. Len(w.sets) /\ i \in 1 .. Len(w.sets) /\ i - 1 < i
    BY <1>2
  <2>2. QED  BY <1>1, <2>1
<1>5. QED  BY <1>3, <1>4 DEF Canonical, w

\* Each set of a built wallet is valid in it and already ascending.
LEMMA BuiltSets ==
  ASSUME NEW network, NEW a \in Seq(WalletSigner), NEW sa \in Seq(Seq(Nat)), NEW recovery,
         IsWallet(Build(network, a, sa, recovery))
  PROVE  LET w == Build(network, a, sa, recovery)
         IN  \A i \in 1 .. Len(w.sets) :
               /\ w.sets[i] \in Seq(Nat)
               /\ SetValid(w.signers, w.sets[i])
               /\ Ascending(w.sets[i]) = w.sets[i]
<1> DEFINE w == Build(network, a, sa, recovery)
           l == CanonicalSets(sa)
<1>1. PICK m \in Nat : m = Len(sa) /\ DOMAIN sa = 1 .. m
  BY LenProperties
<1>2. PICK n \in Nat : n = Len(a)
  BY LenProperties
<1>3. /\ w = [network |-> network, signers |-> CanonicalOrder(a), sets |-> l,
              recovery |-> recovery]
      /\ w.signers \in Seq(WalletSigner) /\ Len(w.signers) = n
      /\ w.sets \in Seq(Seq(Nat)) /\ Len(w.sets) = m
      /\ Accepted(network, a, sa, recovery)
  BY <1>1, <1>2, BuiltWallet
<1>4. w.sets = l /\ w.signers = CanonicalOrder(a)
  BY <1>3
<1>5. PICK p \in Bijection(1 .. m, 1 .. m) : \A k \in 1 .. m : l[k] = Inner(sa)[p[k]]
  <2>1. Inner(sa) \in Seq(Seq(Nat)) /\ Len(Inner(sa)) = m
    BY <1>1, InnerType
  <2>2. PICK p \in Bijection(1 .. m, 1 .. m) :
          \A k \in 1 .. m : Lexicographic(Inner(sa))[k] = Inner(sa)[p[k]]
    BY ONLY m \in Nat, <2>1, LexicographicFrom
  <2>3. l = Lexicographic(Inner(sa))
    BY DEF CanonicalSets, Inner
  <2>4. QED  BY <2>2, <2>3
<1> HIDE DEF l, w
<1>6. SUFFICES ASSUME NEW i \in 1 .. m
               PROVE  /\ l[i] \in Seq(Nat)
                      /\ SetValid(w.signers, l[i])
                      /\ Ascending(l[i]) = l[i]
  BY <1>3, <1>4 DEF w
<1> DEFINE x == sa[p[i]]
           y == Ascending(x)
<1>7. p[i] \in 1 .. m
  BY DEF Bijection, Injection
<1>8. x \in Seq(Nat) /\ l[i] = y
  <2>1. x \in Seq(Nat)
    BY <1>1, <1>7, ElementOfSeq
  <2>2. Inner(sa)[p[i]] = Ascending(sa[p[i]])
    BY <1>1, <1>7, InnerType
  <2>3. QED  BY <1>5, <2>1, <2>2
<1>9. SetValid(w.signers, x)
  BY <1>1, <1>3, <1>4, <1>7 DEF Accepted
<1> HIDE DEF x
<1>10. PICK q \in Nat : q = Len(x)
  BY <1>8, LenProperties
<1>11. y \in Seq(Nat) /\ Len(y) = q /\ Strictly(Upwards, q, y)
  BY <1>8, <1>9, <1>10, AscendingStrict DEF SetValid
<1>12. Ascending(y) = y
  <2>1. \A k, j \in 1 .. q : k < j => y[k] < y[j]
    BY <1>11 DEF Strictly, Upwards
  <2> HIDE DEF y
  <2>2. QED  BY <1>11, <2>1, AscendingFixed
<1>13. SetValid(w.signers, y)
  <2>1. Rearranged(y, x)
    <3>1. PICK r : Permutes(r, x, y)
      BY <1>8, AscendingSorts
    <3>2. DOMAIN y = DOMAIN x /\ r \in Bijection(DOMAIN y, DOMAIN x)
      BY <3>1 DEF Permutes
    <3> HIDE DEF y
    <3>3. QED  BY <3>1, <3>2 DEF Permutes, Rearranged
  <2>2. Rearranged(x, y)
    BY <2>1, RearrangedSymmetric
  <2> HIDE DEF y
  <2>3. QED  BY <1>3, <1>8, <1>9, <1>11, <2>2, SetValidAlike
<1>14. QED  BY <1>8, <1>11, <1>12, <1>13

\* A built wallet given to the builder again, with whatever origins and with
\* another valid recovery, is the same wallet.
LEMMA BuildAgain ==
  ASSUME NEW network, NEW a \in Seq(WalletSigner), NEW sa \in Seq(Seq(Nat)), NEW recovery,
         IsWallet(Build(network, a, sa, recovery)),
         NEW d \in Seq(WalletSigner), NEW other, RecoveryValid(other),
         Len(d) = Len(Build(network, a, sa, recovery).signers),
         \A k \in 1 .. Len(d) : Bare(d[k]) = Bare(Build(network, a, sa, recovery).signers[k])
  PROVE  LET w == Build(network, a, sa, recovery)
             v == Build(network, d, w.sets, other)
         IN  /\ IsWallet(v)
             /\ v = [network |-> network, signers |-> d, sets |-> w.sets, recovery |-> other]
<1> DEFINE w == Build(network, a, sa, recovery)
           c == w.signers
           l == w.sets
<1>1. PICK n \in Nat : n = Len(d)
  BY LenProperties
<1>2. /\ w = [network |-> network, signers |-> CanonicalOrder(a),
              sets |-> CanonicalSets(sa), recovery |-> recovery]
      /\ c \in Seq(WalletSigner) /\ Len(c) = n
      /\ l \in Seq(Seq(Nat)) /\ Len(l) = Len(sa)
      /\ Distinct(Len(sa), l)
      /\ Accepted(network, a, sa, recovery)
  BY <1>1, BuiltWallet
<1>3. PICK m \in Nat : m = Len(l)
  BY <1>2, LenProperties
<1>4. /\ \A i, j \in 1 .. n : i < j => SignerLess(c[i], c[j])
      /\ \A i, j \in 1 .. m : i < j => TupleLess(l[i], l[j])
  BY <1>2, <1>3, BuiltInOrder
<1>5. \A i \in 1 .. m : l[i] \in Seq(Nat) /\ SetValid(c, l[i]) /\ Ascending(l[i]) = l[i]
  BY <1>3, BuiltSets
<1>6. \A k \in 1 .. n : Bare(c[k]) = Bare(d[k])
  BY <1>1
<1>7. SignersValid(network, c) /\ m \in 1 .. MaxSets /\ Distinct(m, l)
  BY <1>2, <1>3 DEF Accepted
<1> HIDE DEF c, l, w
<1>8. CanonicalOrder(d) = d
  <2>1. ASSUME NEW i \in 1 .. n, NEW j \in 1 .. n, i < j  PROVE SignerLess(d[i], d[j])
    <3>1. /\ c[i] \in WalletSigner /\ c[j] \in WalletSigner
          /\ d[i] \in WalletSigner /\ d[j] \in WalletSigner
      BY <1>1, <1>2, ElementOfSeq
    <3>2. SignerLess(c[i], c[j]) /\ Bare(c[i]) = Bare(d[i]) /\ Bare(c[j]) = Bare(d[j])
      BY <1>4, <1>6, <2>1
    <3>3. <<Bare(d[i]), Bare(d[j])>> \in SignersUp
      BY <3>1, <3>2, BareOrder
    <3>4. QED  BY <3>1, <3>3, BareOrder
  <2>2. QED  BY <1>1, <2>1, CanonicalOrderFixed
<1>9. CanonicalSets(l) = l
  <2>1. /\ Inner(l) \in Seq(Seq(Nat)) /\ Len(Inner(l)) = m
        /\ \A i \in 1 .. m : Inner(l)[i] = Ascending(l[i])
        /\ CanonicalSets(l) = Lexicographic(Inner(l))
    BY <1>2, <1>3, InnerType
  <2>2. Inner(l) = l
    <3> DEFINE T == Seq(Nat)
    <3>1. Inner(l) \in Seq(T) /\ l \in Seq(T) /\ Len(Inner(l)) = m /\ Len(l) = m
      BY <1>2, <1>3, <2>1
    <3>2. \A i \in 1 .. m : Inner(l)[i] = l[i]
      BY <1>5, <2>1
    <3> HIDE DEF T
    <3>3. QED  BY <3>1, <3>2, SeqEqual
  <2>3. Lexicographic(l) = l
    BY <1>2, <1>3, <1>4, LexicographicFixed
  <2>4. QED  BY <2>1, <2>2, <2>3
<1>10. SignersValid(network, d)
  BY <1>1, <1>2, <1>6, <1>7, SignersValidAlike
<1>11. \A i \in 1 .. m : SetValid(d, l[i])
  <2> SUFFICES ASSUME NEW i \in 1 .. m  PROVE SetValid(d, l[i])
    OBVIOUS
  <2>1. l[i] \in Seq(Nat) /\ SetValid(c, l[i])
    BY <1>5
  <2>2. Rearranged(l[i], l[i])
    <3> DEFINE D == DOMAIN l[i]
               p == [k \in D |-> k]
    <3>1. p \in Bijection(D, D)
      BY DEF Bijection, Injection, Surjection, IsInjective
    <3>2. QED  BY <3>1 DEF Rearranged
  <2>3. QED  BY <1>1, <1>2, <1>6, <2>1, <2>2, SetValidAlike
<1>12. Accepted(network, d, l, other)
  <2>1. DOMAIN l = 1 .. m
    <3> DEFINE T == Seq(Nat)
    <3>1. l \in Seq(T)
      BY <1>2
    <3> HIDE DEF T
    <3>2. QED  BY <1>3, <3>1, LenProperties
  <2>2. IsInjective(l)
    BY <1>7, <2>1 DEF Distinct, IsInjective
  <2>3. QED  BY <1>3, <1>7, <1>8, <1>9, <1>10, <1>11, <2>1, <2>2 DEF Accepted
<1>13. QED  BY <1>8, <1>9, <1>12, BuildAccepts DEF l, w

-----------------------------------------------------------------------------
(* Induction over numbers, from the well-foundedness of <.                 *)

LEMMA MinNat ==
  ASSUME NEW T \in SUBSET Nat, T # {}
  PROVE  \E m \in T : \A k \in T : m <= k
<1> DEFINE R == {p \in Nat \X Nat : p[1] < p[2]}
<1>1. IsWellFoundedOn(R, Nat)
  BY NatLessThanWellFounded DEF OpToRel
<1>2. PICK m \in T : \A k \in T : ~(<<k, m>> \in R)
  <2> HIDE DEF R
  <2>1. QED  BY <1>1, WFMin
<1>3. ASSUME NEW k \in T  PROVE m <= k
  <2>1. k \in Nat /\ m \in Nat
    OBVIOUS
  <2>2. <<k, m>> \in Nat \X Nat
    BY <2>1
  <2>3. ~(k < m)
    BY <1>2, <2>2
  <2>4. QED  BY <2>1, <2>3
<1>4. QED  BY <1>3

LEMMA CountUp ==
  ASSUME NEW S, 0 \in S, \A n \in Nat : n \in S => n + 1 \in S
  PROVE  \A n \in Nat : n \in S
<1> SUFFICES ASSUME NEW n \in Nat, n \notin S  PROVE FALSE
  OBVIOUS
<1>1. PICK m \in Nat \ S : \A k \in Nat \ S : m <= k
  BY MinNat
<1>2. m # 0 /\ m - 1 \in Nat
  BY <1>1
<1>3. m - 1 \in S
  BY <1>1, <1>2
<1>4. QED  BY <1>1, <1>2, <1>3

-----------------------------------------------------------------------------
(* The recursive functions of the tree are what their equations say.       *)

LEMMA RunFacts ==
  ASSUME NEW n \in Nat, NEW r \in Runs(n), ~Single(r)
  PROVE  /\ LowerHalf(r) \in Runs(n) /\ UpperHalf(r) \in Runs(n)
         /\ LowerHalf(r)[1] = r[1] /\ LowerHalf(r)[2] = Middle(r)
         /\ UpperHalf(r)[1] = Middle(r) /\ UpperHalf(r)[2] = r[2]
         /\ r[1] \in Nat /\ r[2] \in Nat /\ Middle(r) \in Nat
         /\ r[1] < Middle(r) /\ Middle(r) < r[2]
<1>1. r[1] \in Nat /\ r[2] \in Nat /\ r[1] < r[2] /\ r[2] # r[1] + 1 /\ r[2] <= n
  BY DEF Runs, Single
<1>2. PICK m : m = Middle(r)
  OBVIOUS
<1>3. m \in Nat /\ r[1] < m /\ m < r[2]
  BY <1>1, <1>2 DEF Middle
<1>4. QED  BY <1>1, <1>2, <1>3 DEF LowerHalf, UpperHalf, Runs

\* What Subtree says of a run, given the hashes of others.
NodeOf(leaves, f, r) ==
  IF Single(r) THEN Leaf(leaves[r[2]]) ELSE Join(f[LowerHalf(r)], f[UpperHalf(r)])

LEMMA SubtreeRule ==
  ASSUME NEW leaves, Len(leaves) \in Nat
  PROVE  LET node == Subtree(leaves)
         IN  \A r \in Runs(Len(leaves)) :
               node[r] = IF Single(r) THEN Leaf(leaves[r[2]])
                         ELSE Join(node[LowerHalf(r)], node[UpperHalf(r)])
<1> DEFINE n == Len(leaves)
           Holds(f, m) == /\ f = [r \in Runs(n) |-> f[r]]
                          /\ \A r \in Runs(n) :
                               r[2] - r[1] <= m => f[r] = NodeOf(leaves, f, r)
           Upto == {m \in Nat : \E f : Holds(f, m)}
<1>1. 0 \in Upto
  <2>1. \A r \in Runs(n) : ~(r[2] - r[1] <= 0)
    BY DEF Runs
  <2>2. PICK f : f = [r \in Runs(n) |-> 0]
    OBVIOUS
  <2>3. f = [r \in Runs(n) |-> f[r]]
    BY <2>2
  <2>4. QED  BY <2>1, <2>3
<1>2. ASSUME NEW m \in Nat, m \in Upto  PROVE m + 1 \in Upto
  <2>1. PICK f : Holds(f, m)
    BY <1>2
  <2>2. PICK g : g = [r \in Runs(n) |-> NodeOf(leaves, f, r)]
    OBVIOUS
  <2>3. g = [r \in Runs(n) |-> g[r]] /\ \A r \in Runs(n) : g[r] = NodeOf(leaves, f, r)
    BY <2>2
  <2>4. \A r \in Runs(n) : r[2] - r[1] <= m => g[r] = f[r]
    BY <2>1, <2>3
  <2>5. ASSUME NEW r \in Runs(n), r[2] - r[1] <= m + 1
        PROVE  g[r] = NodeOf(leaves, g, r)
    <3>1. CASE Single(r)
      BY <3>1, <2>3 DEF NodeOf
    <3>2. CASE ~Single(r)
      <4>1. g[LowerHalf(r)] = f[LowerHalf(r)] /\ g[UpperHalf(r)] = f[UpperHalf(r)]
        BY <3>2, RunFacts, <2>4, <2>5
      <4>2. QED  BY <4>1, <3>2, <2>3 DEF NodeOf
    <3>3. QED  BY <3>1, <3>2
  <2>6. QED  BY <2>3, <2>5
<1>3. n \in Upto
  <2> HIDE DEF Upto
  <2>1. QED  BY <1>1, <1>2, CountUp
<1>4. PICK f : Holds(f, n)
  BY <1>3
<1>5. \A r \in Runs(n) : r[2] - r[1] <= n
  BY DEF Runs
<1>6. \A r \in Runs(n) : f[r] = NodeOf(leaves, f, r)
  BY <1>4, <1>5
<1>7. f = [r \in Runs(n) |-> NodeOf(leaves, f, r)]
  BY <1>4, <1>6
<1>8. Subtree(leaves) = CHOOSE g : g = [r \in Runs(n) |-> NodeOf(leaves, g, r)]
  BY DEF Subtree, NodeOf
<1>9. Subtree(leaves) = [r \in Runs(n) |-> NodeOf(leaves, Subtree(leaves), r)]
  BY <1>7, <1>8
<1>10. QED  BY <1>9 DEF NodeOf

\* What Siblings says of a run, given the paths in others.
PathOf(leaves, k, f, r) ==
  IF Single(r) THEN <<>>
  ELSE IF k <= Middle(r) THEN Append(f[LowerHalf(r)], Subtree(leaves)[UpperHalf(r)])
  ELSE Append(f[UpperHalf(r)], Subtree(leaves)[LowerHalf(r)])

LEMMA SiblingsRule ==
  ASSUME NEW leaves, Len(leaves) \in Nat, NEW k
  PROVE  LET node == Subtree(leaves)
             path == Siblings(leaves, k)
         IN  \A r \in Runs(Len(leaves)) :
               path[r] = IF Single(r) THEN <<>>
                         ELSE IF k <= Middle(r)
                         THEN Append(path[LowerHalf(r)], node[UpperHalf(r)])
                         ELSE Append(path[UpperHalf(r)], node[LowerHalf(r)])
<1> DEFINE n == Len(leaves)
           Holds(f, m) == /\ f = [r \in Runs(n) |-> f[r]]
                          /\ \A r \in Runs(n) :
                               r[2] - r[1] <= m => f[r] = PathOf(leaves, k, f, r)
           Upto == {m \in Nat : \E f : Holds(f, m)}
<1>1. 0 \in Upto
  <2>1. \A r \in Runs(n) : ~(r[2] - r[1] <= 0)
    BY DEF Runs
  <2>2. PICK f : f = [r \in Runs(n) |-> 0]
    OBVIOUS
  <2>3. f = [r \in Runs(n) |-> f[r]]
    BY <2>2
  <2>4. QED  BY <2>1, <2>3
<1>2. ASSUME NEW m \in Nat, m \in Upto  PROVE m + 1 \in Upto
  <2>1. PICK f : Holds(f, m)
    BY <1>2
  <2>2. PICK g : g = [r \in Runs(n) |-> PathOf(leaves, k, f, r)]
    OBVIOUS
  <2>3. g = [r \in Runs(n) |-> g[r]] /\ \A r \in Runs(n) : g[r] = PathOf(leaves, k, f, r)
    BY <2>2
  <2>4. \A r \in Runs(n) : r[2] - r[1] <= m => g[r] = f[r]
    BY <2>1, <2>3
  <2>5. ASSUME NEW r \in Runs(n), r[2] - r[1] <= m + 1
        PROVE  g[r] = PathOf(leaves, k, g, r)
    <3>1. CASE Single(r)
      BY <3>1, <2>3 DEF PathOf
    <3>2. CASE ~Single(r)
      <4>1. g[LowerHalf(r)] = f[LowerHalf(r)] /\ g[UpperHalf(r)] = f[UpperHalf(r)]
        BY <3>2, RunFacts, <2>4, <2>5
      <4>2. QED  BY <4>1, <3>2, <2>3 DEF PathOf
    <3>3. QED  BY <3>1, <3>2
  <2>6. QED  BY <2>3, <2>5
<1>3. n \in Upto
  <2> HIDE DEF Upto
  <2>1. QED  BY <1>1, <1>2, CountUp
<1>4. PICK f : Holds(f, n)
  BY <1>3
<1>5. \A r \in Runs(n) : r[2] - r[1] <= n
  BY DEF Runs
<1>6. \A r \in Runs(n) : f[r] = PathOf(leaves, k, f, r)
  BY <1>4, <1>5
<1>7. f = [r \in Runs(n) |-> PathOf(leaves, k, f, r)]
  BY <1>4, <1>6
<1>8. Siblings(leaves, k) = CHOOSE g : g = [r \in Runs(n) |-> PathOf(leaves, k, g, r)]
  BY DEF Siblings, PathOf
<1>9. Siblings(leaves, k) = [r \in Runs(n) |-> PathOf(leaves, k, Siblings(leaves, k), r)]
  BY <1>7, <1>8
<1>10. QED  BY <1>9 DEF PathOf

\* What Hashes says of a height, given the hash below it.
HashOf(leaf, path, f, j) == IF j = 0 THEN leaf ELSE Join(f[j - 1], path[j])

LEMMA HashesRule ==
  ASSUME NEW leaf, NEW path, Len(path) \in Nat
  PROVE  /\ Hashes(leaf, path)[0] = leaf
         /\ \A j \in 1 .. Len(path) :
              Hashes(leaf, path)[j] = Join(Hashes(leaf, path)[j - 1], path[j])
<1> DEFINE n == Len(path)
           D == 0 .. n
           Holds(f, m) == /\ f = [j \in D |-> f[j]]
                          /\ \A j \in D : j <= m => f[j] = HashOf(leaf, path, f, j)
           Upto == {m \in Nat : \E f : Holds(f, m)}
<1>1. 0 \in Upto
  <2>1. PICK f : f = [j \in D |-> leaf]
    OBVIOUS
  <2>2. f = [j \in D |-> f[j]]
    BY <2>1
  <2>3. \A j \in D : j <= 0 => f[j] = HashOf(leaf, path, f, j)
    BY <2>1 DEF HashOf
  <2>4. QED  BY <2>2, <2>3
<1>2. ASSUME NEW m \in Nat, m \in Upto  PROVE m + 1 \in Upto
  <2>1. PICK f : Holds(f, m)
    BY <1>2
  <2>2. PICK g : g = [j \in D |-> HashOf(leaf, path, f, j)]
    OBVIOUS
  <2>3. g = [j \in D |-> g[j]] /\ \A j \in D : g[j] = HashOf(leaf, path, f, j)
    BY <2>2
  <2>4. \A j \in D : j <= m => g[j] = f[j]
    BY <2>1, <2>3
  <2>5. ASSUME NEW j \in D, j <= m + 1  PROVE g[j] = HashOf(leaf, path, g, j)
    <3>1. CASE j = 0
      BY <3>1, <2>3 DEF HashOf
    <3>2. CASE j # 0
      <4>1. j - 1 \in D /\ j - 1 <= m
        BY <2>5, <3>2
      <4>2. g[j - 1] = f[j - 1]
        BY <4>1, <2>4
      <4>3. QED  BY <4>2, <3>2, <2>3 DEF HashOf
    <3>3. QED  BY <3>1, <3>2
  <2>6. QED  BY <2>3, <2>5
<1>3. n \in Upto
  <2> HIDE DEF Upto
  <2>1. QED  BY <1>1, <1>2, CountUp
<1>4. PICK f : Holds(f, n)
  BY <1>3
<1>5. \A j \in D : f[j] = HashOf(leaf, path, f, j)
  BY <1>4
<1>6. f = [j \in D |-> HashOf(leaf, path, f, j)]
  BY <1>4, <1>5
<1>7. Hashes(leaf, path) = CHOOSE g : g = [j \in D |-> HashOf(leaf, path, g, j)]
  BY DEF Hashes, HashOf
<1>8. Hashes(leaf, path) = [j \in D |-> HashOf(leaf, path, Hashes(leaf, path), j)]
  BY <1>6, <1>7
<1>9. \A j \in D : Hashes(leaf, path)[j] = HashOf(leaf, path, Hashes(leaf, path), j)
  BY <1>8
<1>10. QED  BY <1>9 DEF HashOf

-----------------------------------------------------------------------------
(* What the tree proves and what its root determines.                      *)

LEMMA ClimbEmpty ==
  ASSUME NEW leaf
  PROVE  Climb(leaf, <<>>) = leaf
<1>1. Len(<<>>) = 0
  OBVIOUS
<1>2. QED  BY <1>1, HashesRule DEF Climb

LEMMA ClimbAppend ==
  ASSUME NEW leaf, NEW U, NEW path \in Seq(U), NEW s \in U
  PROVE  Climb(leaf, Append(path, s)) = Join(Climb(leaf, path), s)
<1>1. PICK n \in Nat : n = Len(path)
  BY LenProperties
<1>2. PICK q : q = Append(path, s)
  OBVIOUS
<1>3. Len(q) = n + 1 /\ q[n + 1] = s /\ \A j \in 1 .. n : q[j] = path[j]
  BY <1>1, <1>2, AppendProperties
<1>4. /\ Hashes(leaf, path)[0] = leaf
      /\ \A j \in 1 .. n : Hashes(leaf, path)[j] = Join(Hashes(leaf, path)[j - 1], path[j])
  BY <1>1, HashesRule
<1>5. /\ Hashes(leaf, q)[0] = leaf
      /\ \A j \in 1 .. n + 1 : Hashes(leaf, q)[j] = Join(Hashes(leaf, q)[j - 1], q[j])
  BY <1>3, HashesRule
<1> DEFINE Same == {m \in Nat : m <= n => Hashes(leaf, q)[m] = Hashes(leaf, path)[m]}
<1>6. 0 \in Same
  BY <1>4, <1>5
<1>7. ASSUME NEW m \in Nat, m \in Same  PROVE m + 1 \in Same
  <2>1. SUFFICES ASSUME m + 1 <= n
                 PROVE  Hashes(leaf, q)[m + 1] = Hashes(leaf, path)[m + 1]
    OBVIOUS
  <2>2. m + 1 \in 1 .. n /\ m + 1 \in 1 .. n + 1 /\ (m + 1) - 1 = m
    BY <2>1
  <2>3. Hashes(leaf, q)[m] = Hashes(leaf, path)[m]
    BY <1>7, <2>1
  <2>4. QED  BY <1>3, <1>4, <1>5, <2>2, <2>3
<1>8. n \in Same
  <2> HIDE DEF Same
  <2>1. QED  BY <1>6, <1>7, CountUp
<1>9. Hashes(leaf, q)[n + 1] = Join(Hashes(leaf, q)[n], s)
  <2>1. n + 1 \in 1 .. n + 1 /\ (n + 1) - 1 = n
    OBVIOUS
  <2>2. QED  BY <1>3, <1>5, <2>1
<1>10. QED  BY <1>1, <1>2, <1>3, <1>8, <1>9 DEF Climb

\* Within every run, the path of a leaf leads from it to the run's hash.
LEMMA PathClimbs ==
  ASSUME NEW leaves, Len(leaves) \in Nat, NEW k \in Nat
  PROVE  \A r \in Runs(Len(leaves)) : r[1] < k /\ k <= r[2] =>
           Climb(Leaf(leaves[k]), Siblings(leaves, k)[r]) = Subtree(leaves)[r]
<1> DEFINE n == Len(leaves)
           node == Subtree(leaves)
           path == Siblings(leaves, k)
           U == {node[r] : r \in Runs(n)}
           Leads(r) == path[r] \in Seq(U) /\ Climb(Leaf(leaves[k]), path[r]) = node[r]
           Upto == {m \in Nat : \A r \in Runs(n) :
                      r[2] - r[1] <= m /\ r[1] < k /\ k <= r[2] => Leads(r)}
<1>1. \A r \in Runs(n) :
        node[r] = IF Single(r) THEN Leaf(leaves[r[2]])
                  ELSE Join(node[LowerHalf(r)], node[UpperHalf(r)])
  BY SubtreeRule
<1>2. \A r \in Runs(n) :
        path[r] = IF Single(r) THEN <<>>
                  ELSE IF k <= Middle(r) THEN Append(path[LowerHalf(r)], node[UpperHalf(r)])
                  ELSE Append(path[UpperHalf(r)], node[LowerHalf(r)])
  BY SiblingsRule
<1>3. \A r \in Runs(n) : r[1] \in Nat /\ r[2] \in Nat /\ r[1] < r[2] /\ r[2] - r[1] <= n
  BY DEF Runs
<1> HIDE DEF node, path
<1>4. 0 \in Upto
  BY <1>3
<1>5. ASSUME NEW m \in Nat, m \in Upto  PROVE m + 1 \in Upto
  <2> HIDE DEF Leads
  <2> SUFFICES ASSUME NEW r \in Runs(n), r[2] - r[1] <= m + 1, r[1] < k, k <= r[2]
               PROVE  Leads(r)
    OBVIOUS
  <2>1. CASE Single(r)
    <3>1. k = r[2]
      BY <1>3, <2>1 DEF Single
    <3>2. path[r] = <<>> /\ node[r] = Leaf(leaves[k])
      BY <1>1, <1>2, <2>1, <3>1
    <3>3. <<>> \in Seq(U)
      BY EmptySeq
    <3> HIDE DEF U
    <3>4. QED  BY <3>2, <3>3, ClimbEmpty DEF Leads
  <2>2. CASE ~Single(r)
    <3>1. /\ LowerHalf(r) \in Runs(n) /\ UpperHalf(r) \in Runs(n)
          /\ LowerHalf(r)[1] = r[1] /\ LowerHalf(r)[2] = Middle(r)
          /\ UpperHalf(r)[1] = Middle(r) /\ UpperHalf(r)[2] = r[2]
          /\ r[1] \in Nat /\ r[2] \in Nat /\ Middle(r) \in Nat
          /\ r[1] < Middle(r) /\ Middle(r) < r[2]
      BY <2>2, RunFacts
    <3>2. node[LowerHalf(r)] \in U /\ node[UpperHalf(r)] \in U
      BY <3>1
    <3>3. node[r] = Join(node[LowerHalf(r)], node[UpperHalf(r)])
      BY <1>1, <2>2
    <3>4. CASE k <= Middle(r)
      <4>1. path[r] = Append(path[LowerHalf(r)], node[UpperHalf(r)])
        BY <1>2, <2>2, <3>4
      <4>2. Leads(LowerHalf(r))
        BY <1>5, <3>1, <3>4
      <4> HIDE DEF U
      <4>3. path[r] \in Seq(U)
        BY <3>2, <4>1, <4>2, AppendProperties DEF Leads
      <4>4. Climb(Leaf(leaves[k]), path[r]) = Join(node[LowerHalf(r)], node[UpperHalf(r)])
        BY <3>2, <4>1, <4>2, ClimbAppend DEF Leads
      <4>5. QED  BY <3>3, <4>3, <4>4 DEF Leads
    <3>5. CASE ~(k <= Middle(r))
      <4>1. path[r] = Append(path[UpperHalf(r)], node[LowerHalf(r)])
        BY <1>2, <2>2, <3>5
      <4>2. Leads(UpperHalf(r))
        BY <1>5, <3>1, <3>5
      <4> HIDE DEF U
      <4>3. path[r] \in Seq(U)
        BY <3>2, <4>1, <4>2, AppendProperties DEF Leads
      <4>4. Climb(Leaf(leaves[k]), path[r]) = Join(node[UpperHalf(r)], node[LowerHalf(r)])
        BY <3>2, <4>1, <4>2, ClimbAppend DEF Leads
      <4>5. \A a, b : Join(a, b) = Join(b, a)
        BY DEF Join
      <4>6. QED  BY <3>3, <4>3, <4>4, <4>5 DEF Leads
    <3>6. QED  BY <3>4, <3>5
  <2>3. QED  BY <2>1, <2>2
<1>6. n \in Upto
  <2> HIDE DEF Upto
  <2>1. QED  BY <1>4, <1>5, CountUp
<1>7. QED  BY <1>3, <1>6 DEF node, path

Covered(leaves, r) == {leaves[i] : i \in r[1] + 1 .. r[2]}

\* Hashes of one value cover the same scripts, in whatever trees they are.
LEMMA HashCovers ==
  ASSUME NEW a, Len(a) \in Nat, NEW b, Len(b) \in Nat,
         NEW r \in Runs(Len(a)), NEW q \in Runs(Len(b)),
         Subtree(a)[r] = Subtree(b)[q]
  PROVE  Covered(a, r) = Covered(b, q)
<1> DEFINE n == Len(a)
           na == Subtree(a)
           nb == Subtree(b)
           Upto == {m \in Nat : \A x \in Runs(n), y \in Runs(Len(b)) :
                      x[2] - x[1] <= m /\ na[x] = nb[y] => Covered(a, x) = Covered(b, y)}
<1>1. \A x \in Runs(n) :
        na[x] = IF Single(x) THEN Leaf(a[x[2]])
                ELSE Join(na[LowerHalf(x)], na[UpperHalf(x)])
  BY SubtreeRule
<1>2. \A y \in Runs(Len(b)) :
        nb[y] = IF Single(y) THEN Leaf(b[y[2]])
                ELSE Join(nb[LowerHalf(y)], nb[UpperHalf(y)])
  BY SubtreeRule
<1>3. \A x \in Runs(n) : x[1] \in Nat /\ x[2] \in Nat /\ x[1] < x[2] /\ x[2] - x[1] <= n
  BY DEF Runs
<1>4. \A y \in Runs(Len(b)) : y[1] \in Nat /\ y[2] \in Nat
  BY DEF Runs
<1> HIDE DEF na, nb
<1>5. 0 \in Upto
  BY <1>3
<1>6. \A s, t, u : Leaf(s) # Join(t, u)
  BY DEF Leaf, Join
<1>7. \A s, t : Leaf(s) = Leaf(t) => s = t
  BY DEF Leaf
<1>8. \A s, t, u, v : Join(s, t) = Join(u, v) => (s = u /\ t = v) \/ (s = v /\ t = u)
  <2> SUFFICES ASSUME NEW s, NEW t, NEW u, NEW v, Join(s, t) = Join(u, v)
               PROVE  (s = u /\ t = v) \/ (s = v /\ t = u)
    OBVIOUS
  <2>1. {s, t} = {u, v}
    BY DEF Join
  <2>2. QED  BY <2>1
<1>9. \A s : \A x \in Runs(Len(s)) : Len(s) \in Nat /\ Single(x) => Covered(s, x) = {s[x[2]]}
  <2> SUFFICES ASSUME NEW s, NEW x \in Runs(Len(s)), Len(s) \in Nat, Single(x)
               PROVE  Covered(s, x) = {s[x[2]]}
    OBVIOUS
  <2>1. x[1] + 1 .. x[2] = {x[2]}
    BY DEF Single, Runs
  <2>2. QED  BY <2>1 DEF Covered
<1>10. \A s : \A x \in Runs(Len(s)) : Len(s) \in Nat /\ ~Single(x) =>
         Covered(s, x) = Covered(s, LowerHalf(x)) \cup Covered(s, UpperHalf(x))
  <2> SUFFICES ASSUME NEW s, NEW x \in Runs(Len(s)), Len(s) \in Nat, ~Single(x)
               PROVE  Covered(s, x) = Covered(s, LowerHalf(x)) \cup Covered(s, UpperHalf(x))
    OBVIOUS
  <2>1. /\ LowerHalf(x)[1] = x[1] /\ LowerHalf(x)[2] = Middle(x)
        /\ UpperHalf(x)[1] = Middle(x) /\ UpperHalf(x)[2] = x[2]
        /\ x[1] \in Nat /\ x[2] \in Nat /\ Middle(x) \in Nat
        /\ x[1] < Middle(x) /\ Middle(x) < x[2]
    BY RunFacts
  <2>2. x[1] + 1 .. x[2] = (x[1] + 1 .. Middle(x)) \cup (Middle(x) + 1 .. x[2])
    BY <2>1
  <2>3. QED  BY <2>1, <2>2 DEF Covered
<1>11. ASSUME NEW m \in Nat, m \in Upto  PROVE m + 1 \in Upto
  <2> SUFFICES ASSUME NEW x \in Runs(n), NEW y \in Runs(Len(b)),
                      x[2] - x[1] <= m + 1, na[x] = nb[y]
               PROVE  Covered(a, x) = Covered(b, y)
    OBVIOUS
  <2>1. CASE Single(x)
    <3>1. Single(y) /\ a[x[2]] = b[y[2]]
      BY <1>1, <1>2, <1>6, <1>7, <2>1
    <3>2. QED  BY <1>9, <2>1, <3>1
  <2>2. CASE ~Single(x)
    <3>1. ~Single(y)
      BY <1>1, <1>2, <1>6, <2>2
    <3> DEFINE lx == LowerHalf(x)
               ux == UpperHalf(x)
               ly == LowerHalf(y)
               uy == UpperHalf(y)
    <3>2. /\ lx \in Runs(n) /\ ux \in Runs(n)
          /\ lx[2] - lx[1] <= m /\ ux[2] - ux[1] <= m
      BY <2>2, RunFacts
    <3>3. ly \in Runs(Len(b)) /\ uy \in Runs(Len(b))
      BY <3>1, RunFacts
    <3>4. Join(na[lx], na[ux]) = Join(nb[ly], nb[uy])
      BY <1>1, <1>2, <2>2, <3>1
    <3> HIDE DEF lx, ux, ly, uy
    <3>5. \/ na[lx] = nb[ly] /\ na[ux] = nb[uy]
          \/ na[lx] = nb[uy] /\ na[ux] = nb[ly]
      BY <1>8, <3>4
    <3>6. \/ Covered(a, lx) = Covered(b, ly) /\ Covered(a, ux) = Covered(b, uy)
          \/ Covered(a, lx) = Covered(b, uy) /\ Covered(a, ux) = Covered(b, ly)
      BY <1>11, <3>2, <3>3, <3>5
    <3>7. /\ Covered(a, x) = Covered(a, lx) \cup Covered(a, ux)
          /\ Covered(b, y) = Covered(b, ly) \cup Covered(b, uy)
      BY <1>10, <2>2, <3>1 DEF lx, ux, ly, uy
    <3>8. QED  BY <3>6, <3>7
  <2>3. QED  BY <2>1, <2>2
<1>12. n \in Upto
  <2> HIDE DEF Upto
  <2>1. QED  BY <1>5, <1>11, CountUp
<1>13. QED  BY <1>3, <1>12 DEF na, nb

-----------------------------------------------------------------------------
(* The leaves of a wallet.                                                 *)

\* As many values as a list without repetitions has places.
LEMMA CountDistinct ==
  ASSUME NEW n \in Nat, NEW s, DOMAIN s = 1 .. n, Distinct(n, s)
  PROVE  IsFiniteSet({s[i] : i \in 1 .. n}) /\ Cardinality({s[i] : i \in 1 .. n}) = n
<1> DEFINE T == {s[i] : i \in 1 .. n}
           f == [i \in 1 .. n |-> s[i]]
<1>1. f \in [1 .. n -> T] /\ \A t \in T : \E i \in 1 .. n : f[i] = t
  OBVIOUS
<1>2. \A i, j \in 1 .. n : f[i] = f[j] => i = j
  BY DEF Distinct
<1> HIDE DEF T, f
<1>3. f \in Bijection(1 .. n, T)
  BY <1>1, <1>2 DEF Bijection, Injection, Surjection, IsInjective
<1>4. ExistsBijection(1 .. n, T)
  BY <1>3 DEF ExistsBijection
<1>5. IsFiniteSet(1 .. n) /\ Cardinality(T) = n
  BY <1>4, FS_CountingElements, FS_Interval
<1>6. QED  BY <1>4, <1>5, FS_NatBijection DEF T

\* SetToSeq lists a finite set, each element once.
LEMMA SetListed ==
  ASSUME NEW T, IsFiniteSet(T)
  PROVE  LET s == SetToSeq(T)
             n == Cardinality(T)
         IN  /\ n \in Nat /\ s \in Seq(T) /\ Len(s) = n /\ DOMAIN s = 1 .. n
             /\ \A i \in 1 .. n : s[i] \in T
             /\ Distinct(n, s)
             /\ T = {s[i] : i \in 1 .. n}
<1> DEFINE n == Cardinality(T)
           s == SetToSeq(T)
<1>1. PICK g \in Bijection(1 .. n, T) : TRUE
  BY FS_CardinalityType DEF ExistsBijection
<1>2. g \in [1 .. n -> T] /\ IsInjective(g)
  BY DEF Bijection, Injection
<1>3. s \in [1 .. n -> T] /\ IsInjective(s)
  BY <1>2 DEF SetToSeq
<1>4. n \in Nat
  BY FS_CardinalityType
<1> HIDE DEF n, s
<1>5. s \in Injection(1 .. n, T)
  BY <1>3 DEF Injection
<1>6. Cardinality(1 .. n) = n /\ IsFiniteSet(1 .. n)
  BY <1>4, FS_Interval
<1>7. s \in Surjection(1 .. n, T)
  BY <1>5, <1>6, FS_Injection DEF n
<1>8. \A t \in T : \E i \in 1 .. n : s[i] = t
  BY <1>7 DEF Surjection
<1>9. Distinct(n, s)
  BY <1>3 DEF Distinct, IsInjective
<1>10. s \in Seq(T) /\ Len(s) = n
  BY <1>3, <1>4, FunctionIsSeq
<1>11. T = {s[i] : i \in 1 .. n}
  BY <1>3, <1>8
<1>12. QED  BY <1>3, <1>4, <1>9, <1>10, <1>11 DEF n, s

\* A wallet whose signers have different roots and whose sets differ.
Plantable(w) ==
  /\ w.signers \in Seq(WalletSigner)
  /\ \A i, j \in 1 .. Len(w.signers) :
       RootOf[w.signers[i].xpub] = RootOf[w.signers[j].xpub] => i = j
  /\ w.sets \in Seq(Seq(Nat)) /\ Len(w.sets) > 0
  /\ \A k \in DOMAIN w.sets : SetValid(w.signers, w.sets[k])
  /\ \A j, k \in DOMAIN w.sets : ToSet(w.sets[j]) = ToSet(w.sets[k]) => j = k

\* The keys a set demands at a derivation.
KeysOf(w, set, branch, index) ==
  {ChildKey(w.signers[i + 1], branch, index) : i \in ToSet(set)}

LEMMA SetPlaces ==
  ASSUME NEW w, Plantable(w), NEW k \in DOMAIN w.sets
  PROVE  /\ w.sets[k] \in Seq(Nat) /\ Len(w.sets[k]) \in 1 .. 3
         /\ DOMAIN w.sets[k] = 1 .. Len(w.sets[k])
         /\ Distinct(Len(w.sets[k]), w.sets[k])
         /\ ToSet(w.sets[k]) # {}
         /\ \A i \in ToSet(w.sets[k]) : i \in Nat /\ i + 1 \in 1 .. Len(w.signers)
<1> DEFINE U == Seq(Nat)
<1>1. w.sets \in Seq(U) /\ Len(w.signers) \in Nat
  BY LenProperties DEF Plantable
<1>2. w.sets[k] \in U
  <2> HIDE DEF U
  <2>1. DOMAIN w.sets = 1 .. Len(w.sets)
    BY <1>1, LenProperties
  <2>2. QED  BY <1>1, <2>1, ElementOfSeq
<1>3. PICK t : t = w.sets[k]
  OBVIOUS
<1>4. SetValid(w.signers, t)
  BY <1>3 DEF Plantable
<1>5. PICK m \in Nat : m = Len(t) /\ DOMAIN t = 1 .. m /\ \A i \in 1 .. m : t[i] \in Nat
  BY <1>2, <1>3, LenProperties, ElementOfSeq
<1>6. m \in 1 .. 3 /\ Distinct(m, t)
  BY <1>4, <1>5 DEF SetValid, IsInjective, Distinct
<1>7. \A i \in ToSet(t) : i \in Nat /\ i < Len(w.signers)
  BY <1>4, <1>5 DEF SetValid, ToSet
<1>8. \A i \in ToSet(t) : i + 1 \in 1 .. Len(w.signers)
  BY <1>1, <1>7
<1>9. t[1] \in ToSet(t)
  BY <1>5, <1>6 DEF ToSet
<1>10. QED  BY <1>2, <1>3, <1>5, <1>6, <1>7, <1>8, <1>9

\* A key says whose it is and at which derivation.
LEMMA ChildKeyDiffers ==
  ASSUME NEW v, NEW u, NEW b, NEW x, NEW c, NEW y, ChildKey(v, b, x) = ChildKey(u, c, y)
  PROVE  RootOf[v.xpub] = RootOf[u.xpub] /\ b = c /\ x = y
BY DEF ChildKey

\* The script of a set demands the set's keys, each once.
LEMMA SetScriptFacts ==
  ASSUME NEW w, Plantable(w), NEW k \in DOMAIN w.sets, NEW b, NEW x
  PROVE  LET s == SetScript(w, w.sets[k], b, x)
         IN  /\ s.op = "sortedmulti_a"
             /\ s.keys = KeysOf(w, w.sets[k], b, x)
             /\ Cardinality(s.keys) = s.size
<1> DEFINE t == w.sets[k]
           m == Len(t)
<1>1. /\ m \in Nat /\ DOMAIN t = 1 .. m /\ Distinct(m, t)
      /\ \A i \in ToSet(t) : i \in Nat /\ i + 1 \in 1 .. Len(w.signers)
  <2>1. /\ Len(w.sets[k]) \in 1 .. 3 /\ DOMAIN w.sets[k] = 1 .. Len(w.sets[k])
        /\ Distinct(Len(w.sets[k]), w.sets[k])
        /\ \A i \in ToSet(w.sets[k]) : i \in Nat /\ i + 1 \in 1 .. Len(w.signers)
    BY SetPlaces
  <2>2. QED  BY <2>1
<1> HIDE DEF t, m
<1>0. \A i \in 1 .. m : t[i] \in ToSet(t)
  BY <1>1 DEF ToSet
<1>2. PICK u : u = [i \in 1 .. m |-> ChildKey(w.signers[t[i] + 1], b, x)]
  OBVIOUS
<1>3. SetScript(w, t, b, x) = SortedMulti(u) /\ Len(t) = m
  BY <1>1, <1>2 DEF SetScript, m
<1>4. DOMAIN u = 1 .. m /\ Len(u) = m
  <2>1. u \in [1 .. m -> {u[i] : i \in 1 .. m}]
    BY <1>2
  <2>2. QED  BY <1>1, <2>1, FunctionIsSeq
<1>5. Distinct(m, u)
  <2> SUFFICES ASSUME NEW i \in 1 .. m, NEW j \in 1 .. m, u[i] = u[j]  PROVE i = j
    BY DEF Distinct
  <2>0. /\ t[i] + 1 \in 1 .. Len(w.signers) /\ t[j] + 1 \in 1 .. Len(w.signers)
        /\ t[i] \in Nat /\ t[j] \in Nat
    BY <1>0, <1>1
  <2>1. ChildKey(w.signers[t[i] + 1], b, x) = ChildKey(w.signers[t[j] + 1], b, x)
    BY <1>2
  <2>2. t[i] + 1 = t[j] + 1
    <3> DEFINE p == t[i] + 1
               q == t[j] + 1
    <3>1. PICK n \in Nat : n = Len(w.signers)
      BY LenProperties DEF Plantable
    <3>2. /\ p \in 1 .. n /\ q \in 1 .. n
          /\ ChildKey(w.signers[p], b, x) = ChildKey(w.signers[q], b, x)
      BY <2>0, <2>1, <3>1
    <3> HIDE DEF p, q
    <3>3. RootOf[w.signers[p].xpub] = RootOf[w.signers[q].xpub]
      BY <3>2, ChildKeyDiffers
    <3>4. p = q
      BY <3>1, <3>2, <3>3 DEF Plantable
    <3>5. QED  BY <3>4 DEF p, q
  <2>4. t[i] = t[j]
    BY <2>0, <2>2
  <2>3. QED  BY <1>1, <2>4 DEF Distinct
<1>6. ToSet(u) = {u[i] : i \in 1 .. m}
  BY <1>4 DEF ToSet
<1>7. Cardinality(ToSet(u)) = m
  BY <1>1, <1>4, <1>5, <1>6, CountDistinct
<1>8. ToSet(u) = KeysOf(w, t, b, x)
  <2>1. ToSet(t) = {t[i] : i \in 1 .. m}
    BY <1>1 DEF ToSet
  <2>2. {ChildKey(w.signers[i + 1], b, x) : i \in {t[i] : i \in 1 .. m}}
          = {u[i] : i \in 1 .. m}
    BY <1>2
  <2>3. QED  BY <1>6, <2>1, <2>2 DEF KeysOf
<1>9. /\ SortedMulti(u).op = "sortedmulti_a" /\ SortedMulti(u).keys = ToSet(u)
      /\ SortedMulti(u).size = m
  BY <1>4 DEF SortedMulti, Script
<1>10. QED  BY <1>3, <1>7, <1>8, <1>9 DEF t

\* Its keys say which set it is of, and at which derivation.
LEMMA KeysDetermine ==
  ASSUME NEW w, Plantable(w), NEW j \in DOMAIN w.sets, NEW k \in DOMAIN w.sets,
         NEW b, NEW x, NEW c, NEW y,
         KeysOf(w, w.sets[j], b, x) = KeysOf(w, w.sets[k], c, y)
  PROVE  j = k /\ b = c /\ x = y
<1> DEFINE J == ToSet(w.sets[j])
           K == ToSet(w.sets[k])
           key(i) == ChildKey(w.signers[i + 1], b, x)
           other(i) == ChildKey(w.signers[i + 1], c, y)
<1>1. \A i \in J \cup K : i \in Nat /\ i + 1 \in 1 .. Len(w.signers)
  BY SetPlaces
<1>2. J # {}
  BY SetPlaces
<1>3. {key(i) : i \in J} = {other(i) : i \in K}
  BY DEF KeysOf
<1> HIDE DEF J, K
<1>4. \A i \in J, l \in K : key(i) = other(l) => i = l /\ b = c /\ x = y
  <2> SUFFICES ASSUME NEW i \in J, NEW l \in K, key(i) = other(l)
               PROVE  i = l /\ b = c /\ x = y
    OBVIOUS
  <2>3. /\ i + 1 \in 1 .. Len(w.signers) /\ l + 1 \in 1 .. Len(w.signers)
        /\ ChildKey(w.signers[i + 1], b, x) = ChildKey(w.signers[l + 1], c, y)
    BY <1>1
  <2>1. i + 1 = l + 1 /\ b = c /\ x = y
    <3> DEFINE p == i + 1
               q == l + 1
    <3>1. PICK n \in Nat : n = Len(w.signers)
      BY LenProperties DEF Plantable
    <3>2. /\ p \in 1 .. n /\ q \in 1 .. n
          /\ ChildKey(w.signers[p], b, x) = ChildKey(w.signers[q], c, y)
      BY <2>3, <3>1
    <3> HIDE DEF p, q
    <3>3. RootOf[w.signers[p].xpub] = RootOf[w.signers[q].xpub] /\ b = c /\ x = y
      BY <3>2, ChildKeyDiffers
    <3>4. p = q
      BY <3>1, <3>2, <3>3 DEF Plantable
    <3>5. QED  BY <3>3, <3>4 DEF p, q
  <2>2. QED  BY <1>1, <2>1
<1> HIDE DEF key, other
<1>5. \A i \in J : \E l \in K : key(i) = other(l)
  BY <1>3
<1>6. \A l \in K : \E i \in J : key(i) = other(l)
  BY <1>3
<1>7. J = K /\ b = c /\ x = y
  <2>1. \A i \in J : i \in K /\ b = c /\ x = y
    BY <1>4, <1>5
  <2>2. \A l \in K : l \in J
    BY <1>4, <1>6
  <2>3. QED  BY <1>2, <2>1, <2>2
<1>8. QED  BY <1>7 DEF J, K, Plantable

LEMMA RecoveryFacts ==
  ASSUME NEW r
  PROVE  /\ IsFiniteSet(RecoveryScripts(r))
         /\ \A s \in RecoveryScripts(r) : s.op # "sortedmulti_a" /\ s.keys = {<<r.key>>}
         /\ r.always => {s.keys : s \in RecoveryScripts(r)} = {{<<r.key>>}}
         /\ ~r.always /\ ~r.decay => RecoveryScripts(r) = {}
<1> DEFINE pk == PkScript(r.key)
           older == DecayScript(r.key, r.blocks)
<1>1. pk.op = "pk" /\ older.op = "older_pk" /\ pk.keys = {<<r.key>>} /\ older.keys = {<<r.key>>}
  BY DEF PkScript, DecayScript, Script
<1>2. RecoveryScripts(r) = (IF r.always THEN {pk} ELSE {}) \cup (IF r.decay THEN {older} ELSE {})
  BY DEF RecoveryScripts
<1> HIDE DEF pk, older
<1>3. IsFiniteSet(IF r.always THEN {pk} ELSE {}) /\ IsFiniteSet(IF r.decay THEN {older} ELSE {})
  BY FS_Singleton, FS_EmptySet
<1>4. IsFiniteSet(RecoveryScripts(r))
  BY <1>2, <1>3, FS_Union
<1>5. \A s \in RecoveryScripts(r) : s = pk \/ s = older
  BY <1>2
<1>6. \A s \in RecoveryScripts(r) : s.op # "sortedmulti_a" /\ s.keys = {<<r.key>>}
  BY <1>1, <1>5
<1>7. r.always => pk \in RecoveryScripts(r)
  BY <1>2
<1>8. r.always => {s.keys : s \in RecoveryScripts(r)} = {{<<r.key>>}}
  BY <1>1, <1>6, <1>7
<1>9. QED  BY <1>2, <1>4, <1>6, <1>8

\* One script of each set, and those of the recovery.
LEMMA ScriptsFacts ==
  ASSUME NEW w, Plantable(w), NEW b, NEW x
  PROVE  LET all == Scripts(w, b, x)
             own == {SetScript(w, w.sets[k], b, x) : k \in DOMAIN w.sets}
             rec == RecoveryScripts(w.recovery)
         IN  /\ all = own \cup rec
             /\ IsFiniteSet(all)
             /\ Cardinality(all) = Len(w.sets) + Cardinality(rec)
             /\ Cardinality(all) \in Nat \ {0}
             /\ \A s \in own : s.op = "sortedmulti_a"
<1> DEFINE U == Seq(Nat)
           m == Len(w.sets)
           all == Scripts(w, b, x)
           own == {SetScript(w, w.sets[k], b, x) : k \in DOMAIN w.sets}
           rec == RecoveryScripts(w.recovery)
           f == [k \in DOMAIN w.sets |-> SetScript(w, w.sets[k], b, x)]
<1>1. m \in Nat /\ DOMAIN w.sets = 1 .. m /\ m > 0
  <2>1. w.sets \in Seq(U) /\ m > 0
    BY DEF Plantable
  <2> HIDE DEF U, m
  <2>2. Len(w.sets) \in Nat /\ DOMAIN w.sets = 1 .. Len(w.sets)
    BY <2>1, LenProperties
  <2>3. QED  BY <2>1, <2>2 DEF m
<1>2. all = own \cup rec
  BY <1>1 DEF Scripts
<1>3. \A k \in DOMAIN w.sets :
        f[k].op = "sortedmulti_a" /\ f[k].keys = KeysOf(w, w.sets[k], b, x)
  BY ONLY Plantable(w), SetScriptFacts
<1>4. Distinct(m, f)
  <2>1. ASSUME NEW j \in DOMAIN w.sets, NEW k \in DOMAIN w.sets, f[j] = f[k]  PROVE j = k
    <3>1. KeysOf(w, w.sets[j], b, x) = KeysOf(w, w.sets[k], b, x)
      BY ONLY <1>3, <2>1
    <3>2. QED  BY ONLY <3>1, Plantable(w), KeysDetermine
  <2>2. QED  BY <1>1, <2>1 DEF Distinct
<1>5. DOMAIN f = 1 .. m /\ own = {f[k] : k \in 1 .. m}
  BY <1>1
<1>6. \A s \in own : s.op = "sortedmulti_a"
  BY <1>3, <1>5
<1> HIDE DEF f
<1>7. IsFiniteSet(own) /\ Cardinality(own) = m
  BY <1>1, <1>4, <1>5, CountDistinct
<1>8. IsFiniteSet(rec) /\ \A s \in rec : s.op # "sortedmulti_a"
  BY RecoveryFacts
<1> HIDE DEF m, all, own, rec
<1>9. own \cap rec = {}
  BY <1>6, <1>8
<1>10. IsFiniteSet(all) /\ Cardinality(all) = m + Cardinality(rec)
  <2>1. IsFiniteSet(own \cup rec)
        /\ Cardinality(own \cup rec)
             = Cardinality(own) + Cardinality(rec) - Cardinality(own \cap rec)
    BY <1>7, <1>8, FS_Union
  <2>2. Cardinality(own \cap rec) = 0
    BY <1>9, FS_EmptySet
  <2>3. Cardinality(rec) \in Nat
    BY <1>8, FS_CardinalityType
  <2>4. QED  BY <1>1, <1>2, <1>7, <2>1, <2>2, <2>3
<1>11. Cardinality(all) \in Nat \ {0}
  <2>1. Cardinality(rec) \in Nat
    BY <1>8, FS_CardinalityType
  <2>2. QED  BY <1>1, <1>10, <2>1
<1>12. QED  BY <1>2, <1>6, <1>10, <1>11 DEF m, all, own, rec

\* A tree over scripts, numbered by hash: a leaf per script, the path of each
\* leading to the root.
Grown(tree, all, n, leaves) ==
  /\ tree # Refused
  /\ n \in Nat \ {0} /\ Len(leaves) = n
  /\ Covered(leaves, <<0, n>>) = all
  /\ tree.root = Subtree(leaves)[<<0, n>>]
  /\ tree.outputKey = [tag |-> "TapTweak", of |-> {tree.root}]
  /\ DOMAIN tree.leaves = 1 .. n /\ Len(tree.leaves) = n
  /\ \A k \in 1 .. n :
       /\ tree.leaves[k].script = leaves[k]
       /\ Climb(Leaf(tree.leaves[k].script), tree.leaves[k].path) = tree.root

\* Every address of the wallet has such a tree.
LEMMA TreeFacts ==
  ASSUME NEW w, Plantable(w), NEW b \in Branches, NEW x \in 0 .. MaxIndex
  PROVE  Grown(Tree(w, b, x), Scripts(w, b, x), Cardinality(Scripts(w, b, x)),
               ByHash(Scripts(w, b, x)))
<1> DEFINE all == Scripts(w, b, x)
           n == Cardinality(all)
           leaves == ByHash(all)
           whole == <<0, n>>
           root == Subtree(leaves)[whole]
           listed == [k \in 1 .. n |-> [script |-> leaves[k],
                                        path |-> Siblings(leaves, k)[whole]]]
           tree == [root |-> root, outputKey |-> [tag |-> "TapTweak", of |-> {root}],
                    hrp |-> VersionOf(w.network), leaves |-> listed]
<1>1. IsFiniteSet(all) /\ n \in Nat \ {0}
  BY ScriptsFacts
<1>2. Len(leaves) = n /\ DOMAIN leaves = 1 .. n /\ all = {leaves[i] : i \in 1 .. n}
  <2> HIDE DEF all
  <2>1. QED  BY <1>1, SetListed DEF ByHash
<1>3. LeavesDistinct(w, b, x)
  <2>1. DOMAIN w.sets = 1 .. Len(w.sets)
    <3> DEFINE U == Seq(Nat)
    <3>1. w.sets \in Seq(U)
      BY DEF Plantable
    <3> HIDE DEF U
    <3>2. QED  BY <3>1, LenProperties
  <2>2. \A i \in DOMAIN w.sets :
          LET s == SetScript(w, w.sets[i], b, x) IN Cardinality(s.keys) = s.size
    BY ONLY Plantable(w), SetScriptFacts
  <2>3. ASSUME NEW i \in DOMAIN w.sets, NEW j \in DOMAIN w.sets, i # j
        PROVE  SetScript(w, w.sets[i], b, x) # SetScript(w, w.sets[j], b, x)
    <3>1. KeysOf(w, w.sets[i], b, x) # KeysOf(w, w.sets[j], b, x)
      BY ONLY <2>3, Plantable(w), KeysDetermine
    <3>2. /\ SetScript(w, w.sets[i], b, x).keys = KeysOf(w, w.sets[i], b, x)
          /\ SetScript(w, w.sets[j], b, x).keys = KeysOf(w, w.sets[j], b, x)
      BY ONLY Plantable(w), SetScriptFacts
    <3>3. QED  BY <3>1, <3>2
  <2>4. QED  BY <2>2, <2>3 DEF LeavesDistinct
<1>4. Tree(w, b, x) = tree
  BY <1>2, <1>3 DEF Tree
<1>5. tree # Refused
  <2>1. "root" \in DOMAIN tree /\ "root" \notin DOMAIN Refused
    BY DEF Refused
  <2>2. QED  BY <2>1
<1>6. whole \in Runs(n)
  BY <1>1 DEF Runs
<1>7. Covered(leaves, whole) = all
  <2>1. whole[1] + 1 .. whole[2] = 1 .. n
    BY <1>1
  <2>2. QED  BY <1>2, <2>1 DEF Covered
<1>8. \A k \in 1 .. n : Climb(Leaf(leaves[k]), Siblings(leaves, k)[whole]) = root
  <2> SUFFICES ASSUME NEW k \in 1 .. n
               PROVE  Climb(Leaf(leaves[k]), Siblings(leaves, k)[whole]) = root
    OBVIOUS
  <2>1. k \in Nat /\ Len(leaves) \in Nat /\ whole[1] < k /\ k <= whole[2]
    BY <1>1, <1>2
  <2> HIDE DEF whole, leaves
  <2>2. QED  BY <1>2, <1>6, <2>1, PathClimbs
<1>9. tree.leaves = listed /\ tree.root = root
      /\ tree.outputKey = [tag |-> "TapTweak", of |-> {root}]
  OBVIOUS
<1>10. DOMAIN listed = 1 .. n /\ Len(listed) = n
  <2> HIDE DEF n, leaves, whole
  <2>1. listed \in [1 .. n -> {listed[k] : k \in 1 .. n}]
    OBVIOUS
  <2>2. QED  BY <1>1, <2>1, FunctionIsSeq
<1> HIDE DEF n, leaves, root, all, tree
<1>11. \A k \in 1 .. n : listed[k].script = leaves[k]
                         /\ Climb(Leaf(listed[k].script), listed[k].path) = root
  BY <1>8
<1> HIDE DEF listed, whole
<1>12. Grown(tree, all, n, leaves)
  BY ONLY <1>1, <1>2, <1>5, <1>7, <1>9, <1>10, <1>11 DEF Grown, whole, root
<1>13. QED  BY <1>4, <1>12 DEF n, leaves, all

\* No two addresses of a wallet have one root.
LEMMA RootDetermines ==
  ASSUME NEW w, Plantable(w), NEW b \in Branches, NEW x \in 0 .. MaxIndex,
         NEW c \in Branches, NEW y \in 0 .. MaxIndex,
         Tree(w, b, x).root = Tree(w, c, y).root
  PROVE  b = c /\ x = y
<1> DEFINE one == Scripts(w, b, x)
           two == Scripts(w, c, y)
           n == Cardinality(one)
           m == Cardinality(two)
           r == <<0, n>>
           q == <<0, m>>
           s == ByHash(one)
           t == ByHash(two)
<1>1. /\ n \in Nat \ {0} /\ Len(s) = n /\ Covered(s, r) = one
      /\ Tree(w, b, x).root = Subtree(s)[r]
  <2>1. Grown(Tree(w, b, x), one, n, s)
    BY TreeFacts
  <2>2. QED  BY <2>1 DEF Grown
<1>2. /\ m \in Nat \ {0} /\ Len(t) = m /\ Covered(t, q) = two
      /\ Tree(w, c, y).root = Subtree(t)[q]
  <2>1. Grown(Tree(w, c, y), two, m, t)
    BY TreeFacts
  <2>2. QED  BY <2>1 DEF Grown
<1>3. r \in Runs(n) /\ q \in Runs(m)
  BY <1>1, <1>2 DEF Runs
<1> HIDE DEF r, q, s, t, one, two, n, m
<1>4. one = two
  <2>1. r \in Runs(Len(s)) /\ q \in Runs(Len(t)) /\ Len(s) \in Nat /\ Len(t) \in Nat
        /\ Subtree(s)[r] = Subtree(t)[q]
    BY <1>1, <1>2, <1>3
  <2>2. Covered(s, r) = Covered(t, q)
    BY ONLY <2>1, HashCovers
  <2>3. QED  BY <1>1, <1>2, <2>2
<1>5. PICK k : k \in DOMAIN w.sets
  <2> DEFINE U == Seq(Nat)
  <2>1. w.sets \in Seq(U) /\ Len(w.sets) > 0
    BY DEF Plantable
  <2> HIDE DEF U
  <2>2. PICK size \in Nat : size = Len(w.sets) /\ DOMAIN w.sets = 1 .. size
    BY <2>1, LenProperties
  <2>3. 1 \in DOMAIN w.sets
    BY ONLY <2>1, <2>2
  <2>4. QED  BY <2>3
<1>6. PICK script : script = SetScript(w, w.sets[k], b, x)
  OBVIOUS
<1>7. script.op = "sortedmulti_a" /\ script.keys = KeysOf(w, w.sets[k], b, x)
  BY <1>5, <1>6, SetScriptFacts
<1>8. script \in two
  BY <1>4, <1>5, <1>6, ScriptsFacts DEF one
<1>9. PICK j \in DOMAIN w.sets : script = SetScript(w, w.sets[j], c, y)
  BY <1>7, <1>8, ScriptsFacts, RecoveryFacts DEF two
<1>10. script.keys = KeysOf(w, w.sets[j], c, y)
  BY ONLY <1>9, Plantable(w), SetScriptFacts
<1>11. KeysOf(w, w.sets[k], b, x) = KeysOf(w, w.sets[j], c, y)
  BY ONLY <1>7, <1>10
<1>12. QED  BY ONLY <1>5, <1>9, <1>11, Plantable(w), KeysDetermine

-----------------------------------------------------------------------------
(* What is pushed for a block count.                                       *)

LEMMA BytesOne ==
  ASSUME NEW v \in Nat, v < 256
  PROVE  BytesOf(v) = <<v>>
<1>1. ByteCount(v) = 1
  BY DEF ByteCount
<1>2. PlaceValue[1] = 1
  BY DEF PlaceValue
<1>3. (v \div 1) % 256 = v
  OBVIOUS
<1>4. BytesOf(v) = [i \in 1 .. 1 |-> v]
  BY <1>1, <1>2, <1>3 DEF BytesOf
<1>5. QED  BY <1>4

LEMMA BytesTwo ==
  ASSUME NEW v \in Nat, 256 <= v, v <= 65535
  PROVE  BytesOf(v) = <<v % 256, v \div 256>>
<1>1. ByteCount(v) = 2
  BY DEF ByteCount
<1>2. PlaceValue[1] = 1 /\ PlaceValue[2] = 256
  BY DEF PlaceValue
<1>3. (v \div 1) % 256 = v % 256
  <2>1. v \div 1 = v
    OBVIOUS
  <2>2. QED  BY <2>1
<1>4. (v \div 256) % 256 = v \div 256
  <2>1. v \div 256 \in 0 .. 255
    OBVIOUS
  <2>2. \A d \in 0 .. 255 : d % 256 = d
    OBVIOUS
  <2>3. QED  BY ONLY <2>1, <2>2
<1>5. BytesOf(v) = [i \in 1 .. 2 |-> (v \div PlaceValue[i]) % 256]
  BY <1>1 DEF BytesOf
<1> DEFINE lo == v % 256
           hi == v \div 256
<1>6. (v \div PlaceValue[1]) % 256 = lo /\ (v \div PlaceValue[2]) % 256 = hi
  BY <1>2, <1>3, <1>4
<1> HIDE DEF lo, hi
<1>7. BytesOf(v) = <<lo, hi>>
  <2> DEFINE place(i) == (v \div PlaceValue[i]) % 256
  <2>1. BytesOf(v) = [i \in 1 .. 2 |-> place(i)] /\ place(1) = lo /\ place(2) = hi
    BY <1>5, <1>6
  <2> HIDE DEF place
  <2>2. QED  BY ONLY <2>1
<1>8. QED  BY <1>7 DEF lo, hi

LEMMA PushOpcode ==
  ASSUME NEW v \in Nat, v <= 16
  PROVE  NumberOf(ScriptNum(v)) = v
<1>1. CASE v = 0
  BY <1>1 DEF ScriptNum, NumberOf
<1>2. CASE v # 0
  <2>1. ScriptNum(v) = <<80 + v>>
    BY <1>2 DEF ScriptNum
  <2>2. Len(<<80 + v>>) = 1 /\ <<80 + v>>[1] = 80 + v /\ <<80 + v>> # <<0>>
    OBVIOUS
  <2>3. QED  BY <2>1, <2>2 DEF NumberOf
<1>3. QED  BY <1>1, <1>2

\* A push of one byte, of two and of three, as the interpreter reads it.
LEMMA ReadOne ==
  ASSUME NEW a \in Nat, 16 < a, a < 128
  PROVE  NumberOf(<<1, a>>) = a
<1>1. PICK p : p = <<1, a>>
  OBVIOUS
<1>2. Len(p) = 2 /\ p[1] = 1 /\ p[2] = a /\ p # <<0>>
  BY <1>1
<1>3. Shortest(p)
  BY <1>2 DEF Shortest
<1>4. Digit(p, 1) = a /\ Digit(p, 2) = 0 /\ Digit(p, 3) = 0
  BY <1>2 DEF Digit, PlaceValue
<1>5. NumberOf(p) = a
  BY <1>2, <1>3, <1>4 DEF NumberOf
<1>6. QED  BY <1>1, <1>5

LEMMA ReadTwo ==
  ASSUME NEW a \in Nat, NEW b \in Nat, b < 128, b = 0 => a >= 128
  PROVE  NumberOf(<<2, a, b>>) = a + b * 256
<1>1. PICK p : p = <<2, a, b>>
  OBVIOUS
<1>2. Len(p) = 3 /\ p[1] = 2 /\ p[2] = a /\ p[3] = b /\ p # <<0>>
  BY <1>1
<1>3. Shortest(p)
  BY <1>2 DEF Shortest
<1>4. Digit(p, 1) = a /\ Digit(p, 2) = b * 256 /\ Digit(p, 3) = 0
  BY <1>2 DEF Digit, PlaceValue
<1>5. NumberOf(p) = a + b * 256
  BY <1>2, <1>3, <1>4 DEF NumberOf
<1>6. QED  BY <1>1, <1>5

LEMMA ReadThree ==
  ASSUME NEW a \in Nat, NEW b \in Nat, b >= 128
  PROVE  NumberOf(<<3, a, b, 0>>) = a + b * 256
<1>1. PICK p : p = <<3, a, b, 0>>
  OBVIOUS
<1>2. Len(p) = 4 /\ p[1] = 3 /\ p[2] = a /\ p[3] = b /\ p[4] = 0 /\ p # <<0>>
  BY <1>1
<1>3. Shortest(p)
  BY <1>2 DEF Shortest
<1>4. Digit(p, 1) = a /\ Digit(p, 2) = b * 256 /\ Digit(p, 3) = 0
  BY <1>2 DEF Digit, PlaceValue
<1>5. NumberOf(p) = a + b * 256
  BY <1>2, <1>3, <1>4 DEF NumberOf
<1>6. QED  BY <1>1, <1>5

\* The bytes with the sign in the top bit of the last.
Signed(bytes) == IF bytes[Len(bytes)] >= 128 THEN Append(bytes, 0) ELSE bytes

LEMMA PushBytes ==
  ASSUME NEW v \in Nat, v > 16
  PROVE  ScriptNum(v) = <<Len(Signed(BytesOf(v)))>> \o Signed(BytesOf(v))
<1>1. v # 0 /\ ~(v <= 16)
  OBVIOUS
<1>2. QED  BY ONLY <1>1 DEF ScriptNum, Signed

\* A length put before its bytes.
LEMMA Prefixed ==
  ASSUME NEW x \in Seq(Nat), NEW y \in Seq(Nat), NEW z \in Seq(Nat), NEW n \in Nat,
         Len(x) = 1, Len(y) = n, Len(z) = n + 1, x[1] = z[1],
         \A i \in 1 .. n : y[i] = z[i + 1]
  PROVE  x \o y = z
<1>1. /\ x \o y \in Seq(Nat) /\ Len(x \o y) = 1 + n
      /\ \A i \in 1 .. 1 + n : (x \o y)[i] = IF i <= 1 THEN x[i] ELSE y[i - 1]
  <2>1. /\ x \o y \in Seq(Nat) /\ Len(x \o y) = Len(x) + Len(y)
        /\ \A i \in 1 .. Len(x) + Len(y) :
             (x \o y)[i] = IF i <= Len(x) THEN x[i] ELSE y[i - Len(x)]
    BY ONLY x \in Seq(Nat), y \in Seq(Nat), ConcatProperties
  <2>2. QED  BY <2>1
<1>2. ASSUME NEW i \in 1 .. 1 + n  PROVE (x \o y)[i] = z[i]
  <2>1. CASE i = 1
    BY <1>1, <2>1
  <2>2. CASE i # 1
    <3>1. i - 1 \in 1 .. n /\ (i - 1) + 1 = i /\ ~(i <= 1)
      BY <2>2
    <3>2. (x \o y)[i] = y[i - 1] /\ y[i - 1] = z[(i - 1) + 1]
      BY <1>1, <3>1
    <3>3. QED  BY <3>1, <3>2
  <2>3. QED  BY <2>1, <2>2
<1>3. Len(x \o y) = Len(z) /\ Len(z) = 1 + n
  BY <1>1
<1>4. QED  BY <1>1, <1>2, <1>3, SeqEqual

LEMMA Suffixed ==
  ASSUME NEW x \in Seq(Nat), NEW z \in Seq(Nat), NEW e \in Nat, NEW n \in Nat,
         Len(x) = n, Len(z) = n + 1, z[n + 1] = e, \A i \in 1 .. n : x[i] = z[i]
  PROVE  Append(x, e) = z
<1>1. /\ Append(x, e) \in Seq(Nat) /\ Len(Append(x, e)) = Len(x) + 1
      /\ \A i \in 1 .. Len(x) : Append(x, e)[i] = x[i]
      /\ Append(x, e)[Len(x) + 1] = e
  BY ONLY x \in Seq(Nat), e \in Nat, AppendProperties
<1>2. ASSUME NEW i \in 1 .. n + 1  PROVE Append(x, e)[i] = z[i]
  <2>1. i \in 1 .. n \/ i = n + 1
    OBVIOUS
  <2>2. QED  BY <1>1, <2>1
<1>3. Len(Append(x, e)) = Len(z) /\ Len(z) = n + 1
  BY <1>1
<1>4. QED  BY <1>1, <1>2, <1>3, SeqEqual

LEMMA ZeroLast ==
  ASSUME NEW a \in Nat, NEW b \in Nat
  PROVE  Append(<<a>>, 0) = <<a, 0>> /\ Append(<<a, b>>, 0) = <<a, b, 0>>
<1>1. Append(<<a>>, 0) = <<a, 0>>
  <2>1. PICK x, z : x = <<a>> /\ z = <<a, 0>>
    OBVIOUS
  <2>2. x \in Seq(Nat) /\ z \in Seq(Nat) /\ Len(x) = 1 /\ Len(z) = 1 + 1
        /\ z[1 + 1] = 0 /\ x[1] = z[1]
    BY ONLY a \in Nat, <2>1
  <2>3. \A i \in 1 .. 1 : x[i] = z[i]
    BY <2>2
  <2>4. Append(x, 0) = z
    BY ONLY 1 \in Nat, 0 \in Nat, <2>2, <2>3, Suffixed
  <2>5. QED  BY ONLY <2>1, <2>4
<1>2. Append(<<a, b>>, 0) = <<a, b, 0>>
  <2>1. PICK x, z : x = <<a, b>> /\ z = <<a, b, 0>>
    OBVIOUS
  <2>2. x \in Seq(Nat) /\ z \in Seq(Nat) /\ Len(x) = 2 /\ Len(z) = 2 + 1
        /\ z[2 + 1] = 0 /\ x[1] = z[1] /\ x[2] = z[2]
    BY ONLY a \in Nat, b \in Nat, <2>1
  <2>3. \A i \in 1 .. 2 : x[i] = z[i]
    BY <2>2
  <2>4. Append(x, 0) = z
    BY ONLY 2 \in Nat, 0 \in Nat, <2>2, <2>3, Suffixed
  <2>5. QED  BY ONLY <2>1, <2>4
<1>3. QED  BY <1>1, <1>2

LEMMA LengthFirst ==
  ASSUME NEW a \in Nat, NEW b \in Nat, NEW c \in Nat
  PROVE  /\ <<1>> \o <<a>> = <<1, a>>
         /\ <<2>> \o <<a, b>> = <<2, a, b>>
         /\ <<3>> \o <<a, b, c>> = <<3, a, b, c>>
<1>1. ASSUME NEW n \in Nat  PROVE <<n>> \in Seq(Nat) /\ Len(<<n>>) = 1 /\ <<n>>[1] = n
  OBVIOUS
<1>2. ASSUME NEW n \in Nat, NEW m \in Nat
      PROVE  /\ <<n, m>> \in Seq(Nat) /\ Len(<<n, m>>) = 2
             /\ <<n, m>>[1] = n /\ <<n, m>>[2] = m
  OBVIOUS
<1>3. ASSUME NEW n \in Nat
      PROVE  /\ <<n, a, b>> \in Seq(Nat) /\ Len(<<n, a, b>>) = 3
             /\ <<n, a, b>>[1] = n /\ <<n, a, b>>[2] = a /\ <<n, a, b>>[3] = b
  OBVIOUS
<1>4. /\ <<3, a, b, c>> \in Seq(Nat) /\ Len(<<3, a, b, c>>) = 4 /\ <<3, a, b, c>>[1] = 3
      /\ <<3, a, b, c>>[2] = a /\ <<3, a, b, c>>[3] = b /\ <<3, a, b, c>>[4] = c
  OBVIOUS
<1>5. <<1>> \o <<a>> = <<1, a>>
  <2>1. PICK x, y, z : x = <<1>> /\ y = <<a>> /\ z = <<1, a>>
    OBVIOUS
  <2>2. /\ x \in Seq(Nat) /\ y \in Seq(Nat) /\ z \in Seq(Nat)
        /\ Len(x) = 1 /\ Len(y) = 1 /\ Len(z) = 1 + 1 /\ x[1] = z[1] /\ y[1] = z[2]
    BY <1>1, <1>2, <2>1
  <2>3. \A i \in 1 .. 1 : y[i] = z[i + 1]
    BY <2>2
  <2>4. x \o y = z
    BY ONLY 1 \in Nat, <2>2, <2>3, Prefixed
  <2>5. QED  BY ONLY <2>1, <2>4
<1>6. <<2>> \o <<a, b>> = <<2, a, b>>
  <2>1. PICK x, y, z : x = <<2>> /\ y = <<a, b>> /\ z = <<2, a, b>>
    OBVIOUS
  <2>2. /\ x \in Seq(Nat) /\ y \in Seq(Nat) /\ z \in Seq(Nat)
        /\ Len(x) = 1 /\ Len(y) = 2 /\ Len(z) = 2 + 1
        /\ x[1] = z[1] /\ y[1] = z[2] /\ y[2] = z[3]
    BY <1>1, <1>2, <1>3, <2>1
  <2>3. \A i \in 1 .. 2 : y[i] = z[i + 1]
    BY <2>2
  <2>4. x \o y = z
    BY ONLY 2 \in Nat, <2>2, <2>3, Prefixed
  <2>5. QED  BY ONLY <2>1, <2>4
<1>7. <<3>> \o <<a, b, c>> = <<3, a, b, c>>
  <2>1. PICK x, y, z : x = <<3>> /\ y = <<a, b, c>> /\ z = <<3, a, b, c>>
    OBVIOUS
  <2>2. /\ x \in Seq(Nat) /\ y \in Seq(Nat) /\ z \in Seq(Nat)
        /\ Len(x) = 1 /\ Len(y) = 3 /\ Len(z) = 3 + 1
        /\ x[1] = z[1] /\ y[1] = z[2] /\ y[2] = z[3] /\ y[3] = z[4]
    <3>1. /\ <<a, b, c>> \in Seq(Nat) /\ Len(<<a, b, c>>) = 3
          /\ <<a, b, c>>[1] = a /\ <<a, b, c>>[2] = b /\ <<a, b, c>>[3] = c
      OBVIOUS
    <3>2. QED  BY <1>1, <1>4, <2>1, <3>1
  <2>3. \A i \in 1 .. 3 : y[i] = z[i + 1]
    BY <2>2
  <2>4. x \o y = z
    BY ONLY 3 \in Nat, <2>2, <2>3, Prefixed
  <2>5. QED  BY ONLY <2>1, <2>4
<1>8. QED  BY <1>5, <1>6, <1>7

\* The number pushed is the number meant, in the form the interpreter accepts.
LEMMA PushMeans ==
  ASSUME NEW v \in Nat, v <= 65535
  PROVE  NumberOf(ScriptNum(v)) = v
<1>1. CASE v <= 16
  BY <1>1, PushOpcode
<1>2. CASE 16 < v /\ v < 256
  <2>2. BytesOf(v) = <<v>>
    BY ONLY <1>2, v \in Nat, BytesOne
  <2>3. ScriptNum(v) = <<Len(Signed(<<v>>))>> \o Signed(<<v>>)
    BY ONLY <1>2, <2>2, v \in Nat, PushBytes
  <2>4. CASE v < 128
    <3>1. Signed(<<v>>) = <<v>>
      BY <2>4 DEF Signed
    <3>2. <<Len(<<v>>)>> \o <<v>> = <<1, v>>
      <4>1. Len(<<v>>) = 1
        OBVIOUS
      <4>2. QED  BY ONLY <4>1, v \in Nat, LengthFirst
    <3>3. ScriptNum(v) = <<1, v>>
      BY ONLY <2>3, <3>1, <3>2
    <3>4. NumberOf(<<1, v>>) = v
      BY ONLY <1>2, <2>4, v \in Nat, ReadOne
    <3>5. QED  BY ONLY <3>3, <3>4
  <2>5. CASE v >= 128
    <3>1. Signed(<<v>>) = <<v, 0>>
      <4>1. Len(<<v>>) = 1 /\ <<v>>[1] = v
        BY ONLY v \in Nat
      <4>2. Append(<<v>>, 0) = <<v, 0>>
        BY ONLY v \in Nat, ZeroLast
      <4>3. <<v>>[Len(<<v>>)] >= 128
        BY ONLY <2>5, <4>1
      <4>4. QED  BY ONLY <4>2, <4>3 DEF Signed
    <3>2. <<Len(<<v, 0>>)>> \o <<v, 0>> = <<2, v, 0>>
      <4>1. Len(<<v, 0>>) = 2
        OBVIOUS
      <4>2. QED  BY ONLY <4>1, v \in Nat, 0 \in Nat, LengthFirst
    <3>3. ScriptNum(v) = <<2, v, 0>>
      BY ONLY <2>3, <3>1, <3>2
    <3>4. NumberOf(<<2, v, 0>>) = v + 0 * 256
      BY ONLY <2>5, v \in Nat, 0 \in Nat, 0 < 128, ReadTwo
    <3>5. QED  BY ONLY <3>3, <3>4, v \in Nat
  <2>6. QED  BY <2>4, <2>5
<1>3. CASE 256 <= v
  <2>1. PICK a \in Nat, b \in Nat : a = v % 256 /\ b = v \div 256
    OBVIOUS
  <2>2. v = a + b * 256 /\ b > 0
    BY <1>3, <2>1
  <2>3. BytesOf(v) = <<a, b>>
    BY <1>3, <2>1, BytesTwo
  <2>4. ScriptNum(v) = <<Len(Signed(<<a, b>>))>> \o Signed(<<a, b>>)
    <3>1. v > 16
      BY <1>3
    <3>2. QED  BY ONLY <2>3, <3>1, v \in Nat, PushBytes
  <2>5. CASE b < 128
    <3>1. Signed(<<a, b>>) = <<a, b>>
      BY ONLY <2>5, a \in Nat, b \in Nat DEF Signed
    <3>2. <<Len(<<a, b>>)>> \o <<a, b>> = <<2, a, b>>
      <4>1. Len(<<a, b>>) = 2
        OBVIOUS
      <4>2. QED  BY ONLY <4>1, a \in Nat, b \in Nat, LengthFirst
    <3>3. ScriptNum(v) = <<2, a, b>>
      BY ONLY <2>4, <3>1, <3>2
    <3>4. NumberOf(<<2, a, b>>) = a + b * 256
      BY ONLY <2>2, <2>5, a \in Nat, b \in Nat, ReadTwo
    <3>5. QED  BY ONLY <2>2, <3>3, <3>4
  <2>6. CASE b >= 128
    <3>1. Signed(<<a, b>>) = <<a, b, 0>>
      <4>1. Len(<<a, b>>) = 2 /\ <<a, b>>[2] = b
        BY ONLY a \in Nat, b \in Nat
      <4>2. Append(<<a, b>>, 0) = <<a, b, 0>>
        BY ONLY a \in Nat, b \in Nat, ZeroLast
      <4>3. <<a, b>>[Len(<<a, b>>)] >= 128
        BY ONLY <2>6, <4>1
      <4>4. QED  BY ONLY <4>2, <4>3 DEF Signed
    <3>2. <<Len(<<a, b, 0>>)>> \o <<a, b, 0>> = <<3, a, b, 0>>
      <4>1. Len(<<a, b, 0>>) = 3
        OBVIOUS
      <4>2. QED  BY ONLY <4>1, a \in Nat, b \in Nat, 0 \in Nat, LengthFirst
    <3>3. ScriptNum(v) = <<3, a, b, 0>>
      BY ONLY <2>4, <3>1, <3>2
    <3>4. NumberOf(<<3, a, b, 0>>) = a + b * 256
      BY ONLY <2>6, a \in Nat, b \in Nat, ReadThree
    <3>5. QED  BY ONLY <2>2, <3>3, <3>4
  <2>7. QED  BY <2>5, <2>6
<1>4. QED  BY <1>1, <1>2, <1>3

-----------------------------------------------------------------------------
(* The inductive invariant.                                                *)

\* What the application may have sent while it held its intent in any order.
Intents == {Wire(s) : s \in {t \in Presentations[source] : Preflight(t)}}
Digests == {DigestOf[s] : s \in Presentations[source]} \ {Refused}

\* The records a reservation with these slots takes.
Fits(slots, records) ==
  \A i \in DOMAIN slots :
    /\ records.perSigner[i].digest.tag = "REQKEYDIGEST" <=> slots[i].kind = Sigbash
    /\ slotOrder = "canonical" => records.perSigner[i].root = slots[i].root

Reserved(r) == server[r].state # "absent"

\* A stored reservation holds only what its own intent gave rise to.
Stored(v) ==
  /\ v = [state |-> v.state, intent |-> v.intent, slots |-> v.slots,
          digest |-> v.digest, records |-> v.records]
  /\ v.state \in Stages
  /\ v.intent \in Intents
  /\ v.slots = Slots(v.intent)
  /\ v.digest \in {None} \cup Digests
  /\ v.state \in {"ASSEMBLED", "COMPILED", "SEALED", "ACTIVATED"} => v.digest # None
  /\ v.records # None => Fits(v.slots, v.records)

ServerSound ==
  /\ DOMAIN server = Reservation
  /\ \A r \in Reservation : server[r] = Absent \/ Stored(server[r])

\* A request carries what the reservation it names may take.
Shaped(c) ==
  /\ c = [op |-> c.op, at |-> c.at, reservation |-> c.reservation, body |-> c.body]
  /\ c.op \in Operations /\ c.at \in {"request", "answer"}
  /\ c.reservation \in Reservation

RequestSound(c) ==
  /\ c.op = "create" => c.body \in Intents
  /\ c.op = "assemble" => c.body \in Digests
  /\ c.op = "compile" => Reserved(c.reservation)
                         /\ Fits(server[c.reservation].slots, c.body)

\* The part of ReportedIsDone about one step.
Told(op, r) ==
  /\ Reserved(r)
  /\ op = "abandon" => server[r].state = "EXPIRED"
  /\ op = "activate" => server[r].state = "ACTIVATED"
  /\ op \in {"assemble", "compile", "seal"} => server[r].digest # None

CallSound ==
  call # Idle =>
    /\ Shaped(call)
    /\ call.at = "request" => RequestSound(call)
    /\ call.at = "answer" /\ Ok(call.body) => Told(call.op, call.reservation)

LateSound == late # Idle => Shaped(late) /\ late.at = "request" /\ RequestSound(late)

Kinds(slots) == [i \in DOMAIN slots |-> [kind |-> slots[i].kind]]

ViewSound ==
  view # None =>
    /\ view.reservation \in Reservation
    /\ Reserved(view.reservation)
    /\ view.slots = Kinds(server[view.reservation].slots)

DoneSound ==
  /\ done \subseteq Operations \X Reservation
  /\ \A step \in done : Told(step[1], step[2])

Provisioned ==
  /\ source \in Sources
  /\ slotOrder \in {"wire", "canonical"}
  /\ ServerSound /\ CallSound /\ LateSound /\ ViewSound /\ DoneSound

\* The template was made of the wallet of what the application holds, in one
\* of its orders.
Held == {source} \cup Presentations[source]
TemplateSound ==
  template # None =>
    \E s \in Held : IsWallet(WalletOf[s]) /\ template = SystemPayload(WalletOf[s])
                    /\ template # Refused

ResolvedSound == TemplateRestores /\ (resolved # None => Canonical(resolved))

-----------------------------------------------------------------------------
(* Sources and their presentations.                                        *)

\* The parts of a source have their types.
LEMMA SourceType ==
  ASSUME NEW s \in Sources
  PROVE  /\ s.signers \in Seq(WalletSigner) /\ Len(s.signers) \in Nat
         /\ DOMAIN s.signers = 1 .. Len(s.signers)
         /\ s.sets \in Seq(Seq(Nat))
         /\ s.by \in {"staged", "record", "native", "mixed"}
         /\ s.threshold \in Nat
<1>1. /\ s.signers \in Seq(WalletSigner) /\ s.sets \in Seq(Seq(Nat))
      /\ s.by \in {"staged", "record", "native", "mixed"}
      /\ s.threshold \in Nat
  BY ProvisioningAssumption
<1>2. QED  BY <1>1, LenProperties

\* What crosses the wire: the signers without their origins.
LEMMA WireBares ==
  ASSUME NEW s \in Sources
  PROVE  /\ Wire(s).network = s.network /\ Wire(s).sets = s.sets
         /\ Wire(s).signers = Bares(Len(s.signers), s.signers)
         /\ Wire(s).signers \in Seq(WalletSigner)
         /\ Len(Wire(s).signers) = Len(s.signers)
<1>1. PICK n \in Nat : n = Len(s.signers) /\ DOMAIN s.signers = 1 .. n
  BY SourceType
<1>2. Wire(s).signers = Bares(n, s.signers)
  BY <1>1 DEF Wire, Bares, Bare
<1>3. Bares(n, s.signers) \in [1 .. n -> WalletSigner]
  <2>1. ASSUME NEW k \in 1 .. n  PROVE Bare(s.signers[k]) \in WalletSigner
    BY <1>1, SourceType, ElementOfSeq, BareFacts
  <2>2. QED  BY <2>1 DEF Bares
<1>4. Bares(n, s.signers) \in Seq(WalletSigner) /\ Len(Bares(n, s.signers)) = n
  BY <1>3, FunctionIsSeq
<1>5. Wire(s).network = s.network /\ Wire(s).sets = s.sets
  BY DEF Wire
<1>6. QED  BY <1>1, <1>2, <1>4, <1>5

\* One intent, as WalletBuilder_proofs says it of roots and sets.
LEMMA SameIntentFacts ==
  ASSUME NEW s \in Sources, NEW t \in Sources
  PROVE  SameIntent(s, t) <=> /\ s.by = "staged" /\ t.by = "staged"
                              /\ s.network = t.network
                              /\ SameRoots(s.signers, t.signers)
                              /\ SameSets(s.sets, t.sets)
BY WireBares DEF SameIntent, SameRoots, SameSets

\* Being one intent goes both ways and is passed on.
LEMMA SameIntentSymmetric ==
  ASSUME NEW s \in Sources, NEW t \in Sources, SameIntent(s, t)
  PROVE  SameIntent(t, s)
<1>1. SameRoots(t.signers, s.signers)
  BY SameIntentFacts, RearrangedSymmetric DEF SameRoots
<1>2. SameSets(t.sets, s.sets)
  BY SameIntentFacts, SameSetsSymmetric
<1>3. QED  BY <1>1, <1>2, SameIntentFacts

LEMMA SameIntentTransitive ==
  ASSUME NEW s \in Sources, NEW t \in Sources, NEW u \in Sources,
         SameIntent(s, t), SameIntent(t, u)
  PROVE  SameIntent(s, u)
<1>1. SameRoots(s.signers, u.signers)
  BY SameIntentFacts, RearrangedTransitive DEF SameRoots
<1>2. SameSets(s.sets, u.sets)
  BY SameIntentFacts, SameSetsTransitive
<1>3. QED  BY <1>1, <1>2, SameIntentFacts

\* Rebuilding the intent leaves its presentations what they were.
LEMMA PresentationsKept ==
  ASSUME NEW s \in Sources, NEW t \in Presentations[s]
  PROVE  /\ t \in Sources /\ SameIntent(s, t) /\ s \in Presentations[t]
         /\ t \in Presentations[t]
         /\ Presentations[t] = Presentations[s]
<1>1. t \in Sources /\ SameIntent(s, t)
  BY DEF Presentations
<1>2. SameIntent(t, s)
  BY <1>1, SameIntentSymmetric
<1>3. SameIntent(t, t)
  BY <1>1, <1>2, SameIntentTransitive
<1>4. ASSUME NEW u \in Sources  PROVE SameIntent(s, u) <=> SameIntent(t, u)
  BY <1>1, <1>2, SameIntentTransitive
<1>5. /\ Presentations[s] = {u \in Sources : SameIntent(s, u)}
      /\ Presentations[t] = {u \in Sources : SameIntent(t, u)}
  BY <1>1 DEF Presentations
<1>6. QED  BY <1>1, <1>2, <1>3, <1>4, <1>5

\* Two presentations of one intent: either way around.
LEMMA PresentedTogether ==
  ASSUME NEW s \in Sources, NEW t \in Presentations[s], NEW u \in Presentations[s]
  PROVE  SameIntent(t, u)
<1>1. t \in Sources /\ u \in Sources /\ SameIntent(s, t) /\ SameIntent(s, u)
  BY DEF Presentations
<1>2. SameIntent(t, s)
  BY <1>1, SameIntentSymmetric
<1>3. QED  BY <1>1, <1>2, SameIntentTransitive

-----------------------------------------------------------------------------
(* Sigbash signers.                                                        *)

IsSigbash(x) == x.kind = Sigbash

\* Counting the Sigbash signers, without the count.
LEMMA SigbashCounts ==
  ASSUME NEW t, NEW n \in Nat, DOMAIN t = 1 .. n
  PROVE  /\ SigbashCount(t) \in Nat
         /\ SigbashCount(t) <= 1 <=>
              \A i, j \in 1 .. n : IsSigbash(t[i]) /\ IsSigbash(t[j]) => i = j
         /\ SigbashCount(t) = 1 <=>
              /\ \A i, j \in 1 .. n : IsSigbash(t[i]) /\ IsSigbash(t[j]) => i = j
              /\ \E i \in 1 .. n : IsSigbash(t[i])
<1> DEFINE D == {i \in 1 .. n : IsSigbash(t[i])}
<1>1. SigbashCount(t) = Cardinality(D)
  BY DEF SigbashCount, IsSigbash
<1>2. IsFiniteSet(D)
  <2>1. IsFiniteSet(1 .. n) /\ D \in SUBSET (1 .. n)
    BY FS_Interval
  <2>2. QED  BY <2>1, FS_Subset
<1>3. \A i : i \in D <=> i \in 1 .. n /\ IsSigbash(t[i])
  OBVIOUS
<1> HIDE DEF D
<1>4. Cardinality(D) \in Nat
  BY <1>2, FS_CardinalityType
<1>5. Cardinality(D) = 0 <=> D = {}
  BY <1>2, FS_EmptySet
<1>6. Cardinality(D) = 1 <=> \E x : D = {x}
  BY <1>2, FS_Singleton
<1>7. (D = {} \/ \E x : D = {x}) <=> \A i, j \in D : i = j
  OBVIOUS
<1>8. Cardinality(D) <= 1 <=> Cardinality(D) = 0 \/ Cardinality(D) = 1
  BY <1>4
<1>9. Cardinality(D) <= 1 <=> \A i, j \in D : i = j
  BY <1>5, <1>6, <1>7, <1>8
<1>10. (\A i, j \in D : i = j) <=>
         \A i, j \in 1 .. n : IsSigbash(t[i]) /\ IsSigbash(t[j]) => i = j
  BY ONLY <1>3
<1>11. Cardinality(D) = 1 <=> Cardinality(D) <= 1 /\ D # {}
  BY <1>4, <1>5
<1>12. D # {} <=> \E i \in 1 .. n : IsSigbash(t[i])
  BY ONLY <1>3
<1>13. QED  BY ONLY <1>1, <1>4, <1>9, <1>10, <1>11, <1>12

\* What crosses the wire has the Sigbash signers of its source.
LEMMA WireCounts ==
  ASSUME NEW s \in Sources
  PROVE  SigbashCount(Wire(s).signers) = SigbashCount(s.signers)
<1>1. PICK n \in Nat : n = Len(s.signers) /\ DOMAIN s.signers = 1 .. n
  BY SourceType
<1>2. \A i \in 1 .. n : Wire(s).signers[i] = Bare(s.signers[i]) /\ s.signers[i] \in WalletSigner
  BY <1>1, WireBares, SourceType, ElementOfSeq DEF Bares
<1>3. DOMAIN Wire(s).signers = 1 .. n
  BY <1>1, WireBares, LenProperties
<1>4. \A i \in 1 .. n : Wire(s).signers[i].kind = s.signers[i].kind
  BY <1>2, BareFacts
<1>5. QED  BY <1>1, <1>3, <1>4 DEF SigbashCount

-----------------------------------------------------------------------------
(* The identity of a wallet.                                               *)

\* The fingerprint depends on nothing of a wallet but its network, its sets,
\* the xpubs they name and the scripts of its recovery.
LEMMA FingerprintAlike ==
  ASSUME NEW v, NEW w, v.network = w.network, v.sets = w.sets,
         RecoveryScripts(v.recovery) = RecoveryScripts(w.recovery),
         \A k \in DOMAIN w.sets : \A i \in DOMAIN w.sets[k] :
           v.signers[w.sets[k][i] + 1].xpub = w.signers[w.sets[k][i] + 1].xpub
  PROVE  Fingerprint(v) = Fingerprint(w)
<1>1. ASSUME NEW k \in DOMAIN w.sets, NEW b
      PROVE  /\ SetScript(v, w.sets[k], b, 0) = SetScript(w, w.sets[k], b, 0)
             /\ SetText(v, w.sets[k], b, FALSE, TRUE) = SetText(w, w.sets[k], b, FALSE, TRUE)
  <2>1. \A i \in DOMAIN w.sets[k] :
          ChildKey(v.signers[w.sets[k][i] + 1], b, 0)
            = ChildKey(w.signers[w.sets[k][i] + 1], b, 0)
    BY DEF ChildKey
  <2>2. \A i \in DOMAIN w.sets[k] :
          KeyExpression(v.signers[w.sets[k][i] + 1], b, FALSE, TRUE)
            = KeyExpression(w.signers[w.sets[k][i] + 1], b, FALSE, TRUE)
    BY DEF KeyExpression
  <2>3. [i \in DOMAIN w.sets[k] |-> ChildKey(v.signers[w.sets[k][i] + 1], b, 0)]
          = [i \in DOMAIN w.sets[k] |-> ChildKey(w.signers[w.sets[k][i] + 1], b, 0)]
    BY ONLY <2>1
  <2>4. [i \in DOMAIN w.sets[k] |->
            KeyExpression(v.signers[w.sets[k][i] + 1], b, FALSE, TRUE)]
          = [i \in DOMAIN w.sets[k] |->
              KeyExpression(w.signers[w.sets[k][i] + 1], b, FALSE, TRUE)]
    BY ONLY <2>2
  <2>5. QED  BY <2>3, <2>4 DEF SetScript, SetText
<1>2. ASSUME NEW b  PROVE Scripts(v, b, 0) = Scripts(w, b, 0)
  <2>1. {SetScript(v, v.sets[i], b, 0) : i \in DOMAIN v.sets}
          = {SetScript(w, w.sets[i], b, 0) : i \in DOMAIN w.sets}
    BY <1>1
  <2>2. QED  BY <2>1 DEF Scripts
<1>3. ASSUME NEW b, NEW script
      PROVE  TextsOf(v, script, b, FALSE, TRUE) = TextsOf(w, script, b, FALSE, TRUE)
  <2>1. {j \in DOMAIN v.sets : SetScript(v, v.sets[j], b, 0) = script}
          = {j \in DOMAIN w.sets : SetScript(w, w.sets[j], b, 0) = script}
    BY <1>1
  <2> DEFINE J == {j \in DOMAIN w.sets : SetScript(w, w.sets[j], b, 0) = script}
  <2>2. {SetText(v, v.sets[i], b, FALSE, TRUE) : i \in J}
          = {SetText(w, w.sets[i], b, FALSE, TRUE) : i \in J}
    <3>1. \A i \in J : SetText(v, v.sets[i], b, FALSE, TRUE)
                         = SetText(w, w.sets[i], b, FALSE, TRUE)
      BY <1>1
    <3> HIDE DEF J
    <3>2. QED  BY ONLY <3>1
  <2>3. QED  BY <2>1, <2>2 DEF TextsOf
<1>4. ASSUME NEW b  PROVE Text(v, b, FALSE, TRUE) = Text(w, b, FALSE, TRUE)
  <2> DEFINE ss(u) == ByHash(Scripts(u, b, 0))
             texts(u, x) == TextsOf(u, x, b, FALSE, TRUE)
             leaves(u) == [k \in DOMAIN ss(u) |-> CHOOSE x \in texts(u, ss(u)[k]) : TRUE]
             whole(u) == \A x \in ToSet(ss(u)) : Cardinality(texts(u, x)) = 1
             text(u) == IF b \in Branches /\ whole(u) THEN [leaves |-> leaves(u)] ELSE Refused
  <2>1. Text(v, b, FALSE, TRUE) = text(v)
    BY DEF Text
  <2>2. Text(w, b, FALSE, TRUE) = text(w)
    BY DEF Text
  <2>3. ss(v) = ss(w)
    BY <1>2
  <2>4. \A x : texts(v, x) = texts(w, x)
    BY <1>3
  <2> HIDE DEF texts, ss
  <2>5. whole(v) <=> whole(w)
    BY <2>3, <2>4
  <2>6. leaves(v) = leaves(w)
    <3>1. DOMAIN ss(v) = DOMAIN ss(w)
      BY <2>3
    <3>2. \A k \in DOMAIN ss(w) : (CHOOSE x \in texts(v, ss(v)[k]) : TRUE)
                                    = (CHOOSE x \in texts(w, ss(w)[k]) : TRUE)
      BY <2>3, <2>4
    <3>3. QED  BY <3>1, <3>2
  <2> HIDE DEF whole, leaves
  <2>7. text(v) = text(w)
    BY <2>5, <2>6
  <2> HIDE DEF text
  <2>8. QED  BY ONLY <2>1, <2>2, <2>7
<1>5. [b \in Branches |-> Text(v, b, FALSE, TRUE)] = [b \in Branches |-> Text(w, b, FALSE, TRUE)]
  BY <1>4
<1>6. QED  BY <1>5 DEF Fingerprint

-----------------------------------------------------------------------------
(* What a constructor gives the builder.                                   *)

\* The tuples of a threshold, which is at most 3, are finitely many.
LEMMA TuplesFinite ==
  ASSUME NEW S, IsFiniteSet(S), NEW k \in 1 .. 3
  PROVE  /\ IsFiniteSet([1 .. k -> S])
         /\ Cardinality([1 .. k -> S]) <= Cardinality(S) * (Cardinality(S) * Cardinality(S))
<1> DEFINE Y == S \X S
           X == S \X Y
           three(q) == [i \in 1 .. k |-> IF i = 1 THEN q[1]
                                         ELSE IF i = 2 THEN q[2][1] ELSE q[2][2]]
           f == [q \in X |-> three(q)]
<1>1. IsFiniteSet(X) /\ Cardinality(X) = Cardinality(S) * (Cardinality(S) * Cardinality(S))
  <2>1. IsFiniteSet(Y) /\ Cardinality(Y) = Cardinality(S) * Cardinality(S)
    BY FS_Product
  <2> HIDE DEF Y
  <2>2. QED  BY <2>1, FS_Product
<1>2. f \in [X -> [1 .. k -> S]]
  OBVIOUS
<1>3. ASSUME NEW t \in [1 .. k -> S]  PROVE \E q \in X : f[q] = t
  <2>1. k = 1 \/ k = 2 \/ k = 3
    OBVIOUS
  <2> DEFINE q == <<t[1], <<IF k = 1 THEN t[1] ELSE t[2], IF k = 3 THEN t[3] ELSE t[1]>>>>
  <2>2. q \in X
    BY <2>1
  <2>3. three(q) = t
    <3>1. \A i \in 1 .. k : i = 1 \/ (i = 2 /\ k # 1) \/ (i = 3 /\ k = 3)
      BY <2>1
    <3>2. \A i \in 1 .. k : three(q)[i] = t[i]
      BY <3>1
    <3>3. three(q) = [i \in 1 .. k |-> three(q)[i]]
      OBVIOUS
    <3>4. t = [i \in 1 .. k |-> t[i]]
      OBVIOUS
    <3> HIDE DEF three, q
    <3>5. QED  BY ONLY <3>2, <3>3, <3>4
  <2> HIDE DEF q, three
  <2>4. QED  BY <2>2, <2>3
<1> DEFINE F == [1 .. k -> S]
<1> HIDE DEF f, X
<1>4. f \in Surjection(X, F)
  BY <1>2, <1>3 DEF Surjection
<1> HIDE DEF F
<1>5. IsFiniteSet(F) /\ Cardinality(F) <= Cardinality(X)
  BY <1>1, <1>4, FS_Surjection
<1>6. QED  BY <1>1, <1>5 DEF F

LEMMA SetToSeqType ==
  ASSUME NEW T, IsFiniteSet(T)
  PROVE  SetToSeq(T) \in [1 .. Cardinality(T) -> T]
<1>1. PICK g \in Bijection(1 .. Cardinality(T), T) : TRUE
  BY FS_CardinalityType DEF ExistsBijection
<1>2. g \in [1 .. Cardinality(T) -> T] /\ IsInjective(g)
  BY DEF Bijection, Injection
<1>3. QED  BY <1>2 DEF SetToSeq

\* The sets of a template have its threshold's length.
LEMMA SubsetsType ==
  ASSUME NEW n \in Nat, NEW k \in 1 .. 3
  PROVE  /\ Subsets(n, k) \in Seq(Seq(Nat))
         /\ \A i \in DOMAIN Subsets(n, k) : Len(Subsets(n, k)[i]) = k
<1> DEFINE F == [1 .. k -> 0 .. n - 1]
           T == {t \in F : \A i, j \in 1 .. k : i < j => t[i] < t[j]}
           m == Cardinality(T)
           s == SetToSeq(T)
<1>1. IsFiniteSet(0 .. n - 1)
  BY FS_Interval
<1>2. IsFiniteSet(F)
  BY <1>1, TuplesFinite
<1>3. IsFiniteSet(T)
  <2>1. T \in SUBSET F
    OBVIOUS
  <2> HIDE DEF T, F
  <2>2. QED  BY <1>2, <2>1, FS_Subset
<1>4. m \in Nat
  <2> HIDE DEF T
  <2>1. QED  BY <1>3, FS_CardinalityType
<1>5. \A t \in T : t \in Seq(Nat) /\ Len(t) = k
  <2> SUFFICES ASSUME NEW t \in T  PROVE t \in Seq(Nat) /\ Len(t) = k
    OBVIOUS
  <2>1. k \in Nat /\ t \in [1 .. k -> Nat]
    OBVIOUS
  <2>2. QED  BY ONLY <2>1, FunctionIsSeq
<1>6. s \in [1 .. m -> T]
  <2> HIDE DEF T
  <2>1. QED  BY <1>3, SetToSeqType
<1>7. Subsets(n, k) = Lexicographic(s)
  BY DEF Subsets
<1> HIDE DEF T, m, s
<1> DEFINE U == Seq(Nat)
<1>8. s \in [1 .. m -> U] /\ \A i \in 1 .. m : Len(s[i]) = k
  BY <1>5, <1>6
<1>9. s \in Seq(U) /\ Len(s) = m
  <2> HIDE DEF U
  <2>1. QED  BY ONLY <1>4, <1>8, FunctionIsSeq
<1>10. Lexicographic(s) \in Seq(U) /\ Len(Lexicographic(s)) = m
  BY <1>4, <1>9, LexicographicSorts
<1>11. PICK p \in Bijection(1 .. m, 1 .. m) : \A i \in 1 .. m : Lexicographic(s)[i] = s[p[i]]
  BY <1>4, <1>9, LexicographicFrom
<1>12. \A i \in 1 .. m : p[i] \in 1 .. m
  BY DEF Bijection, Injection
<1> HIDE DEF U
<1>13. DOMAIN Lexicographic(s) = 1 .. m
  BY <1>4, <1>10, LenProperties
<1>14. \A i \in 1 .. m : Len(Lexicographic(s)[i]) = k
  BY ONLY <1>8, <1>11, <1>12
<1>15. QED  BY ONLY <1>7, <1>10, <1>13, <1>14 DEF U

\* A recovery as the constructors give it.
Recovery(r) ==
  /\ r = [key |-> r.key, always |-> r.always, decay |-> r.decay, blocks |-> r.blocks]
  /\ r.always \in BOOLEAN /\ r.decay \in BOOLEAN

\* The wallet of a source is built of its own signer roots.
BuiltOf(s, a, sa, recovery) ==
  /\ WalletOf[s] = Build(s.network, a, sa, recovery)
  /\ a \in Seq(WalletSigner) /\ Len(a) = Len(s.signers)
  /\ \A k \in 1 .. Len(a) : Bare(a[k]) = Bare(s.signers[k])
  /\ sa \in Seq(Seq(Nat))
  /\ Recovery(recovery)

LEMMA StagedBuilt ==
  ASSUME NEW s \in Sources, s.by = "staged", IsWallet(WalletOf[s])
  PROVE  Preflight(s) /\ BuiltOf(s, s.signers, s.sets, NoRecovery)
<1>1. WalletOf[s] = IF Preflight(s) THEN Build(s.network, s.signers, s.sets, NoRecovery)
                    ELSE Refused
  BY DEF WalletOf, Constructed
<1>2. Preflight(s)
  BY <1>1 DEF IsWallet
<1>3. Recovery(NoRecovery)
  BY DEF Recovery, NoRecovery
<1>4. QED  BY <1>1, <1>2, <1>3, SourceType DEF BuiltOf

LEMMA RecordBuilt ==
  ASSUME NEW s \in Sources, s.by = "record", IsWallet(WalletOf[s])
  PROVE  \E a, sa, recovery : BuiltOf(s, a, sa, recovery)
<1> DEFINE a == [i \in DOMAIN s.signers |-> Signer(s.signers[i].kind, s.signers[i].xpub,
                                                   s.signers[i].policyKeyId, NoOrigin)]
           recovery == IF s.recoveryKey = "none" THEN NoRecovery
                       ELSE [key |-> s.recoveryKey, always |-> TRUE,
                             decay |-> s.decayBlocks # <<>>,
                             blocks |-> IF s.decayBlocks = <<>> THEN 1 ELSE s.decayBlocks[1]]
<1>1. WalletOf[s] = FromRecord(s)
  BY DEF WalletOf, Constructed
<1>2. WalletOf[s] = Build(s.network, a, s.sets, recovery)
  BY <1>1 DEF FromRecord, IsWallet
<1>3. PICK n \in Nat : n = Len(s.signers) /\ DOMAIN s.signers = 1 .. n
  BY SourceType
<1>4. ASSUME NEW k \in 1 .. n  PROVE a[k] = Bare(s.signers[k]) /\ a[k] \in WalletSigner
  <2>1. s.signers[k] \in WalletSigner
    BY <1>3, SourceType, ElementOfSeq
  <2>2. a[k] = Bare(s.signers[k])
    BY <1>3, <2>1 DEF Bare, Signer, WalletSigner
  <2>3. QED  BY <2>1, <2>2, BareFacts
<1>5. a \in [1 .. n -> WalletSigner]
  BY <1>3, <1>4
<1>6. Recovery(recovery)
  BY DEF Recovery, NoRecovery
<1> HIDE DEF a, recovery
<1>7. a \in Seq(WalletSigner) /\ Len(a) = n
  BY ONLY n \in Nat, <1>5, FunctionIsSeq
<1>8. \A k \in 1 .. n : Bare(a[k]) = Bare(s.signers[k])
  <2> SUFFICES ASSUME NEW k \in 1 .. n  PROVE Bare(a[k]) = Bare(s.signers[k])
    OBVIOUS
  <2>1. s.signers[k] \in WalletSigner
    BY <1>3, SourceType, ElementOfSeq
  <2>2. a[k] = Bare(s.signers[k]) /\ a[k] \in WalletSigner
    BY <1>4
  <2>3. a[k].kind = s.signers[k].kind /\ a[k].xpub = s.signers[k].xpub
        /\ a[k].policyKeyId = s.signers[k].policyKeyId
    BY ONLY <2>1, <2>2, BareFacts
  <2>4. QED  BY ONLY <2>1, <2>2, <2>3, BareEqual
<1>9. BuiltOf(s, a, s.sets, recovery)
  BY <1>2, <1>3, <1>6, <1>7, <1>8, SourceType DEF BuiltOf
<1>10. QED  BY <1>9

LEMMA NativeBuilt ==
  ASSUME NEW s \in Sources, s.by = "native", IsWallet(WalletOf[s])
  PROVE  \E a, sa, recovery : BuiltOf(s, a, sa, recovery)
<1>1. WalletOf[s] = NativeMultisig(s.network, s.signers, s.threshold)
  BY DEF WalletOf, Constructed
<1>2. /\ s.threshold \in 1 .. 3
      /\ WalletOf[s] = Build(s.network, s.signers, Subsets(Len(s.signers), s.threshold),
                             NoRecovery)
  BY <1>1 DEF NativeMultisig, IsWallet
<1>3. Subsets(Len(s.signers), s.threshold) \in Seq(Seq(Nat))
  BY <1>2, SourceType, SubsetsType
<1>4. Recovery(NoRecovery)
  BY DEF Recovery, NoRecovery
<1>5. BuiltOf(s, s.signers, Subsets(Len(s.signers), s.threshold), NoRecovery)
  BY <1>2, <1>3, <1>4, SourceType DEF BuiltOf
<1>6. QED  BY <1>5

\* The signers of a mixed source, taken apart and put together.
LEMMA HeadAndTail ==
  ASSUME NEW s \in Sources, s.by = "mixed"
  PROVE  /\ <<Head(s.signers)>> \o Tail(s.signers) = s.signers
         /\ Len(Tail(s.signers)) = Len(s.signers) - 1 /\ Len(s.signers) >= 1
<1> DEFINE rest == Tail(s.signers)
           n == Len(rest)
<1>1. PICK m \in Nat : m = Len(s.signers) /\ s.signers # <<>>
  BY SourceType, ProvisioningAssumption
<1>2. /\ Head(s.signers) \in WalletSigner /\ rest \in Seq(WalletSigner) /\ n = m - 1
      /\ \A i \in 1 .. n : rest[i] = s.signers[i + 1]
  BY <1>1, SourceType, HeadTailProperties
<1>3. n \in Nat
  BY <1>2, LenProperties
<1>4. <<Head(s.signers)>> \in Seq(WalletSigner) /\ Len(<<Head(s.signers)>>) = 1
      /\ <<Head(s.signers)>>[1] = s.signers[1]
  BY <1>2
<1> DEFINE h == <<Head(s.signers)>>
<1> HIDE DEF h, rest
<1>5. /\ h \o rest \in Seq(WalletSigner) /\ Len(h \o rest) = 1 + n
      /\ \A i \in 1 .. 1 + n : (h \o rest)[i] = IF i <= 1 THEN h[i] ELSE rest[i - 1]
  BY <1>2, <1>4, ConcatProperties DEF h
<1>6. \A i \in 1 .. m : (h \o rest)[i] = s.signers[i]
  <2> SUFFICES ASSUME NEW i \in 1 .. m  PROVE (h \o rest)[i] = s.signers[i]
    OBVIOUS
  <2>1. CASE i = 1
    <3>1. i \in 1 .. 1 + n /\ i <= 1
      BY <1>2, <1>3, <2>1
    <3>2. QED  BY <1>4, <1>5, <2>1, <3>1 DEF h
  <2>2. CASE i # 1
    <3>1. i \in 1 .. 1 + n /\ ~(i <= 1) /\ i - 1 \in 1 .. n /\ (i - 1) + 1 = i
      BY <1>2, <1>3, <2>2
    <3>2. (h \o rest)[i] = rest[i - 1] /\ rest[i - 1] = s.signers[(i - 1) + 1]
      BY <1>2, <1>5, <3>1
    <3>3. QED  BY <3>1, <3>2
  <2>3. QED  BY <2>1, <2>2
<1>7. Len(h \o rest) = Len(s.signers)
  BY <1>1, <1>2, <1>3, <1>5
<1>8. h \o rest = s.signers
  BY <1>1, <1>5, <1>6, <1>7, SourceType, SeqEqual
<1>9. n = Len(s.signers) - 1
  BY <1>1, <1>2
<1>10. Len(s.signers) >= 1
  BY <1>1, <1>2, <1>3
<1>11. QED  BY <1>8, <1>9, <1>10 DEF h, rest

LEMMA MixedBuilt ==
  ASSUME NEW s \in Sources, s.by = "mixed", IsWallet(WalletOf[s])
  PROVE  \E a, sa, recovery : BuiltOf(s, a, sa, recovery)
<1> DEFINE rest == Tail(s.signers)
           n == Len(rest)
           chosen == Subsets(n, s.threshold)
           sets == [i \in DOMAIN chosen |->
                     <<0>> \o [j \in DOMAIN chosen[i] |-> chosen[i][j] + 1]]
           a == <<Head(s.signers)>> \o rest
<1>1. WalletOf[s] = SigbashPlusExternal(s.network, Head(s.signers), rest, s.threshold)
  BY DEF WalletOf, Constructed
<1>2. s.threshold \in 1 .. 3 /\ WalletOf[s] = Build(s.network, a, sets, NoRecovery)
  BY <1>1, SourceType DEF SigbashPlusExternal, IsWallet
<1>4. a = s.signers /\ n \in Nat
  <2>1. a = s.signers /\ n = Len(s.signers) - 1 /\ Len(s.signers) >= 1
    BY HeadAndTail
  <2>2. Len(s.signers) \in Nat
    BY SourceType
  <2>3. QED  BY <2>1, <2>2
<1>5. sets \in Seq(Seq(Nat))
  <2> DEFINE T == Seq(Nat)
             tuple(i) == [j \in DOMAIN chosen[i] |-> chosen[i][j] + 1]
  <2>1. chosen \in Seq(T)
    BY <1>2, <1>4, SubsetsType
  <2>2. PICK m \in Nat : DOMAIN chosen = 1 .. m
    <3> HIDE DEF T, chosen
    <3>1. QED  BY <2>1, LenProperties
  <2>3. ASSUME NEW i \in 1 .. m  PROVE <<0>> \o tuple(i) \in T
    <3>1. chosen[i] \in T
      <4> HIDE DEF T, chosen
      <4>1. Len(chosen) \in Nat /\ DOMAIN chosen = 1 .. Len(chosen)
        BY <2>1, LenProperties
      <4>2. QED  BY <2>1, <2>2, <4>1, ElementOfSeq
    <3> HIDE DEF chosen
    <3>2. PICK q \in Nat : DOMAIN chosen[i] = 1 .. q /\ \A j \in 1 .. q : chosen[i][j] \in Nat
      BY <3>1, LenProperties, ElementOfSeq
    <3>3. tuple(i) \in [1 .. q -> Nat]
      BY <3>2
    <3> HIDE DEF tuple
    <3>4. tuple(i) \in Seq(Nat)
      BY <3>3, FunctionIsSeq
    <3>5. <<0>> \in Seq(Nat)
      OBVIOUS
    <3>6. QED  BY <3>4, <3>5, ConcatProperties
  <2>4. sets = [i \in 1 .. m |-> <<0>> \o tuple(i)]
    BY <2>2
  <2> HIDE DEF T, tuple
  <2>5. sets \in [1 .. m -> T]
    BY <2>3, <2>4
  <2> HIDE DEF sets
  <2>6. sets \in Seq(T)
    BY <2>5, FunctionIsSeq
  <2>7. QED  BY <2>6 DEF T
<1>6. Recovery(NoRecovery)
  BY DEF Recovery, NoRecovery
<1> HIDE DEF sets, a
<1>7. BuiltOf(s, s.signers, sets, NoRecovery)
  BY <1>2, <1>4, <1>5, <1>6, SourceType DEF BuiltOf
<1>8. QED  BY <1>7

\* Every source's wallet comes out of the builder.
LEMMA Constructs ==
  ASSUME NEW s \in Sources, IsWallet(WalletOf[s])
  PROVE  \E a, sa, recovery : BuiltOf(s, a, sa, recovery)
BY StagedBuilt, RecordBuilt, NativeBuilt, MixedBuilt, SourceType

-----------------------------------------------------------------------------
(* The wallet of a source.                                                 *)

\* What is known of every wallet built.
Sound(w) ==
  /\ w = [network |-> w.network, signers |-> w.signers, sets |-> w.sets,
          recovery |-> w.recovery]
  /\ w.signers \in Seq(WalletSigner)
  /\ w.sets \in Seq(Seq(Nat))
  /\ \A i \in 1 .. Len(w.sets) : SetValid(w.signers, w.sets[i])
  /\ Recovery(w.recovery) /\ RecoveryValid(w.recovery)
  /\ Canonical(w)

\* What the builder returns, all at once.
LEMMA BuildSound ==
  ASSUME NEW network, NEW a \in Seq(WalletSigner), NEW sa \in Seq(Seq(Nat)), NEW recovery,
         Recovery(recovery), IsWallet(Build(network, a, sa, recovery))
  PROVE  LET w == Build(network, a, sa, recovery)
         IN  /\ Sound(w) /\ w.network = network /\ w.recovery = recovery
             /\ w.signers = CanonicalOrder(a) /\ Len(w.signers) = Len(a)
<1> DEFINE w == Build(network, a, sa, recovery)
<1>1. /\ w = [network |-> network, signers |-> CanonicalOrder(a),
              sets |-> CanonicalSets(sa), recovery |-> recovery]
      /\ w.signers \in Seq(WalletSigner) /\ Len(w.signers) = Len(a)
      /\ w.sets \in Seq(Seq(Nat))
      /\ Accepted(network, a, sa, recovery)
  BY BuiltWallet
<1>2. Canonical(w)
  BY BuiltCanonical
<1>3. \A i \in 1 .. Len(w.sets) : SetValid(w.signers, w.sets[i])
  BY BuiltSets
<1> HIDE DEF w
<1>4. w.network = network /\ w.recovery = recovery /\ w.signers = CanonicalOrder(a)
      /\ w.sets = CanonicalSets(sa)
  BY <1>1
<1>5. RecoveryValid(recovery)
  BY <1>1 DEF Accepted
<1>6. Sound(w)
  BY <1>1, <1>2, <1>3, <1>4, <1>5 DEF Sound
<1>7. QED  BY <1>1, <1>4, <1>6 DEF w

\* BuildSound, of a wallet under its own name.
LEMMA BuiltSound ==
  ASSUME NEW network, NEW a \in Seq(WalletSigner), NEW sa \in Seq(Seq(Nat)), NEW recovery,
         Recovery(recovery), NEW w, w = Build(network, a, sa, recovery), IsWallet(w)
  PROVE  /\ Sound(w) /\ w.network = network
         /\ w.signers = CanonicalOrder(a) /\ Len(w.signers) = Len(a)
BY BuildSound

\* The wallet of a source is sound and has the source's signers, without
\* their origins, in some order.
LEMMA WalletSound ==
  ASSUME NEW s \in Sources, IsWallet(WalletOf[s])
  PROVE  LET w == WalletOf[s]
             n == Len(s.signers)
         IN  /\ Sound(w) /\ w.network = s.network
             /\ Len(w.signers) = n
             /\ \E p \in Bijection(1 .. n, 1 .. n) :
                  \A k \in 1 .. n : Bare(w.signers[k]) = Bare(s.signers[p[k]])
<1> DEFINE w == WalletOf[s]
<1>1. PICK a, sa, recovery : BuiltOf(s, a, sa, recovery)
  BY Constructs
<1>2. PICK n \in Nat : n = Len(s.signers)
  BY SourceType
<1>3. /\ w = Build(s.network, a, sa, recovery)
      /\ a \in Seq(WalletSigner) /\ Len(a) = n
      /\ \A k \in 1 .. n : Bare(a[k]) = Bare(s.signers[k])
      /\ sa \in Seq(Seq(Nat)) /\ Recovery(recovery)
  BY <1>1, <1>2 DEF BuiltOf
<1>4. Sound(w) /\ w.network = s.network /\ w.signers = CanonicalOrder(a) /\ Len(w.signers) = n
  <2>1. IsWallet(w)
    OBVIOUS
  <2> HIDE DEF w
  <2>2. QED  BY ONLY <1>3, <2>1, BuiltSound
<1> HIDE DEF w
<1>5. PICK p \in Bijection(1 .. n, 1 .. n) : \A k \in 1 .. n : CanonicalOrder(a)[k] = a[p[k]]
  BY <1>3, CanonicalOrderFrom
<1>6. \A k \in 1 .. n : p[k] \in 1 .. n
  BY DEF Bijection, Injection
<1>7. \A k \in 1 .. n : Bare(w.signers[k]) = Bare(s.signers[p[k]])
  BY <1>3, <1>4, <1>5, <1>6
<1>8. QED  BY <1>2, <1>4, <1>7 DEF w

\* The indices of a wallet's sets name its signers.
LEMMA SetIndices ==
  ASSUME NEW w, Sound(w), NEW k \in DOMAIN w.sets, NEW i \in DOMAIN w.sets[k]
  PROVE  w.sets[k][i] + 1 \in 1 .. Len(w.signers)
<1> DEFINE T == Seq(Nat)
           x == w.sets[k]
<1>1. w.sets \in Seq(T) /\ Len(w.signers) \in Nat
  BY LenProperties DEF Sound
<1>2. k \in 1 .. Len(w.sets) /\ x \in T
  <2> HIDE DEF T
  <2>1. DOMAIN w.sets = 1 .. Len(w.sets)
    BY <1>1, LenProperties
  <2>2. QED  BY <1>1, <2>1, ElementOfSeq
<1>3. SetValid(w.signers, x)
  BY <1>2 DEF Sound
<1> HIDE DEF x
<1>4. DOMAIN x = 1 .. Len(x) /\ i \in DOMAIN x
  BY <1>2, LenProperties DEF x
<1>5. x[i] \in Nat
  BY <1>2, <1>4, ElementOfSeq
<1>6. x[i] < Len(w.signers)
  BY <1>3, <1>4 DEF SetValid, ToSet
<1>7. x[i] + 1 \in 1 .. Len(w.signers)
  BY ONLY <1>1, <1>5, <1>6
<1>8. QED  BY <1>7 DEF x

\* Origins, and the block count of a branch a wallet does not have, are not
\* in its fingerprint.
LEMMA FingerprintBare ==
  ASSUME NEW v, NEW w, Sound(w), v.network = w.network, v.sets = w.sets,
         v.signers \in Seq(WalletSigner), Len(v.signers) = Len(w.signers),
         \A k \in 1 .. Len(v.signers) : Bare(v.signers[k]) = Bare(w.signers[k]),
         RecoveryScripts(v.recovery) = RecoveryScripts(w.recovery)
  PROVE  Fingerprint(v) = Fingerprint(w)
<1>1. w.signers \in Seq(WalletSigner)
  BY DEF Sound
<1>2. ASSUME NEW k \in 1 .. Len(w.signers)  PROVE v.signers[k].xpub = w.signers[k].xpub
  <2>1. v.signers[k] \in WalletSigner /\ w.signers[k] \in WalletSigner
    BY <1>1, ElementOfSeq
  <2>2. Bare(v.signers[k]) = Bare(w.signers[k])
    OBVIOUS
  <2>3. QED  BY ONLY <2>1, <2>2, BareEqual
<1>3. \A k \in DOMAIN w.sets : \A i \in DOMAIN w.sets[k] :
        v.signers[w.sets[k][i] + 1].xpub = w.signers[w.sets[k][i] + 1].xpub
  BY <1>2, SetIndices
<1>4. QED  BY <1>3, FingerprintAlike

\* One Sigbash signer at most, in whatever order the roots are given.
LEMMA PreflightAlike ==
  ASSUME NEW a \in Seq(WalletSigner), NEW b \in Seq(WalletSigner), SameRoots(a, b),
         SigbashCount(a) <= 1
  PROVE  SigbashCount(b) <= 1
<1>1. SameRoots(b, a)
  BY RearrangedSymmetric DEF SameRoots
<1>2. PICK n \in Nat : n = Len(b) /\ n = Len(a) /\ DOMAIN a = 1 .. n /\ DOMAIN b = 1 .. n
  BY <1>1, SameRootsOrder, LenProperties
<1>3. PICK r \in Bijection(1 .. n, 1 .. n) : \A i \in 1 .. n : Bare(b[i]) = Bare(a[r[i]])
  BY <1>1, <1>2, SameRootsOrder
<1>4. /\ \A i \in 1 .. n : r[i] \in 1 .. n
      /\ \A i, j \in 1 .. n : r[i] = r[j] => i = j
  BY DEF Bijection, Injection, IsInjective
<1>5. \A i \in 1 .. n : a[i] \in WalletSigner /\ b[i] \in WalletSigner
  BY <1>2, ElementOfSeq
<1>6. \A i \in 1 .. n : IsSigbash(b[i]) <=> IsSigbash(a[r[i]])
  BY <1>3, <1>4, <1>5, BareEqual DEF IsSigbash
<1>7. \A i, j \in 1 .. n : IsSigbash(a[i]) /\ IsSigbash(a[j]) => i = j
  BY <1>2, SigbashCounts
<1>8. \A i, j \in 1 .. n : IsSigbash(b[i]) /\ IsSigbash(b[j]) => i = j
  BY <1>4, <1>6, <1>7
<1>9. QED  BY <1>2, <1>8, SigbashCounts

\* One wallet and one digest for one staged intent.
LEMMA StagedAlike ==
  ASSUME NEW s \in Sources, NEW t \in Sources, SameIntent(s, t), IsWallet(WalletOf[s])
  PROVE  /\ IsWallet(WalletOf[t])
         /\ SameButOrigins(WalletOf[s], WalletOf[t])
         /\ DigestOf[s] = DigestOf[t]
<1>1. /\ s.by = "staged" /\ t.by = "staged" /\ s.network = t.network
      /\ SameRoots(s.signers, t.signers) /\ SameSets(s.sets, t.sets)
  BY SameIntentFacts
<1>2. Preflight(s) /\ WalletOf[s] = Build(s.network, s.signers, s.sets, NoRecovery)
  BY <1>1, StagedBuilt DEF BuiltOf
<1>3. Preflight(t)
  BY <1>1, <1>2, SourceType, PreflightAlike DEF Preflight
<1>4. WalletOf[t] = Build(s.network, t.signers, t.sets, NoRecovery)
  BY <1>1, <1>3 DEF WalletOf, Constructed
<1>5. IsWallet(WalletOf[t]) /\ SameButOrigins(WalletOf[s], WalletOf[t])
  BY <1>1, <1>2, <1>4, SourceType, OneWallet
<1>6. Sound(WalletOf[s]) /\ Sound(WalletOf[t])
  BY <1>5, WalletSound
<1>7. Fingerprint(WalletOf[s]) = Fingerprint(WalletOf[t])
  BY <1>5, <1>6, FingerprintBare DEF SameButOrigins, Sound
<1>8. QED  BY <1>5, <1>7 DEF DigestOf

\* Two presentations of one intent have one digest, or neither has.
LEMMA DigestKept ==
  ASSUME NEW s \in Sources, NEW t \in Sources, SameIntent(s, t)
  PROVE  DigestOf[s] = DigestOf[t]
<1>1. CASE IsWallet(WalletOf[s])
  BY <1>1, StagedAlike
<1>2. CASE IsWallet(WalletOf[t])
  BY <1>2, SameIntentSymmetric, StagedAlike
<1>3. CASE ~IsWallet(WalletOf[s]) /\ ~IsWallet(WalletOf[t])
  BY <1>3 DEF DigestOf
<1>4. QED  BY <1>1, <1>2, <1>3

\* The wallet the server's intent describes is the one the application
\* builds, whichever presentations they come from.
LEMMA CommittedAlike ==
  ASSUME NEW s \in Sources, NEW t \in Sources, SameIntent(s, t), IsWallet(WalletOf[t])
  PROVE  /\ IsWallet(Committed(Wire(s)))
         /\ SameButOrigins(WalletOf[t], Committed(Wire(s)))
         /\ Sound(Committed(Wire(s)))
         /\ Committed(Wire(s)).signers = CanonicalOrder(Wire(s).signers)
<1>1. /\ s.by = "staged" /\ t.by = "staged" /\ s.network = t.network
      /\ SameRoots(s.signers, t.signers) /\ SameSets(s.sets, t.sets)
  BY SameIntentFacts
<1>2. WalletOf[t] = Build(t.network, t.signers, t.sets, NoRecovery)
  BY <1>1, StagedBuilt DEF BuiltOf
<1> DEFINE i == Wire(s)
<1>3. i.network = t.network /\ i.signers \in Seq(WalletSigner) /\ i.sets \in Seq(Seq(Nat))
  BY <1>1, WireBares, SourceType
<1>4. SameRoots(t.signers, i.signers) /\ SameSets(t.sets, i.sets)
  <2>1. PICK n \in Nat : n = Len(s.signers)
    BY SourceType
  <2>2. i.signers = Bares(n, s.signers) /\ Len(i.signers) = n /\ i.sets = s.sets
    BY <2>1, WireBares
  <2>3. Bares(n, i.signers) = Bares(n, s.signers)
    <3> SUFFICES ASSUME NEW k \in 1 .. n
                 PROVE  Bare(i.signers[k]) = Bare(s.signers[k])
      BY DEF Bares
    <3>1. s.signers[k] \in WalletSigner
      BY <2>1, SourceType, ElementOfSeq
    <3>2. i.signers[k] = Bare(s.signers[k])
      BY <2>2 DEF Bares
    <3> HIDE DEF i
    <3>3. QED  BY ONLY <3>1, <3>2, BareFacts, BareEqual
  <2>4. SameRoots(t.signers, s.signers) /\ SameSets(t.sets, s.sets)
    BY SameIntentFacts, SameIntentSymmetric
  <2> HIDE DEF i
  <2>5. QED  BY <2>1, <2>2, <2>3, <2>4 DEF SameRoots
<1> HIDE DEF i
<1>5. IsWallet(Committed(i)) /\ SameButOrigins(WalletOf[t], Committed(i))
  BY <1>2, <1>3, <1>4, SourceType, OneWallet DEF Committed
<1>6. Recovery(NoRecovery)
  BY DEF Recovery, NoRecovery
<1>7. Sound(Committed(i)) /\ Committed(i).signers = CanonicalOrder(i.signers)
  BY <1>3, <1>5, <1>6, BuildSound DEF Committed
<1>8. QED  BY <1>5, <1>7 DEF i

\* A digest the application assembles is the identity of the intent the
\* server holds, whichever presentation either came from.
LEMMA DigestIsIdentity ==
  ASSUME NEW s \in Sources, NEW t \in Sources, SameIntent(s, t), DigestOf[t] # Refused
  PROVE  DigestOf[t] = IdentityOf[Wire(s)] /\ DigestOf[t] # None
<1>1. IsWallet(WalletOf[t]) /\ DigestOf[t] = Fingerprint(WalletOf[t])
  BY DEF DigestOf
<1>2. /\ IsWallet(Committed(Wire(s))) /\ Sound(Committed(Wire(s)))
      /\ SameButOrigins(WalletOf[t], Committed(Wire(s)))
  BY <1>1, CommittedAlike
<1>3. Fingerprint(WalletOf[t]) = Fingerprint(Committed(Wire(s)))
  <2>1. WalletOf[t].signers \in Seq(WalletSigner)
    BY <1>1, WalletSound DEF Sound
  <2>2. QED  BY <1>2, <2>1, FingerprintBare DEF SameButOrigins
<1>4. IdentityOf[Wire(s)] = Fingerprint(Committed(Wire(s)))
  <2>1. Wire(s) \in {Wire(x) : x \in {y \in Sources : y.by = "staged"}}
    BY SameIntentFacts
  <2>2. QED  BY <1>2, <2>1 DEF IdentityOf
<1>5. DigestOf[t] # None
  <2>1. \E x : DigestOf[t] = [tag |-> "WALLET", of |-> x]
    BY <1>1 DEF Fingerprint
  <2>2. "none" \in DOMAIN None
    BY DEF None
  <2>3. QED  BY <2>1, <2>2
<1>6. QED  BY <1>1, <1>3, <1>4, <1>5

\* The wallet has one Sigbash signer at most when its source has.
LEMMA SigbashKept ==
  ASSUME NEW s \in Sources, IsWallet(WalletOf[s])
  PROVE  LET n == Len(s.signers)
             c == WalletOf[s].signers
         IN  /\ \A x \in 1 .. n : \E y \in 1 .. n :
                  IsSigbash(s.signers[x]) => IsSigbash(c[y]) /\ c[y].xpub = s.signers[x].xpub
             /\ \A y \in 1 .. n : \E x \in 1 .. n :
                  IsSigbash(c[y]) => IsSigbash(s.signers[x]) /\ c[y].xpub = s.signers[x].xpub
             /\ SigbashCount(s.signers) <= 1 => SigbashCount(c) <= 1
<1> DEFINE c == WalletOf[s].signers
<1>1. PICK n \in Nat : n = Len(s.signers) /\ DOMAIN s.signers = 1 .. n
  BY SourceType
<1>2. c \in Seq(WalletSigner) /\ Len(c) = n
  BY <1>1, WalletSound DEF Sound
<1>3. PICK p \in Bijection(1 .. n, 1 .. n) :
        \A k \in 1 .. n : Bare(c[k]) = Bare(s.signers[p[k]])
  BY <1>1, WalletSound
<1> HIDE DEF c
<1>4. /\ \A k \in 1 .. n : p[k] \in 1 .. n
      /\ \A x \in 1 .. n : \E k \in 1 .. n : p[k] = x
      /\ \A i, j \in 1 .. n : p[i] = p[j] => i = j
  BY DEF Bijection, Injection, Surjection, IsInjective
<1>5. DOMAIN c = 1 .. n
  BY <1>2, LenProperties
<1>6. \A k \in 1 .. n : c[k] \in WalletSigner /\ s.signers[k] \in WalletSigner
  BY <1>1, <1>2, SourceType, ElementOfSeq
<1>7. \A k \in 1 .. n : /\ IsSigbash(c[k]) <=> IsSigbash(s.signers[p[k]])
                        /\ c[k].xpub = s.signers[p[k]].xpub
  BY <1>3, <1>4, <1>6, BareEqual DEF IsSigbash
<1>8. ASSUME SigbashCount(s.signers) <= 1
      PROVE  SigbashCount(c) <= 1
  <2>1. \A i, j \in 1 .. n : IsSigbash(s.signers[i]) /\ IsSigbash(s.signers[j]) => i = j
    BY <1>1, <1>8, SigbashCounts
  <2>2. ASSUME NEW i \in 1 .. n, NEW j \in 1 .. n, IsSigbash(c[i]), IsSigbash(c[j])
        PROVE  i = j
    <3>1. p[i] \in 1 .. n /\ p[j] \in 1 .. n
      BY <1>4
    <3>2. IsSigbash(s.signers[p[i]]) /\ IsSigbash(s.signers[p[j]])
      BY ONLY <1>7, <2>2, i \in 1 .. n, j \in 1 .. n
    <3>3. p[i] = p[j]
      BY ONLY <2>1, <3>1, <3>2
    <3>4. QED  BY ONLY <1>4, <3>3, i \in 1 .. n, j \in 1 .. n
  <2>3. QED  BY <1>5, <2>2, SigbashCounts
<1>9. ASSUME NEW x \in 1 .. n
      PROVE  \E y \in 1 .. n : IsSigbash(s.signers[x])
                                 => IsSigbash(c[y]) /\ c[y].xpub = s.signers[x].xpub
  <2>1. PICK k \in 1 .. n : p[k] = x
    BY <1>4
  <2>2. (IsSigbash(c[k]) <=> IsSigbash(s.signers[x])) /\ c[k].xpub = s.signers[x].xpub
    BY ONLY <1>7, <2>1, k \in 1 .. n
  <2>3. QED  BY ONLY <2>2, k \in 1 .. n
<1>10. ASSUME NEW y \in 1 .. n
       PROVE  \E x \in 1 .. n : IsSigbash(c[y])
                                  => IsSigbash(s.signers[x]) /\ c[y].xpub = s.signers[x].xpub
  <2>1. p[y] \in 1 .. n
    BY <1>4
  <2>2. (IsSigbash(c[y]) <=> IsSigbash(s.signers[p[y]])) /\ c[y].xpub = s.signers[p[y]].xpub
    BY ONLY <1>7, y \in 1 .. n
  <2>3. QED  BY ONLY <2>1, <2>2
<1>11. QED  BY <1>1, <1>8, <1>9, <1>10 DEF c

\* The clause digest of the one Sigbash signer's wallet.
LEMMA ClauseTag ==
  ASSUME NEW w, SigbashCount(w.signers) = 1
  PROVE  ClauseDigest(w).tag = "REQKEYDIGEST"
<1>1. Payload(w) = Encode(w, CHOOSE i \in DOMAIN w.signers : w.signers[i].kind = Sigbash)
  BY DEF Payload
<1>2. "network" \in DOMAIN Payload(w)
  BY <1>1 DEF Encode
<1>3. "network" \notin DOMAIN Refused
  BY DEF Refused
<1>4. ClauseDigest(w) = [tag |-> "REQKEYDIGEST", of |-> {Payload(w)}]
  BY <1>2, <1>3 DEF ClauseDigest
<1>5. QED  BY <1>4

\* The slots of a reservation and where each comes from.
LEMMA SlotsShape ==
  ASSUME NEW s \in Sources, slotOrder \in {"wire", "canonical"}
  PROVE  LET n == Len(s.signers)
             x == IF slotOrder = "wire" THEN Wire(s).signers ELSE CanonicalOrder(Wire(s).signers)
         IN  /\ Slots(Wire(s)) = [i \in 1 .. n |-> [kind |-> x[i].kind, root |-> x[i].xpub]]
             /\ DOMAIN Slots(Wire(s)) = 1 .. n /\ Len(Slots(Wire(s))) = n
             /\ Len(Kinds(Slots(Wire(s)))) = n
             /\ DOMAIN Kinds(Slots(Wire(s))) = 1 .. n
<1> DEFINE x == IF slotOrder = "wire" THEN Wire(s).signers ELSE CanonicalOrder(Wire(s).signers)
<1>1. PICK n \in Nat : n = Len(s.signers)
  BY SourceType
<1>2. x \in Seq(WalletSigner) /\ Len(x) = n
  BY <1>1, WireBares, CanonicalOrderSorts
<1>3. DOMAIN x = 1 .. n
  BY <1>2, LenProperties
<1>4. Slots(Wire(s)) = [i \in DOMAIN x |-> [kind |-> x[i].kind, root |-> x[i].xpub]]
  BY DEF Slots
<1> HIDE DEF x
<1> DEFINE S == {[kind |-> x[i].kind, root |-> x[i].xpub] : i \in 1 .. n}
           K == {[kind |-> Slots(Wire(s))[i].kind] : i \in 1 .. n}
<1>5. Slots(Wire(s)) \in [1 .. n -> S]
  BY <1>3, <1>4
<1>6. Len(Slots(Wire(s))) = n
  <2> HIDE DEF S
  <2>1. QED  BY <1>1, <1>5, FunctionIsSeq
<1>7. DOMAIN Slots(Wire(s)) = 1 .. n
  BY <1>5
<1>8. Kinds(Slots(Wire(s))) \in [1 .. n -> K]
  BY <1>7 DEF Kinds
<1>9. Len(Kinds(Slots(Wire(s)))) = n
  <2> HIDE DEF K
  <2>1. QED  BY <1>1, <1>8, FunctionIsSeq
<1>10. QED  BY <1>1, <1>3, <1>4, <1>6, <1>7, <1>8, <1>9 DEF x

\* What the producer hands the compile step fits the reservation's slots: the
\* kinds were compared, and the wallet orders its roots as the server does.
LEMMA RecordsFit ==
  ASSUME NEW s \in Sources, NEW t \in Sources, SameIntent(s, t), IsWallet(WalletOf[t]),
         slotOrder \in {"wire", "canonical"}, NEW roots,
         Compilation(WalletOf[t], Kinds(Slots(Wire(s))), roots) # Refused
  PROVE  Fits(Slots(Wire(s)), Compilation(WalletOf[t], Kinds(Slots(Wire(s))), roots))
<1> DEFINE w == WalletOf[t]
           slots == Slots(Wire(s))
           c == w.signers
<1>1. PICK n \in Nat : n = Len(s.signers)
  BY SourceType
<1>2. /\ DOMAIN slots = 1 .. n /\ DOMAIN Kinds(slots) = 1 .. n
      /\ Len(Kinds(slots)) = n
  BY <1>1, SlotsShape
<1>3. Sound(w)
  BY WalletSound
<1>4. /\ Compilation(w, Kinds(slots), roots) = PerSigner(w)
      /\ Len(Kinds(slots)) = Len(c)
      /\ \A i \in DOMAIN Kinds(slots) : Kinds(slots)[i].kind = c[i].kind
  BY DEF Compilation
<1>5. c \in Seq(WalletSigner) /\ Len(c) = n /\ DOMAIN c = 1 .. n
  BY <1>2, <1>3, <1>4, LenProperties DEF Sound
<1>6. \A i \in 1 .. n : slots[i].kind = c[i].kind
  <2> HIDE DEF slots, c
  <2>1. QED  BY <1>2, <1>4 DEF Kinds
<1>7. t.by = "staged"
  BY SameIntentFacts
<1>8. SigbashCount(c) <= 1
  BY <1>7, StagedBuilt, SigbashKept DEF Preflight
<1>9. ASSUME NEW i \in 1 .. n
      PROVE  PerSigner(w).perSigner[i].digest.tag = "REQKEYDIGEST" <=> slots[i].kind = Sigbash
  <2>1. PerSigner(w).perSigner[i].digest = IF c[i].kind = Sigbash THEN ClauseDigest(w)
                                           ELSE Commitment(c[i].xpub)
    BY <1>5 DEF PerSigner
  <2> HIDE DEF slots, w
  <2>2. CASE c[i].kind = Sigbash
    <3>1. \E k \in 1 .. n : IsSigbash(c[k])
      BY <2>2 DEF IsSigbash
    <3> HIDE DEF c
    <3>2. SigbashCount(c) = 1
      BY <1>5, <1>8, <3>1, SigbashCounts
    <3>3. ClauseDigest(w).tag = "REQKEYDIGEST"
      BY <3>2, ClauseTag DEF c
    <3>4. QED  BY <1>6, <2>1, <2>2, <3>3
  <2>3. CASE c[i].kind # Sigbash
    <3> HIDE DEF c
    <3>1. PerSigner(w).perSigner[i].digest = [tag |-> "EXTERNAL", of |-> {c[i].xpub}]
      BY <2>1, <2>3 DEF Commitment
    <3>2. PerSigner(w).perSigner[i].digest.tag = "EXTERNAL"
      BY <3>1
    <3>3. QED  BY <1>6, <2>3, <3>2
  <2>4. QED  BY <2>2, <2>3
<1>10. ASSUME NEW i \in 1 .. n, slotOrder = "canonical"
       PROVE  PerSigner(w).perSigner[i].root = slots[i].root
  <2> DEFINE d == CanonicalOrder(Wire(s).signers)
  <2>1. /\ SameButOrigins(w, Committed(Wire(s))) /\ Committed(Wire(s)).signers = d
        /\ Committed(Wire(s)).signers \in Seq(WalletSigner)
    BY CommittedAlike DEF Sound
  <2>2. slots[i].root = d[i].xpub
    BY <1>1, <1>10, SlotsShape
  <2>3. PerSigner(w).perSigner[i].root = c[i].xpub
    BY <1>5 DEF PerSigner
  <2> HIDE DEF w, d, slots, c
  <2>4. Len(c) = Len(d) /\ Bare(c[i]) = Bare(d[i])
    BY <1>5, <2>1 DEF SameButOrigins, c
  <2>5. c[i] \in WalletSigner /\ d[i] \in WalletSigner
    BY <1>5, <2>1, <2>4, ElementOfSeq
  <2>6. c[i].xpub = d[i].xpub
    BY ONLY <2>4, <2>5, BareEqual
  <2>7. QED  BY <2>2, <2>3, <2>6
<1> HIDE DEF w, slots
<1>11. Fits(slots, PerSigner(w))
  BY <1>2, <1>9, <1>10 DEF Fits
<1>12. QED  BY <1>4, <1>11 DEF w, slots

-----------------------------------------------------------------------------
(* The server's step.                                                      *)

\* A reservation the server knows is stored soundly.
LEMMA ReservedStored ==
  ASSUME ServerSound, NEW r \in Reservation
  PROVE  /\ ~Reserved(r) => server[r] = Absent
         /\ Reserved(r) => Stored(server[r])
<1>1. CASE server[r] = Absent
  BY <1>1 DEF Reserved, Absent
<1>2. CASE Stored(server[r])
  <2>1. server[r].state \in Stages
    BY <1>2 DEF Stored
  <2>2. server[r].state # "absent"
    BY <2>1 DEF Stages
  <2>3. QED  BY <1>2, <2>2 DEF Reserved
<1>3. QED  BY <1>1, <1>2 DEF ServerSound

\* A digest that was computed is not the mark of a missing one.
LEMMA DigestsAreSet ==
  ASSUME source \in Sources, NEW d \in Digests
  PROVE  d # None
<1>1. PICK t \in Presentations[source] : d = DigestOf[t] /\ d # Refused
  BY DEF Digests
<1>2. t \in Sources /\ SameIntent(t, t)
  BY PresentationsKept, PresentedTogether
<1>3. QED  BY <1>1, <1>2, DigestIsIdentity

\* An accepted request leaves a sound reservation.
LEMMA AppliedStored ==
  ASSUME source \in Sources, ServerSound,
         NEW c, Shaped(c), RequestSound(c), Accepts(c)
  PROVE  LET u == server[c.reservation]
             v == Applied(c, u)
         IN  /\ Stored(v)
             /\ u.state # "absent" => v.slots = u.slots
             /\ u.state \notin {"EXPIRED", "ACTIVATED"}
             /\ u.state # "absent" /\ u.digest # None => v.digest # None
             /\ c.op = "abandon" => v.state = "EXPIRED"
             /\ c.op = "activate" => v.state = "ACTIVATED"
             /\ c.op \in {"assemble", "compile", "seal"} => v.digest # None
<1> DEFINE u == server[c.reservation]
           v == Applied(c, u)
<1>1. c.op \in Operations /\ c.reservation \in Reservation
  BY DEF Shaped
<1>2. u.state \in Follows[c.op]
  BY DEF Accepts
<1>3. /\ u.state = "absent" => u = Absent
      /\ u.state # "absent" => Stored(u)
  BY <1>1, ReservedStored DEF Reserved
<1> HIDE DEF u
<1>4. CASE c.op = "create"
  <2>1. u.state = "absent"
    BY <1>2, <1>4 DEF Follows
  <2>2. v = [state |-> "RESERVED", intent |-> c.body, slots |-> Slots(c.body),
             digest |-> None, records |-> None]
    BY <1>4 DEF Applied
  <2>3. c.body \in Intents
    BY <1>4 DEF RequestSound
  <2> HIDE DEF v
  <2>4. Stored(v)
    BY <2>2, <2>3 DEF Stored, Stages
  <2>5. QED  BY <1>4, <2>1, <2>4 DEF u, v
<1>5. CASE c.op # "create"
  <2>1. u.state # "absent" /\ u.state \notin {"EXPIRED", "ACTIVATED"}
    BY <1>1, <1>2, <1>5 DEF Follows, Operations
  <2>2. Stored(u)
    BY <1>3, <2>1
  <2>3. /\ u = [state |-> u.state, intent |-> u.intent, slots |-> u.slots,
                digest |-> u.digest, records |-> u.records]
        /\ u.intent \in Intents /\ u.slots = Slots(u.intent)
        /\ u.digest \in {None} \cup Digests
        /\ u.state \in {"ASSEMBLED", "COMPILED", "SEALED", "ACTIVATED"} => u.digest # None
        /\ u.records # None => Fits(u.slots, u.records)
    BY <2>2 DEF Stored
  <2>4. CASE c.op = "assemble"
    <3>1. c.body \in Digests /\ c.body # None
      BY <2>4, DigestsAreSet DEF RequestSound
    <3>2. v = [state |-> "ASSEMBLED", intent |-> u.intent, slots |-> u.slots,
               digest |-> c.body, records |-> u.records]
      <4>1. v = [u EXCEPT !.state = "ASSEMBLED", !.digest = c.body]
        BY <2>4 DEF Applied
      <4> HIDE DEF v
      <4>2. QED  BY ONLY <2>3, <4>1
    <3> HIDE DEF v
    <3>3. Stored(v)
      BY <2>3, <3>1, <3>2 DEF Stored, Stages
    <3>4. QED  BY <2>1, <2>4, <3>1, <3>2, <3>3 DEF u, v
  <2>5. CASE c.op = "compile"
    <3>1. Fits(u.slots, c.body)
      BY <2>5 DEF RequestSound, u
    <3>2. v = [state |-> "COMPILED", intent |-> u.intent, slots |-> u.slots,
               digest |-> u.digest, records |-> c.body]
      <4>1. v = [u EXCEPT !.state = "COMPILED", !.records = c.body]
        BY <2>5 DEF Applied
      <4> HIDE DEF v
      <4>2. QED  BY ONLY <2>3, <4>1
    <3>3. u.digest # None
      BY <1>2, <2>3, <2>5 DEF Follows
    <3> HIDE DEF v
    <3>4. Stored(v)
      BY <2>3, <3>1, <3>2, <3>3 DEF Stored, Stages
    <3>5. QED  BY <2>1, <2>5, <3>2, <3>3, <3>4 DEF u, v
  <2>6. ASSUME NEW state \in {"SEALED", "ACTIVATED", "EXPIRED"},
               v = [u EXCEPT !.state = state],
               state # "EXPIRED" => u.digest # None
        PROVE  /\ Stored(v) /\ v.slots = u.slots /\ v.digest = u.digest
               /\ v.state = state
    <3> HIDE DEF v
    <3>1. v = [state |-> state, intent |-> u.intent, slots |-> u.slots,
               digest |-> u.digest, records |-> u.records]
      BY ONLY <2>3, <2>6
    <3>2. QED  BY <2>3, <2>6, <3>1 DEF Stored, Stages
  <2>7. CASE c.op = "seal"
    <3>1. v = [u EXCEPT !.state = "SEALED"]
      BY <2>7 DEF Applied
    <3>2. u.digest # None
      BY <1>2, <2>3, <2>7 DEF Follows
    <3> HIDE DEF v
    <3>3. Stored(v) /\ v.slots = u.slots /\ v.digest = u.digest
      BY <2>6, <3>1, <3>2
    <3>4. QED  BY <2>1, <2>7, <3>2, <3>3 DEF u, v
  <2>8. CASE c.op = "activate"
    <3>1. v = [u EXCEPT !.state = "ACTIVATED"]
      BY <2>8 DEF Applied
    <3>2. u.digest # None
      BY <1>2, <2>3, <2>8 DEF Follows
    <3> HIDE DEF v
    <3>3. Stored(v) /\ v.slots = u.slots /\ v.digest = u.digest /\ v.state = "ACTIVATED"
      BY <2>6, <3>1, <3>2
    <3>4. QED  BY <2>1, <2>8, <3>3 DEF u, v
  <2>9. CASE c.op = "abandon"
    <3>1. v = [u EXCEPT !.state = "EXPIRED"]
      BY <2>9 DEF Applied
    <3> HIDE DEF v
    <3>2. Stored(v) /\ v.slots = u.slots /\ v.digest = u.digest /\ v.state = "EXPIRED"
      BY <2>6, <3>1
    <3>3. QED  BY <2>1, <2>9, <3>2 DEF u, v
  <2>10. QED  BY <1>1, <1>5, <2>4, <2>5, <2>7, <2>8, <2>9 DEF Operations
<1>6. QED  BY <1>4, <1>5

-----------------------------------------------------------------------------
(* What a step leaves standing.                                            *)

\* The application holds the same intent, and slots are numbered as before.
SameHeld ==
  /\ source' \in Sources
  /\ Presentations[source'] = Presentations[source]
  /\ slotOrder' = slotOrder

\* What no step undoes of a reservation.
Kept ==
  /\ DOMAIN server' = Reservation
  /\ \A r \in Reservation : server[r].state # "absent" =>
       /\ server'[r].state # "absent" /\ server'[r].slots = server[r].slots
       /\ server[r].state \in {"EXPIRED", "ACTIVATED"} => server'[r].state = server[r].state
       /\ server[r].digest # None => server'[r].digest # None

LEMMA HeldKept ==
  ASSUME SameHeld
  PROVE  Intents' = Intents /\ Digests' = Digests
BY DEF SameHeld, Intents, Digests

LEMMA StoredCarried ==
  ASSUME SameHeld, NEW r, Stored(server'[r])
  PROVE  Stored(server[r])'
<1>1. Intents' = Intents /\ Digests' = Digests /\ slotOrder' = slotOrder
  BY HeldKept DEF SameHeld
<1>2. /\ server'[r] = [state |-> server'[r].state, intent |-> server'[r].intent,
                       slots |-> server'[r].slots, digest |-> server'[r].digest,
                       records |-> server'[r].records]
      /\ server'[r].state \in Stages
      /\ server'[r].intent \in Intents
      /\ server'[r].slots = Slots(server'[r].intent)
      /\ server'[r].digest \in {None} \cup Digests
      /\ server'[r].state \in {"ASSEMBLED", "COMPILED", "SEALED", "ACTIVATED"}
           => server'[r].digest # None
      /\ server'[r].records # None => Fits(server'[r].slots, server'[r].records)
  BY DEF Stored
<1>3. Slots(server'[r].intent) = Slots(server[r].intent)'
  BY <1>1 DEF Slots
<1>4. Fits(server'[r].slots, server'[r].records) <=> Fits(server[r].slots, server[r].records)'
  BY <1>1 DEF Fits
<1>5. QED  BY <1>1, <1>2, <1>3, <1>4 DEF Stored

LEMMA ServerCarried ==
  ASSUME SameHeld, DOMAIN server' = Reservation,
         \A r \in Reservation : server'[r] = Absent \/ Stored(server'[r])
  PROVE  ServerSound'
<1>1. ASSUME NEW r \in Reservation
      PROVE  server'[r] = Absent \/ Stored(server[r])'
  BY StoredCarried
<1>2. QED  BY <1>1 DEF ServerSound

\* Told, CallSound, LateSound, ViewSound and DoneSound of what did not change.
LEMMA ToldKept ==
  ASSUME Kept, NEW op, NEW r \in Reservation, Told(op, r)
  PROVE  Told(op, r)'
BY DEF Kept, Told, Reserved

LEMMA CallKept ==
  ASSUME SameHeld, Kept, CallSound, call' = call
  PROVE  CallSound'
<1>1. Intents' = Intents /\ Digests' = Digests /\ slotOrder' = slotOrder
  BY HeldKept DEF SameHeld
<1>2. SUFFICES ASSUME call # Idle
               PROVE  /\ Shaped(call)'
                      /\ call.at = "request" => RequestSound(call)'
                      /\ call.at = "answer" /\ Ok(call.body) => Told(call.op, call.reservation)'
  BY DEF CallSound, Ok
<1>3. Shaped(call) /\ call.reservation \in Reservation
  BY <1>2 DEF CallSound, Shaped
<1>4. Shaped(call)'
  BY <1>3 DEF Shaped
<1>5. ASSUME call.at = "request"  PROVE RequestSound(call)'
  <2>1. RequestSound(call)
    BY <1>2, <1>5 DEF CallSound
  <2>2. CASE call.op = "compile"
    <3>1. server'[call.reservation].slots = server[call.reservation].slots
          /\ server'[call.reservation].state # "absent"
      BY <1>3, <2>1, <2>2 DEF RequestSound, Kept, Reserved
    <3>2. Fits(server[call.reservation].slots, call.body)'
      BY <1>1, <2>1, <2>2, <3>1 DEF RequestSound, Fits
    <3>3. QED  BY <2>2, <3>1, <3>2 DEF RequestSound, Reserved
  <2>3. CASE call.op # "compile"
    BY <1>1, <2>1, <2>3 DEF RequestSound
  <2>4. QED  BY <2>2, <2>3
<1>6. ASSUME call.at = "answer", Ok(call.body)
      PROVE  Told(call.op, call.reservation)'
  BY <1>2, <1>3, <1>6 DEF CallSound, Kept, Told, Reserved
<1>7. QED  BY <1>4, <1>5, <1>6

LEMMA LateKept ==
  ASSUME SameHeld, Kept, LateSound, late' = late
  PROVE  LateSound'
<1>1. Intents' = Intents /\ Digests' = Digests /\ slotOrder' = slotOrder
  BY HeldKept DEF SameHeld
<1>2. SUFFICES ASSUME late # Idle
               PROVE  Shaped(late)' /\ late.at = "request" /\ RequestSound(late)'
  BY DEF LateSound
<1>3. Shaped(late) /\ late.reservation \in Reservation /\ late.at = "request"
      /\ RequestSound(late)
  BY <1>2 DEF LateSound, Shaped
<1>4. Shaped(late)'
  BY <1>3 DEF Shaped
<1>5. CASE late.op = "compile"
  <2>1. server'[late.reservation].slots = server[late.reservation].slots
        /\ server'[late.reservation].state # "absent"
    BY <1>3, <1>5 DEF RequestSound, Kept, Reserved
  <2>2. Fits(server[late.reservation].slots, late.body)'
    BY <1>1, <1>3, <1>5, <2>1 DEF RequestSound, Fits
  <2>3. RequestSound(late)'
    BY <1>5, <2>1, <2>2 DEF RequestSound, Reserved
  <2>4. QED  BY <1>3, <1>4, <2>3
<1>6. CASE late.op # "compile"
  <2>1. RequestSound(late)'
    BY <1>1, <1>3, <1>6 DEF RequestSound
  <2>2. QED  BY <1>3, <1>4, <2>1
<1>7. QED  BY <1>5, <1>6

LEMMA ViewKept ==
  ASSUME Kept, ViewSound, view' = view
  PROVE  ViewSound'
<1>1. SUFFICES ASSUME view # None
               PROVE  /\ view.reservation \in Reservation
                      /\ Reserved(view.reservation)'
                      /\ view.slots = Kinds(server[view.reservation].slots)'
  BY DEF ViewSound
<1>2. /\ view.reservation \in Reservation /\ Reserved(view.reservation)
      /\ view.slots = Kinds(server[view.reservation].slots)
  BY <1>1 DEF ViewSound
<1>3. /\ server'[view.reservation].state # "absent"
      /\ server'[view.reservation].slots = server[view.reservation].slots
  BY <1>2 DEF Kept, Reserved
<1>4. QED  BY <1>2, <1>3 DEF Kinds, Reserved

LEMMA DoneKept ==
  ASSUME Kept, DoneSound, done' = done
  PROVE  DoneSound'
<1>1. ASSUME NEW step \in done  PROVE Told(step[1], step[2])'
  <2>1. step[2] \in Reservation /\ Told(step[1], step[2])
    BY DEF DoneSound
  <2>2. QED  BY <2>1, ToldKept
<1>2. QED  BY <1>1 DEF DoneSound

LEMMA ServerSame ==
  ASSUME SameHeld, ServerSound, server' = server
  PROVE  Kept /\ ServerSound'
<1>1. Kept
  BY DEF ServerSound, Kept
<1>2. ServerSound'
  BY ServerCarried DEF ServerSound
<1>3. QED  BY <1>1, <1>2

\* Serving a request, on time or late, keeps the server sound and takes
\* nothing back that was told.
LEMMA ServedStep ==
  ASSUME source \in Sources, ServerSound, NEW c, Shaped(c), RequestSound(c),
         server' = After(c)
  PROVE  /\ Kept
         /\ \A r \in Reservation : server'[r] = Absent \/ Stored(server'[r])
         /\ Accepts(c) =>
              LET v == server'[c.reservation]
              IN  /\ v.state # "absent"
                  /\ c.op = "abandon" => v.state = "EXPIRED"
                  /\ c.op = "activate" => v.state = "ACTIVATED"
                  /\ c.op \in {"assemble", "compile", "seal"} => v.digest # None
<1> DEFINE q == c.reservation
           v == Applied(c, server[q])
<1>1. q \in Reservation /\ DOMAIN server = Reservation
  BY DEF Shaped, ServerSound
<1>2. CASE ~Accepts(c)
  <2>1. server' = server
    BY <1>2 DEF After
  <2>2. QED  BY <1>2, <2>1 DEF ServerSound, Kept
<1>3. CASE Accepts(c)
  <2>1. /\ Stored(v)
        /\ server[q].state # "absent" => v.slots = server[q].slots
        /\ server[q].state \notin {"EXPIRED", "ACTIVATED"}
        /\ server[q].state # "absent" /\ server[q].digest # None => v.digest # None
        /\ c.op = "abandon" => v.state = "EXPIRED"
        /\ c.op = "activate" => v.state = "ACTIVATED"
        /\ c.op \in {"assemble", "compile", "seal"} => v.digest # None
    BY <1>3, AppliedStored
  <2>2. server' = [server EXCEPT ![q] = v]
    BY <1>3 DEF After
  <2> HIDE DEF v, q
  <2>3. /\ DOMAIN server' = Reservation /\ server'[q] = v
        /\ \A r \in Reservation : r # q => server'[r] = server[r]
    BY <1>1, <2>2
  <2>4. v.state # "absent"
    BY <2>1 DEF Stored, Stages
  <2>5. Kept
    <3> SUFFICES ASSUME NEW r \in Reservation, server[r].state # "absent"
                 PROVE  /\ server'[r].state # "absent" /\ server'[r].slots = server[r].slots
                        /\ server[r].state \in {"EXPIRED", "ACTIVATED"}
                             => server'[r].state = server[r].state
                        /\ server[r].digest # None => server'[r].digest # None
      BY <2>3 DEF Kept
    <3>1. CASE r = q
      BY ONLY <2>1, <2>3, <2>4, <3>1, server[r].state # "absent"
    <3>2. CASE r # q
      BY <2>3, <3>2
    <3>3. QED  BY <3>1, <3>2
  <2>6. \A r \in Reservation : server'[r] = Absent \/ Stored(server'[r])
    BY <2>1, <2>3 DEF ServerSound
  <2>7. QED  BY <2>1, <2>3, <2>4, <2>5, <2>6 DEF q
<1>4. QED  BY <1>2, <1>3

\* Whoever told the application that a request was refused told the truth.
LEMMA OnlyAppliedIsOk ==
  ASSUME NEW applied \in BOOLEAN, NEW answer \in Answers(applied), Ok(answer)
  PROVE  applied
BY DEF Answers, Ok

-----------------------------------------------------------------------------
(* The steps.                                                              *)

LEMMA ProvisionedInit == Init => Provisioned
<1> SUFFICES ASSUME Init  PROVE Provisioned
  OBVIOUS
<1>1. source \in Sources /\ slotOrder \in {"wire", "canonical"}
  BY DEF Init
<1>2. ServerSound
  BY DEF Init, ServerSound
<1>3. CallSound /\ LateSound /\ ViewSound /\ DoneSound
  BY DEF Init, CallSound, LateSound, ViewSound, DoneSound
<1>4. QED  BY <1>1, <1>2, <1>3 DEF Provisioned

LEMMA RebuildProvisioned ==
  ASSUME Provisioned, Rebuild
  PROVE  Provisioned'
<1>1. source \in Sources /\ source' \in Presentations[source]
  BY DEF Provisioned, Rebuild
<1>2. SameHeld
  BY <1>1, PresentationsKept DEF SameHeld, Rebuild
<1>3. server' = server /\ call' = call /\ late' = late /\ view' = view /\ done' = done
  BY DEF Rebuild
<1>4. Kept /\ ServerSound'
  BY <1>2, <1>3, ServerSame DEF Provisioned
<1>5. CallSound' /\ LateSound' /\ ViewSound' /\ DoneSound'
  BY <1>2, <1>3, <1>4, CallKept, LateKept, ViewKept, DoneKept DEF Provisioned
<1>6. QED  BY <1>2, <1>4, <1>5 DEF Provisioned, SameHeld

LEMMA SendProvisioned ==
  ASSUME Provisioned, NEW op \in Operations, NEW r \in Reservation, NEW body,
         Send(op, r, body),
         op = "create" => body \in Intents,
         op = "assemble" => body \in Digests,
         op = "compile" => Reserved(r) /\ Fits(server[r].slots, body)
  PROVE  Provisioned'
<1>1. /\ source' = source /\ server' = server /\ late' = late /\ view' = view
      /\ done' = done /\ slotOrder' = slotOrder
      /\ call' = [op |-> op, at |-> "request", reservation |-> r, body |-> body]
  BY DEF Send
<1>2. SameHeld
  BY <1>1 DEF SameHeld, Provisioned
<1>3. Kept /\ ServerSound'
  BY <1>1, <1>2, ServerSame DEF Provisioned
<1>4. LateSound' /\ ViewSound' /\ DoneSound'
  BY <1>1, <1>2, <1>3, LateKept, ViewKept, DoneKept DEF Provisioned
<1>5. CallSound'
  <2>1. /\ call'.op = op /\ call'.at = "request" /\ call'.reservation = r /\ call'.body = body
    BY <1>1
  <2>2. Shaped(call)'
    BY <1>1, <2>1 DEF Shaped
  <2>3. Intents' = Intents /\ Digests' = Digests /\ slotOrder' = slotOrder
    BY <1>1, <1>2, HeldKept
  <2>4. CASE op = "compile"
    <3>1. Reserved(r) /\ Fits(server[r].slots, body)
      BY <2>4
    <3>2. Fits(server[call.reservation].slots, call.body)'
      BY <1>1, <2>1, <2>3, <3>1 DEF Fits
    <3>3. RequestSound(call)'
      BY <1>1, <2>1, <2>4, <3>1, <3>2 DEF RequestSound, Reserved
    <3>4. QED  BY <2>1, <2>2, <3>3 DEF CallSound
  <2>5. CASE op # "compile"
    <3>1. RequestSound(call)'
      BY <2>1, <2>3, <2>5 DEF RequestSound
    <3>2. QED  BY <2>1, <2>2, <3>1 DEF CallSound
  <2>6. QED  BY <2>4, <2>5
<1>6. QED  BY <1>1, <1>2, <1>3, <1>4, <1>5 DEF Provisioned, SameHeld

LEMMA CreateProvisioned ==
  ASSUME Provisioned, CreateReservation
  PROVE  Provisioned'
<1>1. PICK r \in Reservation : Send("create", r, Wire(source))
  BY DEF CreateReservation
<1>2. source \in Sources /\ source.by = "staged" /\ Preflight(source)
  BY DEF CreateReservation, Provisioned
<1>3. SameIntent(source, source)
  <2>1. SameRoots(source.signers, source.signers) /\ SameSets(source.sets, source.sets)
    <3>1. \A a : Rearranged(a, a)
      <4> SUFFICES ASSUME NEW a  PROVE Rearranged(a, a)
        OBVIOUS
      <4> DEFINE f == [i \in DOMAIN a |-> i]
      <4>1. f \in Bijection(DOMAIN a, DOMAIN a)
        BY DEF Bijection, Injection, Surjection, IsInjective
      <4>2. \A i \in DOMAIN a : a[i] = a[f[i]]
        OBVIOUS
      <4>3. QED  BY <4>1, <4>2 DEF Rearranged
    <3>2. \A sa : SameSets(sa, sa)
      <4> SUFFICES ASSUME NEW sa  PROVE SameSets(sa, sa)
        OBVIOUS
      <4> DEFINE f == [i \in DOMAIN sa |-> i]
      <4>1. f \in Bijection(DOMAIN sa, DOMAIN sa)
        BY DEF Bijection, Injection, Surjection, IsInjective
      <4>2. \A i \in DOMAIN sa : Rearranged(sa[i], sa[f[i]])
        BY <3>1
      <4>3. QED  BY <4>1, <4>2 DEF SameSets
    <3>3. QED  BY <3>1, <3>2 DEF SameRoots
  <2>2. QED  BY <1>2, <2>1, SameIntentFacts
<1>4. Wire(source) \in Intents
  <2>1. source \in Presentations[source]
    BY <1>2, <1>3 DEF Presentations
  <2>2. QED  BY <1>2, <2>1 DEF Intents
<1>5. "create" \in Operations
  BY DEF Operations
<1>6. QED  BY <1>1, <1>4, <1>5, SendProvisioned

\* A reservation there is was made of a presentation of what is held now.
LEMMA HeldIntent ==
  ASSUME Provisioned, NEW r \in Reservation, Reserved(r)
  PROVE  /\ Stored(server[r])
         /\ source \in Presentations[source]
         /\ \E s \in Presentations[source] :
              /\ s \in Sources /\ SameIntent(s, source)
              /\ server[r].intent = Wire(s) /\ Preflight(s)
<1>1. Stored(server[r])
  BY ReservedStored DEF Provisioned
<1>2. PICK s \in Presentations[source] : server[r].intent = Wire(s) /\ Preflight(s)
  BY <1>1 DEF Stored, Intents
<1>3. source \in Sources
  BY DEF Provisioned
<1>4. s \in Sources /\ SameIntent(source, s) /\ source \in Presentations[source]
  BY <1>3, PresentationsKept
<1>5. SameIntent(s, source)
  BY <1>3, <1>4, SameIntentSymmetric
<1>6. QED  BY <1>1, <1>2, <1>4, <1>5

LEMMA AssembleProvisioned ==
  ASSUME Provisioned, Assemble
  PROVE  Provisioned'
<1>1. /\ view # None /\ DigestOf[source] # Refused
      /\ Send("assemble", view.reservation, DigestOf[source])
  BY DEF Assemble
<1>2. view.reservation \in Reservation /\ Reserved(view.reservation)
  BY <1>1 DEF Provisioned, ViewSound
<1>3. DigestOf[source] \in Digests
  BY <1>1, <1>2, HeldIntent DEF Digests
<1>4. "assemble" \in Operations
  BY DEF Operations
<1>5. QED  BY <1>1, <1>2, <1>3, <1>4, SendProvisioned

LEMMA CompileProvisioned ==
  ASSUME Provisioned, Compile
  PROVE  Provisioned'
<1>1. PICK roots : /\ view # None /\ IsWallet(WalletOf[source])
                   /\ Compilation(WalletOf[source], view.slots, roots) # Refused
                   /\ Send("compile", view.reservation,
                           Compilation(WalletOf[source], view.slots, roots))
  BY DEF Compile
<1>2. /\ view.reservation \in Reservation /\ Reserved(view.reservation)
      /\ view.slots = Kinds(server[view.reservation].slots)
  BY <1>1 DEF Provisioned, ViewSound
<1>3. PICK s \in Sources : SameIntent(s, source) /\ server[view.reservation].intent = Wire(s)
  BY <1>2, HeldIntent
<1>4. server[view.reservation].slots = Slots(Wire(s))
  BY <1>2, <1>3, HeldIntent DEF Stored
<1>5. source \in Sources /\ slotOrder \in {"wire", "canonical"}
  BY DEF Provisioned
<1>6. Fits(server[view.reservation].slots, Compilation(WalletOf[source], view.slots, roots))
  BY <1>1, <1>2, <1>3, <1>4, <1>5, RecordsFit
<1>7. "compile" \in Operations
  BY DEF Operations
<1>8. QED  BY <1>1, <1>2, <1>6, <1>7, SendProvisioned

LEMMA AdvanceProvisioned ==
  ASSUME Provisioned, Advance
  PROVE  Provisioned'
<1>1. PICK op \in {"seal", "activate", "abandon"} :
        view # None /\ Send(op, view.reservation, None)
  BY DEF Advance
<1>2. view.reservation \in Reservation
  BY <1>1 DEF Provisioned, ViewSound
<1>3. op \in Operations /\ op \notin {"create", "assemble", "compile"}
  BY DEF Operations
<1>4. QED  BY <1>1, <1>2, <1>3, SendProvisioned

LEMMA ServeProvisioned ==
  ASSUME Provisioned, Serve
  PROVE  Provisioned'
<1>1. /\ call # Idle /\ call.at = "request" /\ server' = After(call)
      /\ source' = source /\ view' = view /\ slotOrder' = slotOrder
      /\ late' = late /\ done' = done
  BY DEF Serve
<1>2. PICK answer \in Answers(Accepts(call)) :
        call' = [call EXCEPT !.at = "answer", !.body = answer]
  BY DEF Serve
<1>3. Shaped(call) /\ RequestSound(call)
  BY <1>1 DEF Provisioned, CallSound
<1>4. source \in Sources /\ ServerSound /\ SameHeld
  BY <1>1 DEF Provisioned, SameHeld
<1>5. /\ Kept
      /\ \A r \in Reservation : server'[r] = Absent \/ Stored(server'[r])
      /\ Accepts(call) =>
           LET v == server'[call.reservation]
           IN  /\ v.state # "absent"
               /\ call.op = "abandon" => v.state = "EXPIRED"
               /\ call.op = "activate" => v.state = "ACTIVATED"
               /\ call.op \in {"assemble", "compile", "seal"} => v.digest # None
  BY <1>1, <1>3, <1>4, ServedStep
<1>6. ServerSound'
  BY <1>4, <1>5, ServerCarried DEF Kept
<1>7. LateSound' /\ ViewSound' /\ DoneSound'
  BY <1>1, <1>4, <1>5, LateKept, ViewKept, DoneKept DEF Provisioned
<1>8. CallSound'
  <2>1. call = [op |-> call.op, at |-> call.at, reservation |-> call.reservation,
                body |-> call.body]
    BY <1>3 DEF Shaped
  <2>2. call' = [op |-> call.op, at |-> "answer", reservation |-> call.reservation,
                 body |-> answer]
    BY ONLY <1>2, <2>1
  <2>3. /\ call'.op = call.op /\ call'.at = "answer"
        /\ call'.reservation = call.reservation /\ call'.body = answer
    BY <2>2
  <2>4. Shaped(call)'
    BY <1>3, <2>2, <2>3 DEF Shaped
  <2>5. ASSUME Ok(answer)  PROVE Told(call.op, call.reservation)'
    <3>1. Accepts(call) \in BOOLEAN
      BY DEF Accepts
    <3>2. Accepts(call)
      BY <2>5, <3>1, OnlyAppliedIsOk
    <3>3. QED  BY <1>5, <2>3, <3>2 DEF Told, Reserved
  <2>6. Ok(call.body)' <=> Ok(answer)
    BY <2>3 DEF Ok
  <2>7. QED  BY <2>3, <2>4, <2>5, <2>6 DEF CallSound
<1>9. QED  BY <1>1, <1>4, <1>6, <1>7, <1>8 DEF Provisioned, SameHeld

LEMMA ServeLateProvisioned ==
  ASSUME Provisioned, ServeLate
  PROVE  Provisioned'
<1>1. /\ late # Idle /\ server' = After(late) /\ late' = Idle
      /\ source' = source /\ view' = view /\ slotOrder' = slotOrder
      /\ call' = call /\ done' = done
  BY DEF ServeLate
<1>2. Shaped(late) /\ RequestSound(late)
  BY <1>1 DEF Provisioned, LateSound
<1>3. source \in Sources /\ ServerSound /\ SameHeld
  BY <1>1 DEF Provisioned, SameHeld
<1>4. Kept /\ \A r \in Reservation : server'[r] = Absent \/ Stored(server'[r])
  BY <1>1, <1>2, <1>3, ServedStep
<1>5. ServerSound'
  BY <1>3, <1>4, ServerCarried DEF Kept
<1>6. CallSound' /\ ViewSound' /\ DoneSound'
  BY <1>1, <1>3, <1>4, CallKept, ViewKept, DoneKept DEF Provisioned
<1>7. LateSound'
  BY <1>1 DEF LateSound
<1>8. QED  BY <1>1, <1>3, <1>5, <1>6, <1>7 DEF Provisioned, SameHeld

LEMMA ExpireProvisioned ==
  ASSUME Provisioned, NEW r \in Reservation, Expire(r)
  PROVE  Provisioned'
<1>1. /\ server[r].state \in Stages \ {"ACTIVATED", "EXPIRED"}
      /\ server' = [server EXCEPT ![r].state = "EXPIRED"]
      /\ source' = source /\ view' = view /\ slotOrder' = slotOrder
      /\ call' = call /\ late' = late /\ done' = done
  BY DEF Expire
<1>2. ServerSound /\ SameHeld /\ DOMAIN server = Reservation
  BY <1>1 DEF Provisioned, SameHeld, ServerSound
<1> DEFINE u == server[r]
<1>3. u.state # "absent" /\ Stored(u)
  BY <1>1, <1>2, ReservedStored DEF Reserved, Stages
<1>4. /\ u = [state |-> u.state, intent |-> u.intent, slots |-> u.slots,
              digest |-> u.digest, records |-> u.records]
      /\ u.intent \in Intents /\ u.slots = Slots(u.intent)
      /\ u.digest \in {None} \cup Digests
      /\ u.records # None => Fits(u.slots, u.records)
  BY <1>3 DEF Stored
<1> DEFINE v == [state |-> "EXPIRED", intent |-> u.intent, slots |-> u.slots,
                 digest |-> u.digest, records |-> u.records]
<1>5. DOMAIN server' = Reservation /\ \A q \in Reservation : q # r => server'[q] = server[q]
  BY <1>1, <1>2
<1>6. server'[r] = v
  <2>1. server'[r] = [u EXCEPT !.state = "EXPIRED"]
    BY <1>1, <1>2
  <2> HIDE DEF u
  <2>2. QED  BY ONLY <1>4, <2>1
<1> HIDE DEF u
<1>7. Stored(v)
  BY <1>4 DEF Stored, Stages
<1> HIDE DEF v
<1>8. v.state # "absent" /\ v.slots = u.slots /\ v.digest = u.digest
  BY DEF v
<1>9. Kept
  BY <1>1, <1>5, <1>6, <1>8 DEF Kept, u
<1>10. \A q \in Reservation : server'[q] = Absent \/ Stored(server'[q])
  BY <1>2, <1>5, <1>6, <1>7 DEF ServerSound
<1>11. ServerSound'
  BY <1>2, <1>5, <1>10, ServerCarried
<1>12. CallSound' /\ LateSound' /\ ViewSound' /\ DoneSound'
  BY <1>1, <1>2, <1>9, CallKept, LateKept, ViewKept, DoneKept DEF Provisioned
<1>13. QED  BY <1>1, <1>2, <1>11, <1>12 DEF Provisioned, SameHeld

LEMMA ReturnsProvisioned ==
  ASSUME Provisioned, Returns
  PROVE  Provisioned'
<1> DEFINE r == call.reservation
<1>1. /\ call # Idle /\ call.at = "answer" /\ call' = Idle
      /\ source' = source /\ server' = server /\ slotOrder' = slotOrder /\ late' = late
  BY DEF Returns
<1>2. SameHeld
  BY <1>1 DEF SameHeld, Provisioned
<1>3. Kept /\ ServerSound'
  BY <1>1, <1>2, ServerSame DEF Provisioned
<1>4. LateSound' /\ CallSound'
  <2>1. LateSound'
    BY <1>1, <1>2, <1>3, LateKept DEF Provisioned
  <2>2. QED  BY <1>1, <2>1 DEF CallSound
<1>5. CASE ~Ok(call.body)
  <2>1. done' = done /\ view' = view
    BY <1>5 DEF Returns
  <2>2. ViewSound' /\ DoneSound'
    BY <1>3, <2>1, ViewKept, DoneKept DEF Provisioned
  <2>3. QED  BY <1>1, <1>2, <1>3, <1>4, <2>2 DEF Provisioned, SameHeld
<1>6. CASE Ok(call.body)
  <2>1. /\ done' = done \cup {<<call.op, r>>}
        /\ view' = IF call.op # "create" THEN view
                   ELSE [reservation |-> r,
                         slots |-> [i \in DOMAIN server[r].slots |->
                                     [kind |-> server[r].slots[i].kind]]]
    BY <1>6 DEF Returns
  <2>2. call.op \in Operations /\ r \in Reservation /\ Told(call.op, r)
    BY <1>1, <1>6 DEF Provisioned, CallSound, Shaped
  <2> HIDE DEF r
  <2>3. DoneSound'
    <3>1. \A step \in done' : step = <<call.op, r>> \/ step \in done
      BY <2>1
    <3>2. done' \subseteq Operations \X Reservation
      BY <2>1, <2>2 DEF Provisioned, DoneSound
    <3>3. ASSUME NEW step \in done'  PROVE Told(step[1], step[2])
      <4>1. CASE step = <<call.op, r>>
        BY <2>2, <4>1
      <4>2. CASE step \in done
        BY <4>2 DEF Provisioned, DoneSound
      <4>3. QED  BY <3>1, <4>1, <4>2
    <3>4. ASSUME NEW step \in done'  PROVE Told(step[1], step[2])'
      BY <1>1, <3>3 DEF Told, Reserved
    <3>5. QED  BY <3>2, <3>4 DEF DoneSound
  <2>4. ViewSound'
    <3>1. CASE call.op # "create"
      <4>1. view' = view
        BY <2>1, <3>1
      <4>2. QED  BY <1>3, <4>1, ViewKept DEF Provisioned
    <3>2. CASE call.op = "create"
      <4>1. view' = [reservation |-> r, slots |-> Kinds(server[r].slots)]
        BY <2>1, <3>2 DEF Kinds
      <4>2. view'.reservation = r /\ view'.slots = Kinds(server[r].slots)
        BY <4>1
      <4>3. Reserved(view.reservation)'
        BY <1>1, <2>2, <4>2 DEF Told, Reserved
      <4>4. view'.slots = Kinds(server[view.reservation].slots)'
        BY <1>1, <4>2 DEF Kinds
      <4>5. QED  BY <2>2, <4>2, <4>3, <4>4 DEF ViewSound
    <3>3. QED  BY <3>1, <3>2
  <2>5. QED  BY <1>1, <1>2, <1>3, <1>4, <2>3, <2>4 DEF Provisioned, SameHeld
<1>7. QED  BY <1>5, <1>6

LEMMA LoseProvisioned ==
  ASSUME Provisioned, Lose
  PROVE  Provisioned'
<1>1. /\ call # Idle /\ call' = Idle
      /\ source' = source /\ server' = server /\ slotOrder' = slotOrder
      /\ view' = view /\ done' = done
      /\ late' = late \/ (late' = call /\ call.at = "request")
  BY DEF Lose
<1>2. SameHeld
  BY <1>1 DEF SameHeld, Provisioned
<1>3. Kept /\ ServerSound'
  BY <1>1, <1>2, ServerSame DEF Provisioned
<1>4. ViewSound' /\ DoneSound' /\ CallSound'
  <2>1. ViewSound' /\ DoneSound'
    BY <1>1, <1>3, ViewKept, DoneKept DEF Provisioned
  <2>2. QED  BY <1>1, <2>1 DEF CallSound
<1>5. CASE late' = late
  <2>1. LateSound'
    BY <1>2, <1>3, <1>5, LateKept DEF Provisioned
  <2>2. QED  BY <1>1, <1>2, <1>3, <1>4, <2>1 DEF Provisioned, SameHeld
<1>6. CASE late' = call /\ call.at = "request"
  <2>1. Shaped(call) /\ RequestSound(call)
    BY <1>1, <1>6 DEF Provisioned, CallSound
  <2>2. Intents' = Intents /\ Digests' = Digests /\ slotOrder' = slotOrder
    BY <1>2, HeldKept DEF SameHeld
  <2>3. Shaped(late)' /\ late'.at = "request"
    BY <1>6, <2>1 DEF Shaped
  <2>4. RequestSound(late)'
    BY <1>1, <1>6, <2>1, <2>2 DEF RequestSound, Fits, Reserved
  <2>5. LateSound'
    BY <2>3, <2>4 DEF LateSound
  <2>6. QED  BY <1>1, <1>2, <1>3, <1>4, <2>5 DEF Provisioned, SameHeld
<1>7. QED  BY <1>1, <1>5, <1>6

LEMMA IdleProvisioned ==
  ASSUME Provisioned,
         UNCHANGED <<source, view, server, slotOrder, call, late, done>>
  PROVE  Provisioned'
<1>1. SameHeld /\ server' = server
  BY DEF SameHeld, Provisioned
<1>2. Kept /\ ServerSound'
  BY <1>1, ServerSame DEF Provisioned
<1>3. CallSound' /\ LateSound' /\ ViewSound' /\ DoneSound'
  BY <1>1, <1>2, CallKept, LateKept, ViewKept, DoneKept DEF Provisioned
<1>4. QED  BY <1>1, <1>2, <1>3 DEF Provisioned, SameHeld

\* The invariant is inductive: every action keeps it.
LEMMA ProvisionedStep == Provisioned /\ [Next]_vars => Provisioned'
<1> SUFFICES ASSUME Provisioned, [Next]_vars  PROVE Provisioned'
  OBVIOUS
<1>1. CASE Store
  BY <1>1, IdleProvisioned DEF Store
<1>2. CASE Resolve
  BY <1>2, IdleProvisioned DEF Resolve
<1>3. CASE UNCHANGED vars
  BY <1>3, IdleProvisioned DEF vars
<1>4. CASE \E r \in Reservation : Expire(r)
  BY <1>4, ExpireProvisioned
<1>5. QED  BY <1>1, <1>2, <1>3, <1>4, RebuildProvisioned, CreateProvisioned,
              AssembleProvisioned, CompileProvisioned, AdvanceProvisioned, ServeProvisioned,
              ServeLateProvisioned, ReturnsProvisioned, LoseProvisioned DEF Next

LEMMA AlwaysProvisioned == Spec => []Provisioned
BY ProvisionedInit, ProvisionedStep, PTL DEF Spec

-----------------------------------------------------------------------------
(* The template.                                                           *)

\* Where the one Sigbash signer of a wallet with a payload stands.
Place(w) == CHOOSE i \in DOMAIN w.signers : w.signers[i].kind = Sigbash

\* The template of a wallet is the wallet but for its one Sigbash xpub and
\* an unused block count.
LEMMA PayloadShape ==
  ASSUME NEW w, Sound(w), SystemPayload(w) # Refused
  PROVE  LET c == w.signers
             n == Len(c)
             i == Place(w)
             e == SystemPayload(w)
         IN  /\ e = Encode(w, i) /\ HoldsPlaceholder(e)
             /\ e.network = w.network /\ e.sets = w.sets
             /\ e.recovery = [w.recovery EXCEPT !.blocks = IF w.recovery.decay THEN @ ELSE 0]
             /\ n \in Nat /\ DOMAIN c = 1 .. n /\ DOMAIN e.signers = 1 .. n
             /\ i \in 1 .. n /\ c[i].kind = Sigbash
             /\ \A k \in 1 .. n : k # i => c[k].kind # Sigbash /\ e.signers[k] = c[k]
             /\ e.signers[i] = [c[i] EXCEPT !.xpub = Placeholder]
             /\ e.signers = [k \in 1 .. n |-> IF k = i THEN [c[k] EXCEPT !.xpub = Placeholder]
                                              ELSE c[k]]
<1> DEFINE c == w.signers
           i == Place(w)
           e == SystemPayload(w)
<1>1. e = Payload(w) /\ Payload(w) # Refused /\ HoldsPlaceholder(e)
  BY DEF SystemPayload, TemplateValid
<1>2. PICK n \in Nat : n = Len(c) /\ DOMAIN c = 1 .. n
  BY LenProperties DEF Sound
<1>3. SigbashCount(c) = 1 /\ e = Encode(w, i)
  BY <1>1 DEF Payload, Place
<1>4. /\ \A x, y \in 1 .. n : IsSigbash(c[x]) /\ IsSigbash(c[y]) => x = y
      /\ \E x \in 1 .. n : IsSigbash(c[x])
  BY <1>2, <1>3, SigbashCounts
<1>5. i \in 1 .. n /\ c[i].kind = Sigbash
  BY <1>2, <1>4 DEF Place, IsSigbash
<1> HIDE DEF e, i
<1>6. \A k \in 1 .. n : k # i => c[k].kind # Sigbash
  BY <1>4, <1>5 DEF IsSigbash
<1>7. /\ e.network = w.network /\ e.sets = w.sets
      /\ e.recovery = [w.recovery EXCEPT !.blocks = IF w.recovery.decay THEN @ ELSE 0]
      /\ e.signers = [k \in 1 .. n |-> IF k = i THEN [c[k] EXCEPT !.xpub = Placeholder]
                                       ELSE c[k]]
  BY <1>2, <1>3 DEF Encode
<1>8. QED  BY <1>1, <1>2, <1>3, <1>5, <1>6, <1>7 DEF e, i

LEMMA PayloadPlace ==
  ASSUME NEW w, Sound(w), SystemPayload(w) # Refused
  PROVE  /\ Place(w) \in 1 .. Len(w.signers) /\ w.signers[Place(w)].kind = Sigbash
         /\ \A k \in 1 .. Len(w.signers) : k # Place(w) => w.signers[k].kind # Sigbash
BY PayloadShape

\* BuildAgain, of a wallet under its own name.
LEMMA BuiltAgain ==
  ASSUME NEW network, NEW a \in Seq(WalletSigner), NEW sa \in Seq(Seq(Nat)), NEW recovery,
         NEW w, w = Build(network, a, sa, recovery), IsWallet(w),
         NEW d \in Seq(WalletSigner), NEW other, RecoveryValid(other),
         Len(d) = Len(w.signers),
         \A k \in 1 .. Len(d) : Bare(d[k]) = Bare(w.signers[k])
  PROVE  /\ IsWallet(Build(network, d, w.sets, other))
         /\ Build(network, d, w.sets, other)
              = [network |-> network, signers |-> d, sets |-> w.sets, recovery |-> other]
BY BuildAgain

\* The template stands in the wallet's order: the placeholder is first, as
\* the only signer of its kind.
LEMMA PayloadCanonical ==
  ASSUME NEW w, Sound(w), SystemPayload(w) # Refused
  PROVE  Canonical(SystemPayload(w))
<1> DEFINE c == w.signers
           i == Place(w)
           e == SystemPayload(w)
<1>1. PICK n \in Nat : n = Len(c)
  BY PayloadShape
<1>2. /\ DOMAIN e.signers = 1 .. n
      /\ e.sets = w.sets
      /\ i \in 1 .. n /\ c[i].kind = Sigbash
      /\ \A k \in 1 .. n : k # i => c[k].kind # Sigbash /\ e.signers[k] = c[k]
      /\ e.signers[i] = [c[i] EXCEPT !.xpub = Placeholder]
  BY <1>1, PayloadShape
<1>3. \A k \in 1 .. n : c[k] \in WalletSigner
  BY <1>1, ElementOfSeq DEF Sound
<1>4. /\ \A k \in 2 .. n : SignerLess(c[k - 1], c[k])
      /\ \A k \in 2 .. Len(w.sets) : TupleLess(w.sets[k - 1], w.sets[k])
  BY <1>1 DEF Sound, Canonical
<1> DEFINE W == WalletSigner
           d == e.signers
<1>5. d \in [1 .. n -> W]
  <2>1. d = [k \in 1 .. n |-> IF k = i THEN [c[k] EXCEPT !.xpub = Placeholder] ELSE c[k]]
    BY <1>1, PayloadShape
  <2>2. [c[i] EXCEPT !.xpub = Placeholder] \in W
    BY <1>2, <1>3 DEF WalletSigner, Placeholder
  <2> HIDE DEF W, d, i, e
  <2>3. QED  BY <1>3, <2>1, <2>2 DEF W
<1>6. Len(d) = n
  <2> HIDE DEF W, d
  <2>1. QED  BY <1>5, FunctionIsSeq
<1> HIDE DEF i, e
<1>7. d[i].kind = Sigbash /\ \A k \in 1 .. n : k # i => d[k] = c[k]
  BY <1>2, <1>3 DEF WalletSigner
<1>8. ASSUME NEW k \in 2 .. n  PROVE SignerLess(d[k - 1], d[k])
  <2>1. k \in 1 .. n /\ k - 1 \in 1 .. n /\ k # k - 1
    OBVIOUS
  <2>2. SignerLess(c[k - 1], c[k])
    BY <1>4
  <2>3. c[k] \in WalletSigner /\ c[k - 1] \in WalletSigner
    BY <1>3, <2>1
  <2> HIDE DEF d
  <2>4. CASE k = i
    <3>1. c[k].kind = Sigbash /\ c[k - 1].kind # Sigbash
      BY <1>2, <2>1, <2>4
    <3>2. QED  BY <2>2, <3>1 DEF SignerLess, KindOrder
  <2>5. CASE k - 1 = i
    <3>1. d[k - 1].kind = Sigbash /\ d[k] = c[k] /\ c[k].kind # Sigbash
      BY <1>2, <1>7, <2>1, <2>5
    <3>2. QED  BY <3>1 DEF SignerLess, KindOrder
  <2>6. CASE k # i /\ k - 1 # i
    <3>1. d[k] = c[k] /\ d[k - 1] = c[k - 1]
      BY <1>7, <2>1, <2>6
    <3>2. QED  BY <2>2, <3>1
  <2>7. QED  BY <2>4, <2>5, <2>6
<1>9. QED  BY <1>2, <1>4, <1>6, <1>8 DEF Canonical, e

\* The template resolved with the wallet's own Sigbash xpub.
LEMMA DecodeSound ==
  ASSUME NEW s \in Sources, IsWallet(WalletOf[s]), SystemPayload(WalletOf[s]) # Refused,
         NEW origin \in Origin \cup {NoOrigin}
  PROVE  LET w == WalletOf[s]
             v == Decode(SystemPayload(w), w.signers[Place(w)].xpub, origin)
         IN  /\ IsWallet(v) /\ Canonical(v)
             /\ Spending(v) = Spending(w)
             /\ Fingerprint(v) = Fingerprint(w)
<1> DEFINE w == WalletOf[s]
           c == w.signers
           e == SystemPayload(w)
           i == Place(w)
           xpub == c[i].xpub
           d == Substitute(e, xpub, origin)
           other == e.recovery
           v == Decode(e, xpub, origin)
<1>1. Sound(w)
  BY WalletSound
<1>2. PICK n \in Nat : n = Len(c)
  BY <1>1, PayloadShape
<1>3. /\ HoldsPlaceholder(e)
      /\ e.network = w.network /\ e.sets = w.sets
      /\ other = [w.recovery EXCEPT !.blocks = IF w.recovery.decay THEN @ ELSE 0]
      /\ DOMAIN c = 1 .. n /\ DOMAIN e.signers = 1 .. n
      /\ i \in 1 .. n /\ c[i].kind = Sigbash
      /\ \A k \in 1 .. n : k # i => c[k].kind # Sigbash /\ e.signers[k] = c[k]
      /\ e.signers[i] = [c[i] EXCEPT !.xpub = Placeholder]
  BY <1>1, <1>2, PayloadShape
<1>4. \A k \in 1 .. n : c[k] \in WalletSigner
  BY <1>1, <1>2, ElementOfSeq DEF Sound
<1>5. v = Build(w.network, d, w.sets, other)
  BY <1>3 DEF Decode
<1>6. PICK a, sa, recovery : BuiltOf(s, a, sa, recovery)
  BY Constructs
<1>7. /\ w = Build(w.network, a, sa, recovery)
      /\ a \in Seq(WalletSigner) /\ sa \in Seq(Seq(Nat))
  <2>1. w.network = s.network
    BY WalletSound
  <2>2. QED  BY <1>6, <2>1 DEF BuiltOf
<1>8. IsWallet(w)
  OBVIOUS
<1>9. /\ w.recovery = [key |-> w.recovery.key, always |-> w.recovery.always,
                       decay |-> w.recovery.decay, blocks |-> w.recovery.blocks]
      /\ w.recovery.always \in BOOLEAN /\ w.recovery.decay \in BOOLEAN
      /\ RecoveryValid(w.recovery)
  BY <1>1 DEF Sound, Recovery
<1> HIDE DEF w
<1>10. other = [key |-> w.recovery.key, always |-> w.recovery.always,
                decay |-> w.recovery.decay,
                blocks |-> IF w.recovery.decay THEN w.recovery.blocks ELSE 0]
  BY <1>3, <1>9
<1>11. d = [k \in 1 .. n |-> IF k = i THEN [c[i] EXCEPT !.xpub = xpub,
                                              !.origin = IF origin = NoOrigin THEN @ ELSE origin]
                             ELSE c[k]]
  <2>1. d = [k \in 1 .. n |->
              IF e.signers[k].kind # Sigbash \/ e.signers[k].xpub # Placeholder
              THEN e.signers[k]
              ELSE [e.signers[k] EXCEPT !.xpub = xpub,
                                        !.origin = IF origin = NoOrigin THEN @ ELSE origin]]
    BY <1>3 DEF Substitute
  <2>2. c[i] = [kind |-> c[i].kind, xpub |-> c[i].xpub, policyKeyId |-> c[i].policyKeyId,
                origin |-> c[i].origin]
    BY <1>3, <1>4 DEF WalletSigner
  <2> HIDE DEF e, i, c, xpub
  <2>3. e.signers[i] = [kind |-> c[i].kind, xpub |-> Placeholder,
                        policyKeyId |-> c[i].policyKeyId, origin |-> c[i].origin]
    BY <1>3, <2>2
  <2>4. [e.signers[i] EXCEPT !.xpub = xpub,
                             !.origin = IF origin = NoOrigin THEN @ ELSE origin]
          = [c[i] EXCEPT !.xpub = xpub, !.origin = IF origin = NoOrigin THEN @ ELSE origin]
    <3>1. PICK y, z : y = c[i] /\ z = e.signers[i]
      OBVIOUS
    <3>2. PICK y1, z1 : y1 = [y EXCEPT !.xpub = xpub] /\ z1 = [z EXCEPT !.xpub = xpub]
      OBVIOUS
    <3>3. /\ y1 = [kind |-> c[i].kind, xpub |-> xpub, policyKeyId |-> c[i].policyKeyId,
                   origin |-> c[i].origin]
          /\ z1 = [kind |-> c[i].kind, xpub |-> xpub, policyKeyId |-> c[i].policyKeyId,
                   origin |-> c[i].origin]
      BY ONLY <2>2, <2>3, <3>1, <3>2
    <3>4. /\ [y EXCEPT !.xpub = xpub, !.origin = IF origin = NoOrigin THEN @ ELSE origin]
              = [y1 EXCEPT !.origin = IF origin = NoOrigin THEN @ ELSE origin]
          /\ [z EXCEPT !.xpub = xpub, !.origin = IF origin = NoOrigin THEN @ ELSE origin]
              = [z1 EXCEPT !.origin = IF origin = NoOrigin THEN @ ELSE origin]
      BY ONLY <3>2, <2>2, <2>3, <3>1
    <3>5. y1 = z1
      BY ONLY <3>3
    <3>6. QED  BY ONLY <3>1, <3>4, <3>5
  <2>5. e.signers[i].kind = Sigbash /\ e.signers[i].xpub = Placeholder
    BY <1>3, <2>3
  <2>6. ASSUME NEW k \in 1 .. n
        PROVE  (IF e.signers[k].kind # Sigbash \/ e.signers[k].xpub # Placeholder
                THEN e.signers[k]
                ELSE [e.signers[k] EXCEPT !.xpub = xpub,
                                          !.origin = IF origin = NoOrigin THEN @ ELSE origin])
               = (IF k = i THEN [c[i] EXCEPT !.xpub = xpub,
                                             !.origin = IF origin = NoOrigin THEN @ ELSE origin]
                  ELSE c[k])
    <3>1. CASE k = i
      BY <2>4, <2>5, <3>1
    <3>2. CASE k # i
      BY <1>3, <3>2
    <3>3. QED  BY <3>1, <3>2
  <2> HIDE DEF d
  <2>7. QED  BY ONLY <2>1, <2>6
<1> DEFINE W == WalletSigner
           x == [c[i] EXCEPT !.xpub = xpub, !.origin = IF origin = NoOrigin THEN @ ELSE origin]
<1>12. x \in W /\ x.kind = Sigbash /\ Bare(x) = Bare(c[i])
  <2>1. c[i] \in WalletSigner /\ c[i].kind = Sigbash
    BY <1>3, <1>4
  <2> DEFINE y == c[i]
  <2>2. y \in WalletSigner /\ y.kind = Sigbash /\ x = [y EXCEPT !.xpub = y.xpub,
                                   !.origin = IF origin = NoOrigin THEN @ ELSE origin]
    BY <2>1
  <2> HIDE DEF y, x
  <2>3. x = [kind |-> y.kind, xpub |-> y.xpub, policyKeyId |-> y.policyKeyId,
             origin |-> IF origin = NoOrigin THEN y.origin ELSE origin]
    BY ONLY <2>2 DEF WalletSigner
  <2>4. x \in WalletSigner
    BY <2>2, <2>3 DEF WalletSigner
  <2>5. x.kind = y.kind /\ x.xpub = y.xpub /\ x.policyKeyId = y.policyKeyId
    BY ONLY <2>3
  <2>6. Bare(x) = Bare(y)
    BY ONLY <2>2, <2>4, <2>5, BareEqual
  <2>7. QED  BY <2>2, <2>4, <2>5, <2>6 DEF y
<1> HIDE DEF x, d, W, i
<1>13. \A k \in 1 .. n : d[k] = IF k = i THEN x ELSE c[k]
  BY <1>11 DEF x
<1>14. d \in [1 .. n -> W]
  <2>1. d = [k \in 1 .. n |-> IF k = i THEN x ELSE c[k]]
    BY <1>11 DEF x
  <2>2. QED  BY <1>4, <1>12, <2>1 DEF W
<1>15. d \in Seq(W) /\ Len(d) = n
  BY <1>14, FunctionIsSeq
<1>16. \A k \in 1 .. n : Bare(d[k]) = Bare(c[k])
  BY <1>12, <1>13
<1>17. RecoveryValid(other)
  <2>1. CASE w.recovery = NoRecovery
    <3>1. other = NoRecovery
      BY <1>10, <2>1 DEF NoRecovery
    <3>2. QED  BY <3>1 DEF RecoveryValid
  <2>2. CASE w.recovery.always /\ (w.recovery.decay => w.recovery.blocks \in 1 .. MaxDecay)
    <3> HIDE DEF other
    <3>1. other.always = w.recovery.always /\ other.decay = w.recovery.decay
          /\ (w.recovery.decay => other.blocks = w.recovery.blocks)
      BY <1>10
    <3>2. QED  BY <2>2, <3>1 DEF RecoveryValid
  <2>3. QED  BY <1>9, <2>1, <2>2 DEF RecoveryValid
<1>18. Recovery(other)
  <2> HIDE DEF other
  <2>1. QED  BY <1>9, <1>10 DEF Recovery
<1> HIDE DEF c, e, other, xpub
<1>19. IsWallet(v) /\ v = [network |-> w.network, signers |-> d, sets |-> w.sets,
                           recovery |-> other]
  <2>1. Len(d) = Len(w.signers) /\ \A k \in 1 .. Len(d) : Bare(d[k]) = Bare(w.signers[k])
    BY <1>2, <1>15, <1>16 DEF c
  <2>2. d \in Seq(WalletSigner)
    BY <1>15 DEF W
  <2> HIDE DEF v
  <2>3. /\ IsWallet(Build(w.network, d, w.sets, other))
        /\ Build(w.network, d, w.sets, other)
             = [network |-> w.network, signers |-> d, sets |-> w.sets, recovery |-> other]
    BY ONLY <1>7, <1>8, <1>17, <2>1, <2>2, BuiltAgain
  <2>4. QED  BY <1>5, <2>3
<1> HIDE DEF v
<1>20. v.network = w.network /\ v.signers = d /\ v.sets = w.sets /\ v.recovery = other
  BY <1>19
<1>21. Canonical(v)
  <2>1. w.sets \in Seq(Seq(Nat)) /\ d \in Seq(WalletSigner)
    BY <1>1, <1>15 DEF Sound, W
  <2>2. QED  BY <1>5, <1>19, <2>1, BuiltCanonical
<1>22. RecoveryScripts(other) = RecoveryScripts(w.recovery)
  <2>1. other.key = w.recovery.key /\ other.always = w.recovery.always
        /\ other.decay = w.recovery.decay
        /\ (w.recovery.decay => other.blocks = w.recovery.blocks)
    BY <1>10
  <2>2. QED  BY <2>1 DEF RecoveryScripts
<1>23. Fingerprint(v) = Fingerprint(w)
  <2>1. v.signers \in Seq(WalletSigner) /\ Len(v.signers) = Len(w.signers)
        /\ \A k \in 1 .. Len(v.signers) : Bare(v.signers[k]) = Bare(w.signers[k])
    BY <1>2, <1>15, <1>16, <1>20 DEF W, c
  <2>2. QED  BY <1>1, <1>20, <1>22, <2>1, FingerprintBare
<1>24. Spending(v) = Spending(w)
  <2> DEFINE bare(t) == [k \in 1 .. n |-> IF t[k].kind = Sigbash
                                          THEN [t[k] EXCEPT !.origin = NoOrigin] ELSE t[k]]
             short(r) == [r EXCEPT !.blocks = IF r.decay THEN @ ELSE 0]
  <2>1. DOMAIN d = 1 .. n /\ DOMAIN c = 1 .. n
    BY <1>3, <1>14
  <2>2. bare(d) = bare(c)
    <3>1. ASSUME NEW k \in 1 .. n
          PROVE  (IF d[k].kind = Sigbash THEN [d[k] EXCEPT !.origin = NoOrigin] ELSE d[k])
                 = (IF c[k].kind = Sigbash THEN [c[k] EXCEPT !.origin = NoOrigin] ELSE c[k])
      <4>1. CASE k = i
        <5>1. d[k] = x /\ c[k].kind = Sigbash /\ Bare(x) = Bare(c[k])
          BY <1>3, <1>12, <1>13, <4>1
        <5>2. QED  BY <1>12, <5>1 DEF Bare
      <4>2. CASE k # i
        BY <1>13, <4>2
      <4>3. QED  BY <4>1, <4>2
    <3>2. QED  BY ONLY <3>1
  <2>3. short(other) = short(w.recovery)
    BY <1>9, <1>10
  <2>4. w = [network |-> w.network, signers |-> c, sets |-> w.sets, recovery |-> w.recovery]
    BY <1>1 DEF Sound, c
  <2>6. ASSUME NEW u, NEW t, NEW r, DOMAIN t = 1 .. n,
               u = [network |-> w.network, signers |-> t, sets |-> w.sets, recovery |-> r]
        PROVE  Spending(u) = [network |-> w.network, signers |-> bare(t), sets |-> w.sets,
                              recovery |-> short(r)]
    <3>1. u.network = w.network /\ u.signers = t /\ u.sets = w.sets /\ u.recovery = r
      BY <2>6
    <3>2. QED  BY <2>6, <3>1 DEF Spending
  <2>7. Spending(w) = [network |-> w.network, signers |-> bare(c), sets |-> w.sets,
                       recovery |-> short(w.recovery)]
    <3> HIDE DEF bare, short
    <3>1. QED  BY ONLY <2>1, <2>4, <2>6
  <2>8. Spending(v) = [network |-> w.network, signers |-> bare(d), sets |-> w.sets,
                       recovery |-> short(other)]
    <3> HIDE DEF bare, short
    <3>1. QED  BY ONLY <1>19, <2>1, <2>6
  <2> HIDE DEF bare, short
  <2>9. QED  BY ONLY <2>2, <2>3, <2>7, <2>8
<1>25. QED  BY <1>19, <1>21, <1>23, <1>24 DEF v, e, xpub, c, i, w

-----------------------------------------------------------------------------
(* What the application holds now, and what the template was made of.      *)

\* Every order the intent was held in is the intent.
LEMMA HeldSound ==
  ASSUME source \in Sources, NEW s \in Held
  PROVE  /\ s \in Sources
         /\ s = source \/ SameIntent(s, source)
         /\ DigestOf[s] = DigestOf[source]
<1>1. CASE s = source
  BY <1>1
<1>2. CASE s \in Presentations[source]
  <2>1. s \in Sources /\ SameIntent(s, source)
    BY <1>2, PresentationsKept, SameIntentSymmetric
  <2>2. QED  BY <2>1, DigestKept
<1>3. QED  BY <1>1, <1>2 DEF Held

\* Rebuilding the intent changes nothing of the orders it may be held in.
LEMMA HeldAgain ==
  ASSUME source \in Sources, Rebuild
  PROVE  /\ source' \in Sources /\ Held' = Held
         /\ source.by = "staged" /\ source'.by = "staged"
         /\ DigestOf[source'] = DigestOf[source]
<1>1. source' \in Presentations[source]
  BY DEF Rebuild
<1>2. /\ source' \in Sources /\ SameIntent(source, source')
      /\ source \in Presentations[source'] /\ source' \in Presentations[source']
      /\ Presentations[source'] = Presentations[source]
  BY <1>1, PresentationsKept
<1>3. Held' = Held
  BY <1>1, <1>2 DEF Held
<1>4. source.by = "staged" /\ source'.by = "staged"
  BY <1>2 DEF SameIntent
<1>5. DigestOf[source'] = DigestOf[source]
  BY <1>2, DigestKept
<1>6. QED  BY <1>2, <1>3, <1>4, <1>5

\* The xpub a signing reads from the intent is the one the template left out.
LEMMA OwnXpub ==
  ASSUME NEW s \in Sources, NEW t \in Sources, s = t \/ SameIntent(s, t),
         IsWallet(WalletOf[s]), SystemPayload(WalletOf[s]) # Refused
  PROVE  (CHOOSE x \in ToSet(t.signers) : x.kind = Sigbash).xpub
           = WalletOf[s].signers[Place(WalletOf[s])].xpub
<1> DEFINE c == WalletOf[s].signers
           d == WalletOf[t].signers
           i == Place(WalletOf[s])
<1>1. PICK n \in Nat : n = Len(t.signers) /\ DOMAIN t.signers = 1 .. n
  BY SourceType
<1>2. /\ IsWallet(WalletOf[t]) /\ Len(c) = Len(d)
      /\ \A k \in 1 .. Len(c) : Bare(c[k]) = Bare(d[k])
  <2>1. CASE s = t
    BY <2>1
  <2>2. CASE SameIntent(s, t)
    BY <2>2, StagedAlike DEF SameButOrigins
  <2>3. QED  BY <2>1, <2>2
<1>3. /\ Sound(WalletOf[s])
      /\ c \in Seq(WalletSigner) /\ d \in Seq(WalletSigner)
      /\ Len(d) = n /\ Len(c) = n
  <2>1. Sound(WalletOf[s]) /\ Sound(WalletOf[t]) /\ Len(d) = n
    BY <1>1, <1>2, WalletSound
  <2>2. c \in Seq(WalletSigner) /\ d \in Seq(WalletSigner)
    BY <2>1 DEF Sound
  <2>3. QED  BY <1>2, <2>1, <2>2
<1>4. /\ i \in 1 .. n /\ c[i].kind = Sigbash
      /\ \A k \in 1 .. n : k # i => c[k].kind # Sigbash
  <2>1. SystemPayload(WalletOf[s]) # Refused
    OBVIOUS
  <2>2. QED  BY ONLY <1>3, <2>1, PayloadPlace
<1>5. /\ \A x \in 1 .. n : \E y \in 1 .. n :
           IsSigbash(t.signers[x]) => IsSigbash(d[y]) /\ d[y].xpub = t.signers[x].xpub
      /\ \A y \in 1 .. n : \E x \in 1 .. n :
           IsSigbash(d[y]) => IsSigbash(t.signers[x]) /\ d[y].xpub = t.signers[x].xpub
  BY <1>1, <1>2, SigbashKept
<1> HIDE DEF c, d, i
<1>6. \A k \in 1 .. n : c[k] \in WalletSigner /\ d[k] \in WalletSigner
  BY <1>3, ElementOfSeq
<1>7. \A k \in 1 .. n : (IsSigbash(c[k]) <=> IsSigbash(d[k])) /\ c[k].xpub = d[k].xpub
  BY <1>2, <1>3, <1>6, BareEqual DEF IsSigbash
<1>8. IsSigbash(d[i]) /\ \A k \in 1 .. n : IsSigbash(d[k]) => k = i
  BY <1>4, <1>7 DEF IsSigbash
<1>9. \A x \in 1 .. n : IsSigbash(t.signers[x]) => t.signers[x].xpub = c[i].xpub
  <2>1. SUFFICES ASSUME NEW x \in 1 .. n, IsSigbash(t.signers[x])
                 PROVE  t.signers[x].xpub = c[i].xpub
    OBVIOUS
  <2>2. PICK y \in 1 .. n : IsSigbash(d[y]) /\ d[y].xpub = t.signers[x].xpub
    BY <1>5, <2>1
  <2>3. QED  BY <1>4, <1>7, <1>8, <2>2
<1>10. \E x \in 1 .. n : IsSigbash(t.signers[x])
  BY <1>4, <1>5, <1>8
<1>11. ToSet(t.signers) = {t.signers[k] : k \in 1 .. n}
  BY <1>1 DEF ToSet
<1>12. \E x \in ToSet(t.signers) : x.kind = Sigbash
  BY <1>10, <1>11 DEF IsSigbash
<1>13. PICK x \in ToSet(t.signers) :
         x = (CHOOSE z \in ToSet(t.signers) : z.kind = Sigbash) /\ x.kind = Sigbash
  BY <1>12
<1>14. x.xpub = c[i].xpub
  BY <1>9, <1>11, <1>13 DEF IsSigbash
<1>15. QED  BY <1>13, <1>14 DEF c, i

\* The inductive invariant of the template, over Provisioned.
Restorable == Provisioned /\ TemplateSound /\ ResolvedSound

LEMMA RestorableInit == Init => Restorable
<1>1. Init => TemplateSound /\ ResolvedSound
  BY DEF Init, TemplateSound, ResolvedSound, TemplateRestores
<1>2. QED  BY <1>1, ProvisionedInit DEF Restorable

\* Nothing but Store, Resolve and Rebuild touches what they are about.
LEMMA RestorableIdle ==
  ASSUME TemplateSound, ResolvedSound, UNCHANGED <<source, template, resolved>>
  PROVE  TemplateSound' /\ ResolvedSound'
<1>1. Held' = Held
  BY DEF Held
<1>2. TemplateSound'
  BY <1>1 DEF TemplateSound
<1>3. ResolvedSound'
  BY DEF ResolvedSound, TemplateRestores
<1>4. QED  BY <1>2, <1>3

LEMMA RebuildRestorable ==
  ASSUME Restorable, Rebuild
  PROVE  TemplateSound' /\ ResolvedSound'
<1>1. /\ source' \in Sources /\ Held' = Held /\ source'.by = "staged"
      /\ DigestOf[source'] = DigestOf[source]
  BY HeldAgain DEF Restorable, Provisioned
<1>2. template' = template /\ resolved' = resolved
  BY DEF Rebuild
<1>3. TemplateSound'
  BY <1>1, <1>2 DEF Restorable, TemplateSound
<1>4. ResolvedSound'
  BY <1>1, <1>2 DEF Restorable, ResolvedSound, TemplateRestores
<1>5. QED  BY <1>3, <1>4

LEMMA StoreRestorable ==
  ASSUME Restorable, Store
  PROVE  TemplateSound' /\ ResolvedSound'
<1>1. /\ IsWallet(WalletOf[source]) /\ template' = SystemPayload(WalletOf[source])
      /\ template' # Refused /\ source' = source /\ resolved' = resolved
  BY DEF Store
<1>2. source \in Held /\ Held' = Held
  BY <1>1 DEF Held
<1>3. TemplateSound'
  BY <1>1, <1>2 DEF TemplateSound
<1>4. ResolvedSound'
  BY <1>1 DEF Restorable, ResolvedSound, TemplateRestores
<1>5. QED  BY <1>3, <1>4

LEMMA ResolveRestorable ==
  ASSUME Restorable, Resolve
  PROVE  TemplateSound' /\ ResolvedSound'
<1> DEFINE xpub == (CHOOSE x \in ToSet(source.signers) : x.kind = Sigbash).xpub
<1>1. /\ template # None /\ template' = template /\ source' = source
      /\ source \in Sources
  BY DEF Resolve, Restorable, Provisioned
<1>2. PICK origin \in Origin \cup {NoOrigin} : resolved' = Decode(template, xpub, origin)
  BY DEF Resolve
<1>3. PICK s \in Held : /\ IsWallet(WalletOf[s]) /\ template = SystemPayload(WalletOf[s])
                        /\ template # Refused
  BY <1>1 DEF Restorable, TemplateSound
<1>4. /\ s \in Sources
      /\ s = source \/ SameIntent(s, source)
      /\ DigestOf[s] = DigestOf[source]
  BY <1>1, <1>3, HeldSound
<1>5. xpub = WalletOf[s].signers[Place(WalletOf[s])].xpub
  BY <1>1, <1>3, <1>4, OwnXpub
<1> HIDE DEF xpub
<1>6. /\ IsWallet(resolved') /\ Canonical(resolved')
      /\ Spending(resolved') = Spending(WalletOf[s])
      /\ Fingerprint(resolved') = Fingerprint(WalletOf[s])
  BY <1>2, <1>3, <1>4, <1>5, DecodeSound
<1>7. Fingerprint(resolved') = DigestOf[source]
  BY <1>3, <1>4, <1>6 DEF DigestOf
<1>8. source.by # "staged" => Spending(resolved') = Spending(WalletOf[source])
  BY <1>4, <1>6 DEF SameIntent
<1>9. TemplateSound'
  BY <1>1 DEF Restorable, TemplateSound, Held
<1>10. ResolvedSound'
  BY <1>1, <1>6, <1>7, <1>8 DEF ResolvedSound, TemplateRestores
<1>11. QED  BY <1>9, <1>10

\* The template's invariant is inductive over Provisioned.
LEMMA RestorableStep == Restorable /\ [Next]_vars => Restorable'
<1> SUFFICES ASSUME Restorable, [Next]_vars  PROVE Restorable'
  OBVIOUS
<1>1. TemplateSound' /\ ResolvedSound'
  <2>1. CASE Rebuild \/ Store \/ Resolve
    BY <2>1, RebuildRestorable, StoreRestorable, ResolveRestorable
  <2>2. CASE UNCHANGED <<source, template, resolved>>
    BY <2>2, RestorableIdle DEF Restorable
  <2>3. CASE CreateReservation \/ Assemble \/ Compile \/ Advance
    BY <2>2, <2>3 DEF CreateReservation, Assemble, Compile, Advance, Send
  <2>4. CASE Serve \/ ServeLate \/ Returns \/ Lose
    BY <2>2, <2>4 DEF Serve, ServeLate, Returns, Lose
  <2>5. CASE \E r \in Reservation : Expire(r)
    BY <2>2, <2>5 DEF Expire
  <2>6. CASE UNCHANGED vars
    BY <2>2, <2>6 DEF vars
  <2>7. QED  BY <2>1, <2>3, <2>4, <2>5, <2>6 DEF Next
<1>2. QED  BY <1>1, ProvisionedStep DEF Restorable

LEMMA AlwaysRestorable == Spec => []Restorable
BY RestorableInit, RestorableStep, PTL DEF Spec

-----------------------------------------------------------------------------
(* The tree of a wallet and its leaves.                                    *)

\* Sorted sets that hold the same indices are one.
LEMMA OneAscending ==
  ASSUME NEW x \in Seq(Nat), NEW y \in Seq(Nat), Ascending(x) = x, Ascending(y) = y,
         IsInjective(x), IsInjective(y), ToSet(x) = ToSet(y)
  PROVE  x = y
<1>1. PICK n \in Nat : n = Len(x) /\ DOMAIN x = 1 .. n
  BY LenProperties
<1>2. PICK m \in Nat : m = Len(y) /\ DOMAIN y = 1 .. m
  BY LenProperties
<1>3. Strictly(Upwards, n, x) /\ Strictly(Upwards, m, y)
  BY <1>1, <1>2, AscendingStrict
<1>4. SameElements(n, x, m, y)
  <2>1. {x[i] : i \in 1 .. n} = {y[i] : i \in 1 .. m}
    BY <1>1, <1>2 DEF ToSet
  <2>2. QED  BY ONLY <2>1 DEF SameElements
<1>5. n = m /\ \A k \in 1 .. n : x[k] = y[k]
  BY ONLY <1>3, <1>4, n \in Nat, m \in Nat, OneArrangement
<1>6. QED  BY <1>1, <1>2, <1>5, SeqEqual

\* A wallet built of roots that differ has a tree at every derivation.
LEMMA BuiltPlantable ==
  ASSUME NEW network, NEW a \in Seq(WalletSigner), NEW sa \in Seq(Seq(Nat)), NEW recovery,
         NEW w, w = Build(network, a, sa, recovery), IsWallet(w), RootsDiffer(w)
  PROVE  Plantable(w)
<1> DEFINE U == Seq(Nat)
<1>1. /\ w.signers \in Seq(WalletSigner)
      /\ w.sets \in Seq(U) /\ Len(w.sets) = Len(sa)
      /\ Distinct(Len(sa), w.sets)
      /\ Len(sa) \in 1 .. MaxSets
  <2>1. /\ w.signers \in Seq(WalletSigner)
        /\ w.sets \in Seq(Seq(Nat)) /\ Len(w.sets) = Len(sa)
        /\ Distinct(Len(sa), w.sets)
        /\ Accepted(network, a, sa, recovery)
    BY BuiltWallet
  <2>2. Len(sa) \in 1 .. MaxSets
    BY <2>1 DEF Accepted
  <2>3. QED  BY <2>1, <2>2
<1>2. \A i \in 1 .. Len(w.sets) :
        w.sets[i] \in U /\ SetValid(w.signers, w.sets[i]) /\ Ascending(w.sets[i]) = w.sets[i]
  BY BuiltSets
<1> HIDE DEF U
<1>3. PICK m \in Nat : m = Len(w.sets) /\ DOMAIN w.sets = 1 .. m /\ m > 0
  BY <1>1, LenProperties
<1>4. DOMAIN w.signers = 1 .. Len(w.signers)
  BY <1>1, LenProperties
<1>5. \A i, j \in 1 .. Len(w.signers) :
        RootOf[w.signers[i].xpub] = RootOf[w.signers[j].xpub] => i = j
  BY <1>4 DEF RootsDiffer
<1>6. ASSUME NEW j \in 1 .. m, NEW k \in 1 .. m, ToSet(w.sets[j]) = ToSet(w.sets[k])
      PROVE  j = k
  <2>1. PICK x, y : x = w.sets[j] /\ y = w.sets[k]
    OBVIOUS
  <2>2. /\ x \in U /\ SetValid(w.signers, x) /\ Ascending(x) = x
        /\ y \in U /\ SetValid(w.signers, y) /\ Ascending(y) = y
    BY <1>2, <1>3, <2>1
  <2>3. IsInjective(x) /\ IsInjective(y) /\ ToSet(x) = ToSet(y)
    BY <1>6, <2>1, <2>2 DEF SetValid
  <2>4. x = y
    BY ONLY <2>2, <2>3, OneAscending DEF U
  <2>5. QED  BY <1>1, <1>3, <2>1, <2>4 DEF Distinct
<1>7. QED  BY <1>1, <1>2, <1>3, <1>5, <1>6 DEF Plantable, U

LEMMA SourcePlantable ==
  ASSUME NEW s \in Sources, IsWallet(WalletOf[s]), RootsDiffer(WalletOf[s])
  PROVE  Plantable(WalletOf[s])
<1>1. PICK a, sa, recovery : BuiltOf(s, a, sa, recovery)
  BY Constructs
<1>2. PICK w : w = WalletOf[s]
  OBVIOUS
<1>3. /\ w = Build(s.network, a, sa, recovery)
      /\ a \in Seq(WalletSigner) /\ sa \in Seq(Seq(Nat))
      /\ IsWallet(w) /\ RootsDiffer(w)
  BY <1>1, <1>2 DEF BuiltOf
<1>4. Plantable(w)
  BY ONLY <1>3, BuiltPlantable
<1>5. QED  BY <1>2, <1>4

\* The leaves of a tree demand what the wallet allows.
LEMMA LeavesDemand ==
  ASSUME NEW w, Plantable(w), RecoveryValid(w.recovery),
         NEW b \in Branches, NEW x \in 0 .. MaxIndex
  PROVE  LET tree == Tree(w, b, x)
         IN  {tree.leaves[k].script.keys : k \in DOMAIN tree.leaves} = Spendable(w, b, x)
<1> DEFINE all == Scripts(w, b, x)
           own == {SetScript(w, w.sets[k], b, x) : k \in DOMAIN w.sets}
           rec == RecoveryScripts(w.recovery)
           n == Cardinality(all)
           leaves == ByHash(all)
           listed == Tree(w, b, x).leaves
<1>1. /\ n \in Nat /\ DOMAIN listed = 1 .. n
      /\ \A k \in 1 .. n : listed[k].script = leaves[k]
      /\ Covered(leaves, <<0, n>>) = all
  <2> HIDE DEF all, leaves, listed, n
  <2>1. PICK tree : tree = Tree(w, b, x)
    OBVIOUS
  <2>2. Grown(tree, all, n, leaves) /\ listed = tree.leaves
    BY <2>1, TreeFacts DEF all, leaves, listed, n
  <2>3. /\ n \in Nat \ {0} /\ DOMAIN tree.leaves = 1 .. n
        /\ \A k \in 1 .. n : tree.leaves[k].script = leaves[k]
        /\ Covered(leaves, <<0, n>>) = all
    BY <2>2 DEF Grown
  <2>4. QED  BY <2>2, <2>3
<1>2. all = {leaves[k] : k \in 1 .. n}
  <2>1. <<0, n>>[1] + 1 .. <<0, n>>[2] = 1 .. n
    BY <1>1
  <2> HIDE DEF all, leaves
  <2>2. QED  BY <1>1, <2>1 DEF Covered
<1>3. all = own \cup rec
  BY ScriptsFacts
<1>4. \A k \in DOMAIN w.sets :
        SetScript(w, w.sets[k], b, x).keys = KeysOf(w, w.sets[k], b, x)
  BY ONLY Plantable(w), SetScriptFacts
<1>5. {s.keys : s \in own} = {KeysOf(w, w.sets[k], b, x) : k \in DOMAIN w.sets}
  BY <1>4
<1>6. {s.keys : s \in rec} = IF w.recovery = NoRecovery THEN {} ELSE {{<<w.recovery.key>>}}
  <2>1. CASE w.recovery = NoRecovery
    <3>1. ~w.recovery.always /\ ~w.recovery.decay
      BY <2>1 DEF NoRecovery
    <3>2. rec = {}
      BY <3>1, RecoveryFacts
    <3> HIDE DEF rec
    <3>3. QED  BY <2>1, <3>2
  <2>2. CASE w.recovery # NoRecovery
    <3>1. w.recovery.always
      BY <2>2 DEF RecoveryValid
    <3>2. {s.keys : s \in RecoveryScripts(w.recovery)} = {{<<w.recovery.key>>}}
      BY <3>1, RecoveryFacts
    <3>3. QED  BY <2>2, <3>2
  <2>3. QED  BY <2>1, <2>2
<1> HIDE DEF all, own, rec, leaves, listed, n
<1>7. {listed[k].script.keys : k \in DOMAIN listed} = {s.keys : s \in all}
  BY <1>1, <1>2
<1>8. {s.keys : s \in all} = {s.keys : s \in own} \cup {s.keys : s \in rec}
  BY <1>3
<1>9. Spendable(w, b, x) = {KeysOf(w, w.sets[k], b, x) : k \in DOMAIN w.sets}
         \cup (IF w.recovery = NoRecovery THEN {} ELSE {{<<w.recovery.key>>}})
  BY DEF Spendable, KeysOf
<1>10. QED  BY <1>5, <1>6, <1>7, <1>8, <1>9 DEF listed

LEMMA LeavesAreSound ==
  ASSUME NEW w, RootsDiffer(w) => Plantable(w), RecoveryValid(w.recovery)
  PROVE  LeavesSound(w)
<1> SUFFICES ASSUME RootsDiffer(w), NEW b \in Branches, NEW x \in 0 .. MaxIndex
             PROVE  LET tree == Tree(w, b, x)
                    IN  /\ tree # Refused
                        /\ \A k \in DOMAIN tree.leaves :
                             Climb(Leaf(tree.leaves[k].script), tree.leaves[k].path) = tree.root
                        /\ {tree.leaves[k].script.keys : k \in DOMAIN tree.leaves}
                             = Spendable(w, b, x)
                        /\ Len(tree.leaves)
                             = Len(w.sets) + Cardinality(RecoveryScripts(w.recovery))
  BY DEF LeavesSound
<1>1. Plantable(w)
  OBVIOUS
<1>2. PICK all, n, leaves : all = Scripts(w, b, x) /\ n = Cardinality(all) /\ leaves = ByHash(all)
  OBVIOUS
<1>3. n = Len(w.sets) + Cardinality(RecoveryScripts(w.recovery))
  BY <1>1, <1>2, ScriptsFacts
<1>4. PICK tree : tree = Tree(w, b, x)
  OBVIOUS
<1>5. /\ tree # Refused /\ DOMAIN tree.leaves = 1 .. n /\ Len(tree.leaves) = n
      /\ \A k \in 1 .. n :
           Climb(Leaf(tree.leaves[k].script), tree.leaves[k].path) = tree.root
  <2>1. Grown(tree, all, n, leaves)
    BY <1>1, <1>2, <1>4, TreeFacts
  <2>2. QED  BY <2>1 DEF Grown
<1>6. {tree.leaves[k].script.keys : k \in DOMAIN tree.leaves} = Spendable(w, b, x)
  BY <1>1, <1>4, LeavesDemand
<1>7. QED  BY <1>3, <1>4, <1>5, <1>6

\* The candidates are numbered branch by branch, index by index.
LEMMA CandidateNumbers ==
  /\ \A i \in 0 .. CandidateCount - 1 :
       CandidateBranch(i) \in Branches /\ CandidateIndex(i) \in 0 .. MaxIndex
  /\ \A i, j \in 0 .. CandidateCount - 1 :
       CandidateBranch(i) = CandidateBranch(j) /\ CandidateIndex(i) = CandidateIndex(j)
         => i = j
  /\ \A b \in Branches, x \in 0 .. MaxIndex :
       \E i \in 0 .. CandidateCount - 1 : CandidateBranch(i) = b /\ CandidateIndex(i) = x
<1> USE IndexAssumption
        DEF CandidateCount, PerBranch, CandidateBranch, CandidateIndex, Branches, Receive, Change
<1>1. \A i \in 0 .. CandidateCount - 1 :
        CandidateBranch(i) \in Branches /\ CandidateIndex(i) \in 0 .. MaxIndex
  OBVIOUS
<1>2. \A i, j \in 0 .. CandidateCount - 1 :
        CandidateBranch(i) = CandidateBranch(j) /\ CandidateIndex(i) = CandidateIndex(j)
          => i = j
  OBVIOUS
<1>3. ASSUME NEW b \in Branches, NEW x \in 0 .. MaxIndex
      PROVE  \E i \in 0 .. CandidateCount - 1 : CandidateBranch(i) = b /\ CandidateIndex(i) = x
  <2>1. CASE b = 0
    <3>1. x \in 0 .. CandidateCount - 1 /\ CandidateBranch(x) = b /\ CandidateIndex(x) = x
      BY <2>1
    <3>2. QED  BY ONLY <3>1
  <2>2. CASE b = 1
    <3> DEFINE i == x + PerBranch
    <3>1. i \in 0 .. CandidateCount - 1 /\ CandidateBranch(i) = b /\ CandidateIndex(i) = x
      BY <2>2
    <3>2. QED  BY ONLY <3>1
  <2>3. QED  BY <2>1, <2>2
<1>4. QED  BY <1>1, <1>2, <1>3

LEMMA CandidatesAreSound ==
  ASSUME NEW w, RootsDiffer(w) => Plantable(w)
  PROVE  CandidatesSound(w)
<1> DEFINE universe == 0 .. CandidateCount - 1
           keyOf == [i \in universe |-> Candidate(w, i)]
           addresses == AddressesOf(w)
<1> SUFFICES ASSUME RootsDiffer(w)
             PROVE  IsInjective(keyOf) /\ {keyOf[i] : i \in universe} = addresses
  BY Zenon DEF CandidatesSound
<1>1. Plantable(w)
  OBVIOUS
<1>2. ASSUME NEW b \in Branches, NEW x \in 0 .. MaxIndex
      PROVE  Tree(w, b, x) # Refused
             /\ Tree(w, b, x).outputKey = [tag |-> "TapTweak", of |-> {Tree(w, b, x).root}]
  <2>1. PICK tree, all, n, leaves : Grown(tree, all, n, leaves) /\ tree = Tree(w, b, x)
    BY <1>1, TreeFacts
  <2>2. QED  BY <2>1 DEF Grown
<1>3. ASSUME NEW i \in universe
      PROVE  /\ CandidateBranch(i) \in Branches /\ CandidateIndex(i) \in 0 .. MaxIndex
             /\ keyOf[i] = Tree(w, CandidateBranch(i), CandidateIndex(i)).outputKey
  <2>1. CandidateBranch(i) \in Branches /\ CandidateIndex(i) \in 0 .. MaxIndex
    BY CandidateNumbers
  <2>2. Tree(w, CandidateBranch(i), CandidateIndex(i)) # Refused
    BY <1>2, <2>1
  <2>3. QED  BY <2>1, <2>2 DEF Candidate
<1> HIDE DEF keyOf
<1>4. ASSUME NEW i \in universe, NEW j \in universe, keyOf[i] = keyOf[j]
      PROVE  i = j
  <2>1. PICK b \in Branches, x \in 0 .. MaxIndex : b = CandidateBranch(i) /\ x = CandidateIndex(i)
    BY <1>3
  <2>2. PICK c \in Branches, y \in 0 .. MaxIndex : c = CandidateBranch(j) /\ y = CandidateIndex(j)
    BY <1>3
  <2>3. Tree(w, b, x).outputKey = Tree(w, c, y).outputKey
    BY <1>3, <1>4, <2>1, <2>2
  <2>4. [tag |-> "TapTweak", of |-> {Tree(w, b, x).root}]
           = [tag |-> "TapTweak", of |-> {Tree(w, c, y).root}]
    BY <1>2, <2>3
  <2>5. Tree(w, b, x).root = Tree(w, c, y).root
    BY ONLY <2>4
  <2>6. b = c /\ x = y
    BY ONLY <1>1, <2>5, b \in Branches, x \in 0 .. MaxIndex, c \in Branches,
            y \in 0 .. MaxIndex, RootDetermines
  <2>7. QED  BY <2>1, <2>2, <2>6, CandidateNumbers
<1>5. IsInjective(keyOf)
  <2>1. DOMAIN keyOf = universe
    BY DEF keyOf
  <2>2. QED  BY <1>4, <2>1 DEF IsInjective
<1>6. ASSUME NEW i \in universe  PROVE keyOf[i] \in addresses
  BY <1>3 DEF AddressesOf
<1>7. ASSUME NEW b \in Branches, NEW x \in 0 .. MaxIndex
      PROVE  \E i \in universe : keyOf[i] = Tree(w, b, x).outputKey
  <2>1. PICK i \in universe : CandidateBranch(i) = b /\ CandidateIndex(i) = x
    BY CandidateNumbers
  <2>2. QED  BY <1>3, <2>1
<1>8. {keyOf[i] : i \in universe} = addresses
  <2>1. \A a \in addresses : \E b \in Branches, x \in 0 .. MaxIndex : a = Tree(w, b, x).outputKey
    BY DEF AddressesOf
  <2> HIDE DEF addresses
  <2>2. QED  BY <1>6, <1>7, <2>1
<1>9. QED  BY <1>5, <1>8

\* A decay branch opens after the blocks it says.
LEMMA DecayIsSound ==
  ASSUME NEW w, RecoveryValid(w.recovery)
  PROVE  DecaySound(w)
<1> SUFFICES ASSUME w.recovery.decay, NEW script \in RecoveryScripts(w.recovery),
                    script.op = "older_pk"
             PROVE  NumberOf(script.push) = w.recovery.blocks
  BY DEF DecaySound
<1> DEFINE r == w.recovery
<1>1. r.blocks \in 1 .. MaxDecay
  <2>1. r # NoRecovery
    BY DEF NoRecovery
  <2>2. QED  BY <2>1 DEF RecoveryValid
<1>2. r.blocks \in Nat /\ r.blocks <= 65535
  BY <1>1, WalletAssumption
<1>3. script = PkScript(r.key) \/ script = DecayScript(r.key, r.blocks)
  BY DEF RecoveryScripts
<1>4. PkScript(r.key).op = "pk" /\ DecayScript(r.key, r.blocks).push = ScriptNum(r.blocks)
  BY DEF PkScript, DecayScript, Script
<1>5. script.push = ScriptNum(r.blocks)
  BY <1>3, <1>4
<1>6. NumberOf(ScriptNum(r.blocks)) = r.blocks
  BY ONLY <1>2, PushMeans
<1>7. QED  BY <1>5, <1>6

-----------------------------------------------------------------------------
(* Thresholds.                                                             *)

Rising(k, t) == \A i, j \in 1 .. k : i < j => t[i] < t[j]

\* One choice of k of n places, and all of them in a list of length m.
Choice(t, n, k) ==
  t \in Seq(Nat) /\ Len(t) = k /\ Rising(k, t) /\ \A i \in 1 .. k : t[i] < n
ListOfChoices(c, m, n, k) ==
  /\ c \in Seq(Seq(Nat)) /\ Len(c) = m /\ Distinct(m, c)
  /\ \A i \in 1 .. m : Choice(c[i], n, k)
  /\ \A g \in SUBSET (0 .. n - 1) :
       Cardinality(g) = k => \E i \in 1 .. m : ToSet(c[i]) = g

\* Tuples of up to three places are few.
LEMMA TuplesFew ==
  ASSUME NEW n \in Nat, n <= 5, NEW k \in 1 .. 3
  PROVE  IsFiniteSet([1 .. k -> 0 .. n - 1]) /\ Cardinality([1 .. k -> 0 .. n - 1]) <= 125
<1> DEFINE S == 0 .. n - 1
           F == [1 .. k -> S]
<1>1. IsFiniteSet(S) /\ Cardinality(S) = n
  BY FS_Interval
<1> HIDE DEF S
<1>2. IsFiniteSet(F) /\ Cardinality(F) <= n * (n * n)
  BY <1>1, TuplesFinite
<1> HIDE DEF F
<1>3. Cardinality(F) \in Nat
  BY <1>2, FS_CardinalityType
<1>4. n * (n * n) <= 125 /\ n * (n * n) \in Nat
  <2>1. n = 0 \/ n = 1 \/ n = 2 \/ n = 3 \/ n = 4 \/ n = 5
    OBVIOUS
  <2>2. QED  BY <2>1
<1>5. QED  BY <1>2, <1>3, <1>4 DEF F, S

\* Every group of k places is a choice.
LEMMA GroupListed ==
  ASSUME NEW n \in Nat, NEW k \in 1 .. 3, NEW g \in SUBSET (0 .. n - 1), Cardinality(g) = k
  PROVE  \E t : Choice(t, n, k) /\ ToSet(t) = g
<1>1. IsFiniteSet(g)
  <2>1. IsFiniteSet(0 .. n - 1)
    BY FS_Interval
  <2>2. QED  BY <2>1, FS_Subset
<1>2. PICK z \in Bijection(1 .. k, g) : TRUE
  BY <1>1, FS_CardinalityType DEF ExistsBijection
<1>3. /\ z \in [1 .. k -> g] /\ \A i, j \in 1 .. k : z[i] = z[j] => i = j
      /\ \A x \in g : \E i \in 1 .. k : z[i] = x
  BY <1>2 DEF Bijection, Injection, Surjection, IsInjective
<1>4. z \in Seq(Nat) /\ Len(z) = k
  <2>0. \A x \in g : x \in Nat
    OBVIOUS
  <2>1. z \in [1 .. k -> Nat] /\ k \in Nat
    <3>1. z \in [1 .. k -> g]
      BY <1>3
    <3>2. z \in [1 .. k -> Nat]
      BY ONLY <2>0, <3>1
    <3>3. QED  BY <3>2
  <2>2. QED  BY ONLY <2>1, FunctionIsSeq
<1>5. IsInjective(z)
  BY <1>3 DEF IsInjective
<1>6. PICK t : t = Ascending(z)
  OBVIOUS
<1>7. /\ t \in Seq(Nat) /\ Len(t) = k /\ Strictly(Upwards, k, t)
      /\ SameElements(k, t, k, z)
  BY <1>4, <1>5, <1>6, AscendingStrict
<1>8. Rising(k, t)
  BY <1>7 DEF Strictly, Upwards, Rising
<1>9. \A i \in 1 .. k : t[i] \in g
  BY <1>3, <1>7 DEF SameElements
<1>10. \A x \in g : \E i \in 1 .. k : t[i] = x
  BY <1>3, <1>7 DEF SameElements
<1>11. DOMAIN t = 1 .. k
  BY <1>7, LenProperties
<1>12. ToSet(t) = g
  BY <1>9, <1>10, <1>11 DEF ToSet
<1>13. \A i \in 1 .. k : t[i] < n
  <2>1. \A x \in g : x < n
    OBVIOUS
  <2>2. QED  BY <1>9, <2>1
<1>14. QED  BY <1>7, <1>8, <1>12, <1>13 DEF Choice

\* enumerateWalletSubsets lists every choice once.
LEMMA SubsetsListed ==
  ASSUME NEW n \in Nat, n <= 5, NEW k \in 1 .. 3, k <= n
  PROVE  \E m \in Nat : 1 <= m /\ m <= 125 /\ ListOfChoices(Subsets(n, k), m, n, k)
<1> DEFINE F == [1 .. k -> 0 .. n - 1]
           T == {t \in F : \A i, j \in 1 .. k : i < j => t[i] < t[j]}
           m == Cardinality(T)
           s == SetToSeq(T)
           c == Subsets(n, k)
<1>1. IsFiniteSet(F) /\ Cardinality(F) <= 125
  BY TuplesFew
<1>2. IsFiniteSet(T) /\ m <= Cardinality(F)
  <2>1. T \in SUBSET F
    OBVIOUS
  <2> HIDE DEF T, F
  <2>2. QED  BY <1>1, <2>1, FS_Subset
<1>3. m \in Nat /\ m <= 125
  <2>1. m \in Nat /\ Cardinality(F) \in Nat
    <3> HIDE DEF T, F
    <3>1. QED  BY <1>1, <1>2, FS_CardinalityType
  <2> HIDE DEF m, F
  <2>2. QED  BY <1>1, <1>2, <2>1
<1>4. m >= 1
  <2> DEFINE first == [i \in 1 .. k |-> i - 1]
  <2>1. first \in T
    OBVIOUS
  <2> HIDE DEF first, T
  <2>2. T # {}
    BY <2>1
  <2>3. m # 0
    BY <1>2, <2>2, FS_EmptySet
  <2>4. QED  BY <1>3, <2>3
<1>5. \A t \in T : Choice(t, n, k)
  <2> SUFFICES ASSUME NEW t \in T  PROVE Choice(t, n, k)
    OBVIOUS
  <2>1. k \in Nat /\ t \in [1 .. k -> Nat] /\ (\A i \in 1 .. k : t[i] < n) /\ Rising(k, t)
    BY DEF Rising
  <2>2. t \in Seq(Nat) /\ Len(t) = k
    BY ONLY <2>1, FunctionIsSeq
  <2>3. QED  BY <2>1, <2>2 DEF Choice
<1>6. ASSUME NEW t, Choice(t, n, k)  PROVE t \in T
  <2>1. Len(t) = k /\ t \in Seq(Nat) /\ Rising(k, t) /\ \A i \in 1 .. k : t[i] < n
    BY <1>6 DEF Choice
  <2>2. t \in [1 .. k -> Nat]
    BY <2>1, LenProperties
  <2>3. t \in F
    BY <2>1, <2>2
  <2>4. QED  BY <2>1, <2>3 DEF Rising
<1>7. c = Lexicographic(s)
  BY DEF Subsets
<1>8. /\ DOMAIN s = 1 .. m /\ Distinct(m, s)
      /\ T = {s[i] : i \in 1 .. m}
  <2> HIDE DEF T
  <2>1. QED  BY <1>2, SetListed
<1> HIDE DEF T, m, s, c, F
<1> DEFINE U == Seq(Nat)
<1>9. s \in Seq(U) /\ Len(s) = m
  <2>1. \A i \in 1 .. m : s[i] \in T
    BY <1>8
  <2>2. \A i \in 1 .. m : s[i] \in U
    BY <1>5, <2>1 DEF Choice
  <2> HIDE DEF U
  <2>3. s \in [1 .. m -> T]
    <3>1. IsFiniteSet(T)
      BY <1>2
    <3>2. QED  BY <3>1, SetToSeqType DEF s, m
  <2>4. s \in [1 .. m -> U]
    BY <2>2, <2>3
  <2>5. m \in Nat
    BY <1>3
  <2>6. QED  BY ONLY <2>4, <2>5, FunctionIsSeq
<1>10. c \in Seq(U) /\ Len(c) = m
  BY <1>3, <1>7, <1>9, LexicographicSorts
<1>11. PICK p \in Bijection(1 .. m, 1 .. m) : \A i \in 1 .. m : c[i] = s[p[i]]
  BY <1>3, <1>7, <1>9, LexicographicFrom
<1>12. Distinct(m, c)
  <2>1. Distinct(m, s)
    BY <1>8
  <2>2. QED  BY ONLY <1>11, <2>1, DistinctCarried
<1>13. SameElements(m, c, m, s)
  BY ONLY <1>11, p \in Bijection(1 .. m, 1 .. m), BijectionElements
<1>14. ASSUME NEW t \in T  PROVE \E i \in 1 .. m : c[i] = t
  <2>1. PICK j \in 1 .. m : t = s[j]
    BY <1>8
  <2>2. QED  BY <1>13, <2>1 DEF SameElements
<1>15. \A i \in 1 .. m : c[i] \in T
  BY <1>8, <1>13 DEF SameElements
<1>16. ASSUME NEW g \in SUBSET (0 .. n - 1), Cardinality(g) = k
       PROVE  \E i \in 1 .. m : ToSet(c[i]) = g
  <2>1. PICK t : Choice(t, n, k) /\ ToSet(t) = g
    BY <1>16, GroupListed
  <2>2. PICK i \in 1 .. m : c[i] = t
    BY <1>6, <1>14, <2>1
  <2>3. QED  BY <2>1, <2>2
<1>17. ListOfChoices(c, m, n, k)
  BY <1>5, <1>10, <1>12, <1>15, <1>16 DEF ListOfChoices
<1>18. QED  BY <1>3, <1>4, <1>17 DEF c

\* n valid signers, and their canonical order c.
Arranged(network, a, n, c) ==
  /\ a \in Seq(WalletSigner) /\ SignersValid(network, a)
  /\ n \in Nat /\ n = Len(a) /\ c = CanonicalOrder(a)

\* Each root once.
RootsApart(n, c) == n \in Nat /\ n >= 1 /\ \A i, j \in 1 .. n : c[i].xpub = c[j].xpub => i = j

\* A list of m choices of k places, each with a Sigbash signer at one.
Listed(sa, m, n, k, c) ==
  /\ m \in Nat /\ 1 <= m /\ m <= 125 /\ k \in 1 .. 3
  /\ sa \in Seq(Seq(Nat)) /\ Len(sa) = m /\ Distinct(m, sa)
  /\ \A i \in 1 .. m : Choice(sa[i], n, k)
  /\ \A i \in 1 .. m : \E j \in ToSet(sa[i]) : c[j + 1].kind = Sigbash

\* A list of all groups of k places, or of all with the first place among them.
AllGroups(sa, m, n, k, first) ==
  /\ m \in Nat /\ first \in BOOLEAN
  /\ \A i \in 1 .. m :
       /\ ToSet(sa[i]) \in SUBSET (0 .. n - 1)
       /\ Cardinality(ToSet(sa[i])) = k
       /\ first => 0 \in ToSet(sa[i])
  /\ \A g \in SUBSET (0 .. n - 1) :
       Cardinality(g) = k /\ (first => 0 \in g) => \E i \in 1 .. m : ToSet(sa[i]) = g

\* Signers in their canonical order: valid as they were, each root once, and
\* the same roots.
LEMMA CanonicalValid ==
  ASSUME NEW network, NEW a, NEW n, NEW c, Arranged(network, a, n, c)
  PROVE  /\ c \in Seq(WalletSigner) /\ Len(c) = n /\ SignersValid(network, c)
         /\ RootsApart(n, c)
         /\ XpubsAt(c, 0 .. n - 1) = XpubsAt(a, 0 .. n - 1)
<1> USE DEF Arranged
<1>1. c \in Seq(WalletSigner) /\ Len(c) = n
  BY CanonicalOrderSorts
<1>2. PICK p \in Bijection(1 .. n, 1 .. n) : \A i \in 1 .. n : c[i] = a[p[i]]
  BY CanonicalOrderFrom
<1>3. /\ \A i \in 1 .. n : p[i] \in 1 .. n
      /\ \A i, j \in 1 .. n : p[i] = p[j] => i = j
  BY ONLY <1>2, BijectionFacts
<1>4. DOMAIN c = 1 .. n /\ DOMAIN a = 1 .. n
  BY <1>1, LenProperties
<1>5. SignersValid(network, c)
  <2>1. /\ n \in 1 .. MaxSigners
        /\ \A i \in 1 .. n : /\ (a[i].kind = Sigbash) = (a[i].policyKeyId # NoId)
                             /\ Importable(network, a[i].xpub)
        /\ \A i, j \in 1 .. n : i # j =>
             /\ a[i].xpub # a[j].xpub
             /\ a[i].kind = Sigbash /\ a[j].kind = Sigbash
                  => a[i].policyKeyId # a[j].policyKeyId
    BY <1>4 DEF SignersValid
  <2>2. \A i \in 1 .. n : /\ (c[i].kind = Sigbash) = (c[i].policyKeyId # NoId)
                          /\ Importable(network, c[i].xpub)
    BY <1>2, <1>3, <2>1
  <2>3. ASSUME NEW i \in 1 .. n, NEW j \in 1 .. n, i # j
        PROVE  /\ c[i].xpub # c[j].xpub
               /\ c[i].kind = Sigbash /\ c[j].kind = Sigbash
                    => c[i].policyKeyId # c[j].policyKeyId
    <3>1. p[i] \in 1 .. n /\ p[j] \in 1 .. n /\ p[i] # p[j] /\ c[i] = a[p[i]] /\ c[j] = a[p[j]]
      BY <1>2, <1>3, <2>3
    <3>2. QED  BY <2>1, <3>1
  <2>4. QED  BY <1>1, <1>4, <2>1, <2>2, <2>3 DEF SignersValid
<1>6. \A i, j \in 1 .. n : c[i].xpub = c[j].xpub => i = j
  BY <1>4, <1>5 DEF SignersValid
<1>7. XpubsAt(c, 0 .. n - 1) = XpubsAt(a, 0 .. n - 1)
  <2>1. \A i \in 1 .. n : i - 1 \in 0 .. n - 1 /\ (i - 1) + 1 = i
    OBVIOUS
  <2>2. \A i \in 0 .. n - 1 : i + 1 \in 1 .. n
    OBVIOUS
  <2>3. \A i \in 0 .. n - 1 : \E j \in 0 .. n - 1 : c[i + 1].xpub = a[j + 1].xpub
    <3> SUFFICES ASSUME NEW i \in 0 .. n - 1
                 PROVE  \E j \in 0 .. n - 1 : c[i + 1].xpub = a[j + 1].xpub
      OBVIOUS
    <3>1. PICK l \in 1 .. n : l = p[i + 1]
      BY <1>3, <2>2
    <3>2. c[i + 1].xpub = a[l].xpub
      BY <1>2, <2>2, <3>1
    <3>3. QED  BY <2>1, <3>2
  <2>4. \A j \in 1 .. n : \E i \in 1 .. n : p[i] = j
    BY ONLY <1>2, BijectionFacts
  <2>5. \A j \in 0 .. n - 1 : \E i \in 0 .. n - 1 : a[j + 1].xpub = c[i + 1].xpub
    <3> SUFFICES ASSUME NEW j \in 0 .. n - 1
                 PROVE  \E i \in 0 .. n - 1 : a[j + 1].xpub = c[i + 1].xpub
      OBVIOUS
    <3>1. PICK i \in 1 .. n : p[i] = j + 1
      BY <2>2, <2>4
    <3>2. c[i].xpub = a[j + 1].xpub
      BY <1>2, <3>1
    <3>3. QED  BY <2>1, <3>2
  <2>6. QED  BY <2>3, <2>5 DEF XpubsAt
<1>8. n >= 1
  <2>1. Len(a) \in 1 .. MaxSigners
    BY DEF SignersValid
  <2>2. QED  BY <2>1, WalletAssumption
<1>9. QED  BY <1>1, <1>5, <1>6, <1>7, <1>8 DEF RootsApart

\* Sets that are choices, of places with a Sigbash signer among them, make a
\* wallet whose groups they are.
LEMMA TemplateAccepted ==
  ASSUME NEW network, NEW a, NEW n, NEW c, Arranged(network, a, n, c),
         NEW sa, NEW m, NEW k, Listed(sa, m, n, k, c)
  PROVE  LET w == Build(network, a, sa, NoRecovery)
         IN  IsWallet(w) /\ Groups(w) = {XpubsAt(c, ToSet(sa[i])) : i \in 1 .. m}
<1> DEFINE w == Build(network, a, sa, NoRecovery)
<1> USE DEF Arranged, Listed
<1> DEFINE U == Seq(Nat)
<1>1. c \in Seq(WalletSigner) /\ Len(c) = n
  BY CanonicalOrderSorts
<1>5. SignersValid(network, c)
  BY CanonicalValid
<1>6. ASSUME NEW i \in 1 .. m
      PROVE  SetValid(c, sa[i]) /\ Ascending(sa[i]) = sa[i]
  <2>1. PICK t : t = sa[i]
    OBVIOUS
  <2>2. t \in Seq(Nat) /\ Len(t) = k /\ Rising(k, t) /\ \A j \in 1 .. k : t[j] < n
    BY <2>1 DEF Choice
  <2>3. DOMAIN t = 1 .. k /\ \A j \in 1 .. k : t[j] \in Nat
    BY <2>2, LenProperties, ElementOfSeq
  <2>4. IsInjective(t)
    <3>1. ASSUME NEW x \in 1 .. k, NEW y \in 1 .. k, t[x] = t[y]  PROVE x = y
      <4>1. ~(x < y) /\ ~(y < x)
        BY <2>2, <2>3, <3>1 DEF Rising
      <4>2. QED  BY <4>1
    <3>2. QED  BY <2>3, <3>1 DEF IsInjective
  <2>5. \A x \in ToSet(t) : x < n
    BY <2>2, <2>3 DEF ToSet
  <2>6. \E x \in ToSet(t) : c[x + 1].kind = Sigbash
    BY <2>1
  <2>7. SetValid(c, t)
    BY <1>1, <2>2, <2>4, <2>5, <2>6 DEF SetValid
  <2>8. Ascending(t) = t
    <3>1. k \in Nat /\ \A x, y \in 1 .. k : x < y => t[x] < t[y]
      BY <2>2 DEF Rising
    <3>2. QED  BY ONLY <2>2, <3>1, AscendingFixed
  <2>9. QED  BY <2>1, <2>7, <2>8
<1>7. /\ Inner(sa) \in Seq(U) /\ Len(Inner(sa)) = m
      /\ \A i \in 1 .. m : Inner(sa)[i] = Ascending(sa[i])
  BY InnerType
<1>8. sa \in Seq(U)
  OBVIOUS
<1> HIDE DEF U
<1>9. DOMAIN sa = 1 .. m
  BY <1>8, LenProperties
<1>10. Inner(sa) = sa
  <2>1. \A i \in 1 .. m : Inner(sa)[i] = sa[i]
    BY <1>6, <1>7
  <2>2. QED  BY <1>7, <1>8, <2>1, SeqEqual
<1>11. CanonicalSets(sa) = Lexicographic(sa)
  BY <1>10 DEF CanonicalSets, Inner
<1>12. PICK l : l = Lexicographic(sa)
  OBVIOUS
<1>13. l \in Seq(U) /\ Len(l) = m
  BY <1>12, LexicographicSorts DEF U
<1>14. PICK q \in Bijection(1 .. m, 1 .. m) : \A i \in 1 .. m : l[i] = sa[q[i]]
  BY <1>12, LexicographicFrom
<1>15. Distinct(m, l) /\ SameElements(m, l, m, sa)
  <2>1. Distinct(m, l)
    BY ONLY <1>14, Distinct(m, sa), DistinctCarried
  <2>2. SameElements(m, l, m, sa)
    BY ONLY <1>14, BijectionElements
  <2>3. QED  BY <2>1, <2>2
<1>16. DOMAIN l = 1 .. m
  BY <1>13, LenProperties
<1>17. IsInjective(l)
  BY <1>15, <1>16 DEF IsInjective, Distinct
<1>18. Accepted(network, a, sa, NoRecovery)
  <2>1. Len(sa) \in 1 .. MaxSets
    BY WalletAssumption
  <2>2. RecoveryValid(NoRecovery)
    BY DEF RecoveryValid
  <2>3. QED  BY <1>5, <1>6, <1>9, <1>11, <1>12, <1>17, <2>1, <2>2 DEF Accepted
<1>19. /\ IsWallet(w)
       /\ w = [network |-> network, signers |-> c, sets |-> l, recovery |-> NoRecovery]
  BY <1>11, <1>12, <1>18, BuildAccepts
<1>20. w.signers = c /\ w.sets = l
  BY <1>19
<1>21. Groups(w) = {XpubsAt(c, ToSet(l[i])) : i \in 1 .. m}
  BY <1>16, <1>20 DEF Groups
<1>22. {XpubsAt(c, ToSet(l[i])) : i \in 1 .. m} = {XpubsAt(c, ToSet(sa[i])) : i \in 1 .. m}
  <2>1. \A i \in 1 .. m : \E j \in 1 .. m : l[i] = sa[j]
    BY <1>15 DEF SameElements
  <2>2. \A j \in 1 .. m : \E i \in 1 .. m : l[i] = sa[j]
    BY <1>15 DEF SameElements
  <2>3. QED  BY ONLY <2>1, <2>2
<1>23. QED  BY <1>19, <1>21, <1>22

\* Places and the roots at them, where no two roots are one.
LEMMA RootsNamed ==
  ASSUME NEW n, NEW c, RootsApart(n, c)
  PROVE  /\ \A g \in SUBSET (0 .. n - 1) :
              /\ Cardinality(XpubsAt(c, g)) = Cardinality(g)
              /\ XpubsAt(c, g) \subseteq XpubsAt(c, 0 .. n - 1)
              /\ \A i \in 0 .. n - 1 : c[i + 1].xpub \in XpubsAt(c, g) <=> i \in g
         /\ \A h \in SUBSET XpubsAt(c, 0 .. n - 1) :
              \E g \in SUBSET (0 .. n - 1) : XpubsAt(c, g) = h
<1> USE DEF RootsApart
<1>1. ASSUME NEW g \in SUBSET (0 .. n - 1)
      PROVE  /\ Cardinality(XpubsAt(c, g)) = Cardinality(g)
             /\ XpubsAt(c, g) \subseteq XpubsAt(c, 0 .. n - 1)
             /\ \A i \in 0 .. n - 1 : c[i + 1].xpub \in XpubsAt(c, g) <=> i \in g
  <2> DEFINE f == [i \in g |-> c[i + 1].xpub]
             H == XpubsAt(c, g)
  <2>1. \A i \in 0 .. n - 1 : i \in Nat /\ i + 1 \in 1 .. n
    OBVIOUS
  <2>2. ASSUME NEW i \in 0 .. n - 1, NEW j \in 0 .. n - 1, c[i + 1].xpub = c[j + 1].xpub
        PROVE  i = j
    <3>1. i + 1 = j + 1
      BY <2>1, <2>2
    <3>2. QED  BY <2>1, <3>1
  <2>3. f \in [g -> H] /\ \A x \in H : \E i \in g : f[i] = x
    BY DEF XpubsAt
  <2>4. \A i, j \in g : f[i] = f[j] => i = j
    BY <2>2
  <2>5. \A i \in 0 .. n - 1 : c[i + 1].xpub \in H <=> i \in g
    BY <2>2 DEF XpubsAt
  <2>6. H \subseteq XpubsAt(c, 0 .. n - 1)
    BY DEF XpubsAt
  <2> HIDE DEF f, H
  <2>7. ExistsBijection(g, H)
    BY <2>3, <2>4 DEF ExistsBijection, Bijection, Injection, Surjection, IsInjective
  <2>8. IsFiniteSet(g)
    <3>1. IsFiniteSet(0 .. n - 1)
      BY FS_Interval
    <3>2. QED  BY <3>1, FS_Subset
  <2>9. Cardinality(H) = Cardinality(g)
    BY <2>7, <2>8, FS_Bijection
  <2>10. QED  BY <2>5, <2>6, <2>9 DEF H
<1>2. ASSUME NEW h \in SUBSET XpubsAt(c, 0 .. n - 1)
      PROVE  \E g \in SUBSET (0 .. n - 1) : XpubsAt(c, g) = h
  <2> DEFINE g == {i \in 0 .. n - 1 : c[i + 1].xpub \in h}
  <2>1. \A x \in h : \E i \in 0 .. n - 1 : x = c[i + 1].xpub
    BY DEF XpubsAt
  <2>2. g \in SUBSET (0 .. n - 1) /\ XpubsAt(c, g) = h
    BY <2>1 DEF XpubsAt
  <2>3. QED  BY ONLY <2>2
<1>3. QED  BY <1>1, <1>2

\* The groups of a threshold, by places and by roots.
LEMMA GroupsNamed ==
  ASSUME NEW n, NEW c, RootsApart(n, c),
         NEW sa, NEW m, NEW size, NEW first, AllGroups(sa, m, n, size, first)
  PROVE  {XpubsAt(c, ToSet(sa[i])) : i \in 1 .. m}
           = {h \in SUBSET XpubsAt(c, 0 .. n - 1) :
                Cardinality(h) = size /\ (first => c[1].xpub \in h)}
<1> USE DEF RootsApart, AllGroups
<1>1. /\ \A g \in SUBSET (0 .. n - 1) :
           /\ Cardinality(XpubsAt(c, g)) = Cardinality(g)
           /\ XpubsAt(c, g) \subseteq XpubsAt(c, 0 .. n - 1)
           /\ \A i \in 0 .. n - 1 : c[i + 1].xpub \in XpubsAt(c, g) <=> i \in g
      /\ \A h \in SUBSET XpubsAt(c, 0 .. n - 1) :
           \E g \in SUBSET (0 .. n - 1) : XpubsAt(c, g) = h
  BY RootsNamed
<1>2. \A g \in SUBSET (0 .. n - 1) : c[1].xpub \in XpubsAt(c, g) <=> 0 \in g
  <2>1. 0 \in 0 .. n - 1 /\ 0 + 1 = 1
    OBVIOUS
  <2>2. QED  BY <1>1, <2>1
<1>3. ASSUME NEW i \in 1 .. m
      PROVE  /\ XpubsAt(c, ToSet(sa[i])) \in SUBSET XpubsAt(c, 0 .. n - 1)
             /\ Cardinality(XpubsAt(c, ToSet(sa[i]))) = size
             /\ first => c[1].xpub \in XpubsAt(c, ToSet(sa[i]))
  <2>1. PICK g : g = ToSet(sa[i])
    OBVIOUS
  <2>2. g \in SUBSET (0 .. n - 1) /\ Cardinality(g) = size /\ (first => 0 \in g)
    BY <2>1
  <2>3. XpubsAt(c, g) \subseteq XpubsAt(c, 0 .. n - 1) /\ Cardinality(XpubsAt(c, g)) = size
    BY <1>1, <2>2
  <2>4. first => c[1].xpub \in XpubsAt(c, g)
    BY <1>2, <2>2
  <2>5. QED  BY <2>1, <2>3, <2>4
<1>4. ASSUME NEW h \in SUBSET XpubsAt(c, 0 .. n - 1), Cardinality(h) = size,
             first => c[1].xpub \in h
      PROVE  \E i \in 1 .. m : h = XpubsAt(c, ToSet(sa[i]))
  <2>1. PICK g \in SUBSET (0 .. n - 1) : XpubsAt(c, g) = h
    BY <1>1
  <2>2. Cardinality(g) = size /\ (first => 0 \in g)
    BY <1>1, <1>2, <1>4, <2>1
  <2>3. PICK i \in 1 .. m : ToSet(sa[i]) = g
    BY <2>2
  <2>4. QED  BY <2>1, <2>3
<1>5. QED  BY <1>3, <1>4

\* A choice of the others, a place further on, behind the first place.
Behind(t) == <<0>> \o [j \in DOMAIN t |-> t[j] + 1]
IsBehind(e, t, n, k) ==
  /\ Choice(e, n + 1, k + 1)
  /\ \A j \in 1 .. k : e[j + 1] = t[j] + 1
  /\ ToSet(e) = {0} \cup {x + 1 : x \in ToSet(t)}

LEMMA WithFirst ==
  ASSUME NEW n \in Nat, NEW k \in Nat, NEW t, Choice(t, n, k)
  PROVE  IsBehind(Behind(t), t, n, k)
<1> DEFINE e == Behind(t)
           z == <<0>>
           y == [j \in DOMAIN t |-> t[j] + 1]
<1>1. /\ t \in Seq(Nat) /\ Len(t) = k /\ Rising(k, t) /\ \A i \in 1 .. k : t[i] < n
  BY DEF Choice
<1>2. DOMAIN t = 1 .. k /\ \A i \in 1 .. k : t[i] \in Nat
  BY <1>1, LenProperties, ElementOfSeq
<1>3. y \in [1 .. k -> Nat] /\ \A i \in 1 .. k : y[i] = t[i] + 1
  BY <1>2
<1>4. z \in Seq(Nat) /\ Len(z) = 1 /\ z[1] = 0
  OBVIOUS
<1> HIDE DEF y, z
<1>5. y \in Seq(Nat) /\ Len(y) = k
  BY ONLY <1>3, k \in Nat, FunctionIsSeq
<1>6. e = z \o y
  BY DEF Behind, y, z
<1> HIDE DEF e
<1>7. /\ e \in Seq(Nat) /\ Len(e) = Len(z) + Len(y)
      /\ \A i \in 1 .. Len(z) + Len(y) : e[i] = IF i <= Len(z) THEN z[i] ELSE y[i - Len(z)]
  BY ONLY <1>4, <1>5, <1>6, ConcatProperties
<1>8. Len(e) = k + 1
  BY <1>4, <1>5, <1>7
<1>9. e[1] = 0
  BY <1>4, <1>5, <1>7
<1>10. ASSUME NEW j \in 1 .. k  PROVE e[j + 1] = t[j] + 1
  <2>1. j + 1 \in 1 .. Len(z) + Len(y) /\ ~(j + 1 <= Len(z)) /\ (j + 1) - Len(z) = j
    BY <1>4, <1>5
  <2>2. e[j + 1] = y[j]
    BY <1>7, <2>1
  <2>3. QED  BY <1>3, <2>2
<1>11. \A i \in 1 .. k + 1 : i = 1 \/ \E j \in 1 .. k : i = j + 1
  <2> SUFFICES ASSUME NEW i \in 1 .. k + 1, i # 1  PROVE \E j \in 1 .. k : i = j + 1
    OBVIOUS
  <2>1. i - 1 \in 1 .. k /\ i = (i - 1) + 1
    OBVIOUS
  <2>2. QED  BY ONLY <2>1
<1>12. Rising(k + 1, e)
  <2> SUFFICES ASSUME NEW i \in 1 .. k + 1, NEW l \in 1 .. k + 1, i < l  PROVE e[i] < e[l]
    BY DEF Rising
  <2>1. PICK b \in 1 .. k : l = b + 1
    <3>1. l # 1
      OBVIOUS
    <3>2. QED  BY <1>11, <3>1
  <2>2. e[l] = t[b] + 1 /\ t[b] \in Nat
    BY <1>2, <1>10, <2>1
  <2>3. CASE i = 1
    <3>1. PICK y1, y2 : y1 = e[l] /\ y2 = t[b]
      OBVIOUS
    <3>2. y1 = y2 + 1 /\ y2 \in Nat
      BY <2>2, <3>1
    <3>3. 0 < y1
      BY ONLY <3>2
    <3>4. e[i] = 0
      BY <1>9, <2>3
    <3>5. QED  BY ONLY <3>1, <3>3, <3>4
  <2>4. CASE i # 1
    <3>1. PICK a \in 1 .. k : i = a + 1
      BY <1>11, <2>4
    <3>2. a < b
      BY <2>1, <3>1
    <3>3. t[a] < t[b] /\ t[a] \in Nat
      BY <1>1, <1>2, <3>2 DEF Rising
    <3>4. e[i] = t[a] + 1
      BY <1>10, <3>1
    <3>5. PICK y1, y2 : y1 = t[a] /\ y2 = t[b]
      OBVIOUS
    <3>6. y1 \in Nat /\ y2 \in Nat /\ y1 < y2
      BY <2>2, <3>3, <3>5
    <3>7. y1 + 1 < y2 + 1
      BY ONLY <3>6
    <3>8. e[i] = y1 + 1 /\ e[l] = y2 + 1
      BY <2>2, <3>4, <3>5
    <3>9. QED  BY ONLY <3>7, <3>8
  <2>5. QED  BY <2>3, <2>4
<1>13. \A i \in 1 .. k + 1 : e[i] < n + 1
  <2> SUFFICES ASSUME NEW i \in 1 .. k + 1  PROVE e[i] < n + 1
    OBVIOUS
  <2>1. CASE i = 1
    <3>1. e[i] = 0
      BY <1>9, <2>1
    <3>2. 0 < n + 1
      OBVIOUS
    <3>3. QED  BY ONLY <3>1, <3>2
  <2>2. CASE i # 1
    <3>1. PICK j \in 1 .. k : i = j + 1
      BY <1>11, <2>2
    <3>2. e[i] = t[j] + 1 /\ t[j] \in Nat /\ t[j] < n
      BY <1>1, <1>2, <1>10, <3>1
    <3>3. PICK v : v = t[j]
      OBVIOUS
    <3>4. v \in Nat /\ v < n
      BY <3>2, <3>3
    <3>5. v + 1 < n + 1
      BY <3>4
    <3>6. e[i] = v + 1
      BY <3>2, <3>3
    <3>7. QED  BY ONLY <3>5, <3>6
  <2>3. QED  BY <2>1, <2>2
<1>14. Choice(e, n + 1, k + 1)
  BY <1>7, <1>8, <1>12, <1>13 DEF Choice
<1>15. DOMAIN e = 1 .. k + 1
  BY <1>7, <1>8, LenProperties
<1>16. ToSet(e) = {0} \cup {x + 1 : x \in ToSet(t)}
  <2>1. ASSUME NEW v \in ToSet(e)  PROVE v = 0 \/ \E x \in ToSet(t) : v = x + 1
    <3>1. PICK i \in 1 .. k + 1 : v = e[i]
      BY <1>15 DEF ToSet
    <3>2. CASE i = 1
      BY <1>9, <3>1, <3>2
    <3>3. CASE i # 1
      <4>1. PICK j \in 1 .. k : i = j + 1
        BY <1>11, <3>3
      <4>2. v = t[j] + 1 /\ t[j] \in ToSet(t)
        BY <1>2, <1>10, <3>1, <4>1 DEF ToSet
      <4>3. QED  BY <4>2
    <3>4. QED  BY <3>2, <3>3
  <2>2. 0 \in ToSet(e)
    <3>1. 1 \in DOMAIN e
      BY <1>15
    <3>2. QED  BY <1>9, <3>1 DEF ToSet
  <2>3. ASSUME NEW x \in ToSet(t)  PROVE x + 1 \in ToSet(e)
    <3>1. PICK j \in 1 .. k : x = t[j]
      BY <1>2 DEF ToSet
    <3>2. j + 1 \in DOMAIN e /\ e[j + 1] = x + 1
      BY <1>10, <1>15, <3>1
    <3>3. QED  BY <3>2 DEF ToSet
  <2>4. QED  BY <2>1, <2>2, <2>3
<1>17. QED  BY <1>10, <1>14, <1>16 DEF IsBehind, e

\* The same for every choice of a list.
AllBehind(ch) == [i \in DOMAIN ch |-> Behind(ch[i])]

\* A list of every choice of k + 1 of n + 1 places with the first among them.
FirstChoices(sa, m, n, k) ==
  /\ sa \in Seq(Seq(Nat)) /\ Len(sa) = m /\ Distinct(m, sa)
  /\ \A i \in 1 .. m : Choice(sa[i], n + 1, k + 1) /\ 0 \in ToSet(sa[i])
  /\ \A g \in SUBSET (0 .. n) :
       Cardinality(g) = k + 1 /\ 0 \in g => \E i \in 1 .. m : ToSet(sa[i]) = g

LEMMA AllWithFirst ==
  ASSUME NEW n \in Nat, NEW k \in Nat, NEW m \in Nat, NEW ch, ListOfChoices(ch, m, n, k)
  PROVE  FirstChoices(AllBehind(ch), m, n, k)
<1> DEFINE sa == AllBehind(ch)
<1> DEFINE U == Seq(Nat)
<1>1. ch \in Seq(U) /\ Len(ch) = m /\ Distinct(m, ch) /\ \A i \in 1 .. m : Choice(ch[i], n, k)
  BY DEF ListOfChoices
<1>2. DOMAIN ch = 1 .. m
  <2> HIDE DEF U
  <2>1. QED  BY <1>1, LenProperties
<1>3. sa = [i \in 1 .. m |-> Behind(ch[i])]
  BY <1>2 DEF AllBehind
<1>4. \A i \in 1 .. m : sa[i] = Behind(ch[i])
  BY <1>3
<1> SUFFICES FirstChoices(sa, m, n, k)
  OBVIOUS
<1> HIDE DEF sa
<1>5. ASSUME NEW i \in 1 .. m
      PROVE  /\ Choice(sa[i], n + 1, k + 1)
             /\ \A j \in 1 .. k : sa[i][j + 1] = ch[i][j] + 1
             /\ ToSet(sa[i]) = {0} \cup {x + 1 : x \in ToSet(ch[i])}
  <2>1. Choice(ch[i], n, k)
    BY <1>1
  <2>2. IsBehind(Behind(ch[i]), ch[i], n, k)
    BY <2>1, WithFirst
  <2>3. IsBehind(sa[i], ch[i], n, k)
    BY <1>4, <2>2
  <2>4. QED  BY <2>3 DEF IsBehind
<1>6. sa \in Seq(U) /\ Len(sa) = m
  <2>1. \A i \in 1 .. m : sa[i] \in U
    BY <1>5 DEF Choice
  <2> HIDE DEF U
  <2>2. sa \in [1 .. m -> U]
    BY <1>3, <2>1
  <2>3. QED  BY ONLY <2>2, m \in Nat, FunctionIsSeq
<1>7. Distinct(m, sa)
  <2> SUFFICES ASSUME NEW i \in 1 .. m, NEW l \in 1 .. m, sa[i] = sa[l]  PROVE i = l
    BY DEF Distinct
  <2>1. PICK t, u : t = ch[i] /\ u = ch[l]
    OBVIOUS
  <2>2. t \in U /\ u \in U /\ Len(t) = k /\ Len(u) = k
    BY <1>1, <2>1 DEF Choice
  <2>3. \A j \in 1 .. k : t[j] \in Nat /\ u[j] \in Nat
    BY <2>2, ElementOfSeq
  <2>4. \A j \in 1 .. k : t[j] + 1 = u[j] + 1
    BY <1>5, <2>1
  <2>5. \A j \in 1 .. k : t[j] = u[j]
    BY <2>3, <2>4
  <2>6. t = u
    BY ONLY <2>2, <2>5, SeqEqual DEF U
  <2>7. QED  BY <1>1, <2>1, <2>6 DEF Distinct
<1>8. \A i \in 1 .. m : 0 \in ToSet(sa[i])
  BY <1>5
<1>9. ASSUME NEW g \in SUBSET (0 .. n), Cardinality(g) = k + 1, 0 \in g
      PROVE  \E i \in 1 .. m : ToSet(sa[i]) = g
  <2> DEFINE rest == g \ {0}
             lower == {x - 1 : x \in rest}
             f == [x \in rest |-> x - 1]
  <2>1. IsFiniteSet(g)
    <3>1. IsFiniteSet(0 .. n)
      BY FS_Interval
    <3>2. QED  BY <3>1, FS_Subset
  <2>2. IsFiniteSet(rest) /\ Cardinality(rest) = k
    <3>1. IsFiniteSet(rest) /\ Cardinality(rest) = Cardinality(g) - 1
      BY <1>9, <2>1, FS_RemoveElement
    <3>2. QED  BY <1>9, <3>1
  <2>3. \A x \in rest : x \in 1 .. n
    OBVIOUS
  <2>4. f \in [rest -> lower] /\ (\A x, y \in rest : f[x] = f[y] => x = y)
        /\ \A v \in lower : \E x \in rest : f[x] = v
    BY <2>3
  <2>5. lower \in SUBSET (0 .. n - 1)
    BY <2>3
  <2>6. {v + 1 : v \in lower} = rest
    <3>1. \A x \in rest : (x - 1) + 1 = x
      BY <2>3
    <3>2. QED  BY <3>1
  <2>7. g = {0} \cup rest
    BY <1>9
  <2> HIDE DEF f, lower, rest
  <2>8. ExistsBijection(rest, lower)
    BY <2>4 DEF ExistsBijection, Bijection, Injection, Surjection, IsInjective
  <2>9. Cardinality(lower) = k
    BY <2>2, <2>8, FS_Bijection
  <2>10. PICK i \in 1 .. m : ToSet(ch[i]) = lower
    BY <2>5, <2>9 DEF ListOfChoices
  <2>11. ToSet(sa[i]) = {0} \cup {x + 1 : x \in lower}
    BY <1>5, <2>10
  <2>12. QED  BY <2>6, <2>7, <2>11
<1>10. QED  BY <1>5, <1>6, <1>7, <1>8, <1>9 DEF FirstChoices

\* A choice of k places is a group of k.
LEMMA ChoiceCounts ==
  ASSUME NEW n \in Nat, NEW k \in Nat, NEW t, Choice(t, n, k)
  PROVE  ToSet(t) \in SUBSET (0 .. n - 1) /\ Cardinality(ToSet(t)) = k
<1>1. t \in Seq(Nat) /\ Len(t) = k /\ Rising(k, t) /\ \A i \in 1 .. k : t[i] < n
  BY DEF Choice
<1>2. DOMAIN t = 1 .. k /\ \A i \in 1 .. k : t[i] \in Nat
  BY <1>1, LenProperties, ElementOfSeq
<1>3. Distinct(k, t)
  <2> SUFFICES ASSUME NEW i \in 1 .. k, NEW j \in 1 .. k, t[i] = t[j]  PROVE i = j
    BY DEF Distinct
  <2>1. ~(i < j) /\ ~(j < i)
    BY <1>1, <1>2 DEF Rising
  <2>2. QED  BY <2>1
<1>4. ToSet(t) = {t[i] : i \in 1 .. k}
  BY <1>2 DEF ToSet
<1>5. Cardinality(ToSet(t)) = k
  BY <1>2, <1>3, <1>4, CountDistinct
<1>6. ToSet(t) \in SUBSET (0 .. n - 1)
  BY <1>1, <1>2, <1>4
<1>7. QED  BY <1>5, <1>6

\* The groups of a threshold of size k: all of them, or those of the first signer.
GroupsOf(a, k, first) ==
  {g \in SUBSET XpubsAt(a, 0 .. Len(a) - 1) :
     Cardinality(g) = k /\ (first => a[1].xpub \in g)}

\* A list of all the choices there are, of places with a Sigbash signer among
\* them, makes a wallet of exactly the groups of the threshold.
LEMMA ThresholdMet ==
  ASSUME NEW network, NEW a, NEW n, NEW c, Arranged(network, a, n, c),
         NEW sa, NEW m, NEW k, Listed(sa, m, n, k, c),
         NEW first, AllGroups(sa, m, n, k, first), first => c[1] = a[1]
  PROVE  LET w == Build(network, a, sa, NoRecovery)
         IN  IsWallet(w) /\ Groups(w) = GroupsOf(a, k, first)
<1> DEFINE w == Build(network, a, sa, NoRecovery)
<1>1. RootsApart(n, c) /\ XpubsAt(c, 0 .. n - 1) = XpubsAt(a, 0 .. n - 1)
  BY CanonicalValid
<1>2. IsWallet(w) /\ Groups(w) = {XpubsAt(c, ToSet(sa[i])) : i \in 1 .. m}
  BY TemplateAccepted
<1>3. {XpubsAt(c, ToSet(sa[i])) : i \in 1 .. m}
        = {h \in SUBSET XpubsAt(c, 0 .. n - 1) :
             Cardinality(h) = k /\ (first => c[1].xpub \in h)}
  BY <1>1, GroupsNamed
<1>4. {h \in SUBSET XpubsAt(c, 0 .. n - 1) :
         Cardinality(h) = k /\ (first => c[1].xpub \in h)} = GroupsOf(a, k, first)
  BY <1>1 DEF GroupsOf, Arranged
<1>5. QED  BY <1>2, <1>3, <1>4

\* The template of Sigbash signers.
LEMMA NativeSound ==
  ASSUME NEW s \in Sources, s.by = "native"
  PROVE  ThresholdSound(s)
<1> DEFINE a == s.signers
           n == Len(a)
           k == s.threshold
           c == CanonicalOrder(a)
           sa == Subsets(n, k)
           w == WalletOf[s]
<1> SUFFICES ASSUME Declared(s), SignersValid(s.network, a)
             PROVE  IsWallet(w) /\ Groups(w) = GroupsOf(a, k, FALSE)
  BY DEF ThresholdSound, GroupsOf
<1>1. n \in Nat /\ n <= 5 /\ k \in 1 .. 3 /\ k <= n /\ a \in Seq(WalletSigner)
  BY SourceType DEF Declared
<1>2. w = Build(s.network, a, sa, NoRecovery)
  BY <1>1 DEF WalletOf, Constructed, NativeMultisig
<1>3. PICK m \in Nat : 1 <= m /\ m <= 125 /\ ListOfChoices(sa, m, n, k)
  BY <1>1, SubsetsListed
<1>4. \A i \in 1 .. n : c[i].kind = Sigbash
  <2>1. PICK p \in Bijection(1 .. n, 1 .. n) : \A i \in 1 .. n : c[i] = a[p[i]]
    BY <1>1, CanonicalOrderFrom
  <2>2. \A i \in 1 .. n : p[i] \in 1 .. n
    BY ONLY <2>1, BijectionFacts
  <2>3. \A i \in 1 .. n : a[i].kind = Sigbash
    BY DEF Declared
  <2> HIDE DEF a, n, c
  <2>4. QED  BY <2>1, <2>2, <2>3
<1> HIDE DEF a, n, k, c, sa, w
<1>5. /\ sa \in Seq(Seq(Nat)) /\ Len(sa) = m /\ Distinct(m, sa)
      /\ \A i \in 1 .. m : Choice(sa[i], n, k)
      /\ \A g \in SUBSET (0 .. n - 1) :
           Cardinality(g) = k => \E i \in 1 .. m : ToSet(sa[i]) = g
  BY <1>3 DEF ListOfChoices
<1>6. \A i \in 1 .. m : \E j \in ToSet(sa[i]) : c[j + 1].kind = Sigbash
  <2> SUFFICES ASSUME NEW i \in 1 .. m
               PROVE  \E j \in ToSet(sa[i]) : c[j + 1].kind = Sigbash
    OBVIOUS
  <2>1. /\ sa[i] \in Seq(Nat) /\ Len(sa[i]) = k /\ \A j \in 1 .. k : sa[i][j] < n
    BY <1>5 DEF Choice
  <2>2. PICK j : j = sa[i][1]
    OBVIOUS
  <2>3. 1 \in 1 .. k
    BY <1>1
  <2>4. DOMAIN sa[i] = 1 .. k
    BY <2>1, LenProperties
  <2>5. j \in Nat /\ j < n
    BY <2>1, <2>2, <2>3, ElementOfSeq
  <2>6. j \in ToSet(sa[i])
    BY <2>2, <2>3, <2>4 DEF ToSet
  <2>7. j + 1 \in 1 .. n
    BY <1>1, <2>5
  <2>8. QED  BY <1>4, <2>6, <2>7
<1>7. Arranged(s.network, a, n, c)
  BY <1>1 DEF Arranged, a, n, c
<1>8. Listed(sa, m, n, k, c)
  BY <1>1, <1>3, <1>5, <1>6 DEF Listed
<1> DEFINE no == FALSE
<1>9. AllGroups(sa, m, n, k, no)
  <2>1. n \in Nat /\ k \in Nat
    BY <1>1
  <2>2. \A i \in 1 .. m : ToSet(sa[i]) \in SUBSET (0 .. n - 1) /\ Cardinality(ToSet(sa[i])) = k
    BY <1>5, <2>1, ChoiceCounts
  <2>3. QED  BY <1>3, <1>5, <2>2 DEF AllGroups
<1> SUFFICES IsWallet(w) /\ Groups(w) = GroupsOf(a, k, no)
  OBVIOUS
<1>no. no => c[1] = a[1]
  OBVIOUS
<1> HIDE DEF no
<1>10. LET b == Build(s.network, a, sa, NoRecovery)
       IN  IsWallet(b) /\ Groups(b) = GroupsOf(a, k, no)
  BY ONLY <1>7, <1>8, <1>9, <1>no, ThresholdMet
<1>11. QED  BY <1>2, <1>10

\* Sigbash's one signer is the first in the canonical order.
OnlyFirst(n, a) == \A i \in 1 .. n : a[i].kind = Sigbash <=> i = 1

LEMMA SigbashFirst ==
  ASSUME NEW network, NEW a, NEW n, NEW c, Arranged(network, a, n, c), n >= 1,
         OnlyFirst(n, a)
  PROVE  c[1] = a[1]
<1> USE DEF Arranged, OnlyFirst
<1>1. \A i, j \in 1 .. n : i < j => ~SignerLess(c[j], c[i])
  BY CanonicalOrderSorts
<1>2. PICK p \in Bijection(1 .. n, 1 .. n) : \A i \in 1 .. n : c[i] = a[p[i]]
  BY CanonicalOrderFrom
<1>3. /\ \A i \in 1 .. n : p[i] \in 1 .. n
      /\ \A j \in 1 .. n : \E i \in 1 .. n : p[i] = j
  BY ONLY <1>2, BijectionFacts
<1>4. 1 \in 1 .. n
  OBVIOUS
<1>5. PICK j \in 1 .. n : p[j] = 1
  BY <1>3, <1>4
<1>6. c[j] = a[1] /\ a[1].kind = Sigbash
  BY <1>2, <1>4, <1>5
<1>7. CASE j = 1
  BY <1>6, <1>7
<1>8. CASE j # 1
  <2>1. ~SignerLess(c[j], c[1])
    <3>1. 1 < j
      BY <1>8
    <3>2. QED  BY <1>1, <1>4, <3>1
  <2>2. KindOrder(c[j]) = 1
    BY <1>6 DEF KindOrder
  <2>3. KindOrder(c[1]) = 1
    <3>1. KindOrder(c[1]) = 1 \/ KindOrder(c[1]) = 2
      BY DEF KindOrder
    <3>2. ~(KindOrder(c[j]) < KindOrder(c[1]))
      BY <2>1 DEF SignerLess
    <3>3. QED  BY <2>2, <3>1, <3>2
  <2>4. c[1].kind = Sigbash
    BY <2>3 DEF KindOrder
  <2>5. p[1] = 1
    BY <1>2, <1>3, <1>4, <2>4
  <2>6. QED  BY <1>2, <1>4, <2>5
<1>9. QED  BY <1>7, <1>8

\* The template of one Sigbash signer and others.
LEMMA MixedSound ==
  ASSUME NEW s \in Sources, s.by = "mixed"
  PROVE  ThresholdSound(s)
<1> DEFINE a == s.signers
           n == Len(a)
           q == Len(Tail(a))
           t == s.threshold
           k == s.threshold + 1
           c == CanonicalOrder(a)
           chosen == Subsets(q, t)
           sa == AllBehind(chosen)
           w == WalletOf[s]
           yes == TRUE
<1> SUFFICES ASSUME Declared(s), SignersValid(s.network, a)
             PROVE  IsWallet(w) /\ Groups(w) = GroupsOf(a, k, yes)
  BY DEF ThresholdSound, GroupsOf
<1>1. /\ n \in Nat /\ n <= 6 /\ t \in 1 .. 2 /\ t < n /\ a \in Seq(WalletSigner)
      /\ \A i \in 1 .. n : a[i].kind = Sigbash <=> i = 1
  BY SourceType DEF Declared
<1>2. /\ q = n - 1 /\ n >= 1 /\ <<Head(a)>> \o Tail(a) = a
  BY HeadAndTail
<1>3. q \in Nat /\ q <= 5 /\ q >= 1 /\ t \in 1 .. 3 /\ t <= q /\ q + 1 = n
  BY <1>1, <1>2
<1>4. w = Build(s.network, a, sa, NoRecovery)
  <2>1. w = SigbashPlusExternal(s.network, Head(a), Tail(a), t)
    BY DEF WalletOf, Constructed
  <2>2. q \in 1 .. 5 /\ t \in 1 .. 2 /\ t <= q
    <3> HIDE DEF q, t, n, a
    <3>1. QED  BY <1>1, <1>3
  <2>3. w = Build(s.network, <<Head(a)>> \o Tail(a), sa, NoRecovery)
    BY <2>1, <2>2 DEF SigbashPlusExternal, Behind, AllBehind
  <2>4. QED  BY <1>2, <2>3
<1>5. PICK m \in Nat : 1 <= m /\ m <= 125 /\ ListOfChoices(chosen, m, q, t)
  BY <1>3, SubsetsListed
<1> HIDE DEF chosen
<1>6. /\ sa \in Seq(Seq(Nat)) /\ Len(sa) = m /\ Distinct(m, sa)
      /\ \A i \in 1 .. m : Choice(sa[i], q + 1, t + 1) /\ 0 \in ToSet(sa[i])
      /\ \A g \in SUBSET (0 .. q) :
           Cardinality(g) = t + 1 /\ 0 \in g => \E i \in 1 .. m : ToSet(sa[i]) = g
  <2>1. t \in Nat
    BY <1>1
  <2>2. q \in Nat /\ m \in Nat
    BY <1>3
  <2> HIDE DEF q, t
  <2>3. FirstChoices(sa, m, q, t)
    BY ONLY <1>5, <2>1, <2>2, AllWithFirst DEF sa
  <2>4. QED  BY <2>3 DEF FirstChoices
<1>7. Arranged(s.network, a, n, c)
  BY <1>1 DEF Arranged
<1>8. c[1] = a[1] /\ c[1].kind = Sigbash
  <2>1. c[1] = a[1]
    <3>1. OnlyFirst(n, a) /\ n >= 1
      BY <1>1, <1>2 DEF OnlyFirst
    <3> HIDE DEF a, n, c
    <3>2. QED  BY ONLY <1>7, <3>1, SigbashFirst
  <2>2. 1 \in 1 .. n
    BY <1>1, <1>2
  <2>3. QED  BY <1>1, <2>1, <2>2
<1>9. \A i \in 1 .. m : \E j \in ToSet(sa[i]) : c[j + 1].kind = Sigbash
  <2>1. 0 + 1 = 1
    OBVIOUS
  <2> HIDE DEF sa, c
  <2>2. c[0 + 1].kind = Sigbash
    BY <1>8, <2>1
  <2>3. QED  BY <1>6, <2>2
<1>10. k \in 1 .. 3 /\ k \in Nat
  BY <1>1
<1> HIDE DEF a, n, q, c, sa, w, yes
<1>11. Listed(sa, m, n, k, c)
  BY <1>3, <1>5, <1>6, <1>9, <1>10 DEF Listed
<1>12. AllGroups(sa, m, n, k, yes)
  <2>1. \A i \in 1 .. m : ToSet(sa[i]) \in SUBSET (0 .. n - 1) /\ Cardinality(ToSet(sa[i])) = k
    <3>1. n \in Nat /\ \A i \in 1 .. m : Choice(sa[i], n, k)
      BY <1>1, <1>3, <1>6
    <3> HIDE DEF k
    <3>2. QED  BY <1>10, <3>1, ChoiceCounts
  <2>2. \A g \in SUBSET (0 .. n - 1) :
          Cardinality(g) = k /\ 0 \in g => \E i \in 1 .. m : ToSet(sa[i]) = g
    <3>1. n - 1 = q
      BY <1>3
    <3>2. QED  BY <1>6, <3>1
  <2> HIDE DEF k
  <2>3. QED  BY <1>5, <1>6, <2>1, <2>2 DEF AllGroups, yes
<1>13. yes => c[1] = a[1]
  BY <1>8
<1> HIDE DEF k
<1>14. LET b == Build(s.network, a, sa, NoRecovery)
       IN  IsWallet(b) /\ Groups(b) = GroupsOf(a, k, yes)
  BY ONLY <1>7, <1>11, <1>12, <1>13, ThresholdMet
<1>15. QED  BY <1>4, <1>14

\* The template of any source.
LEMMA ThresholdsAreSound ==
  ASSUME NEW s \in Sources  PROVE ThresholdSound(s)
<1>1. CASE s.by = "native"
  BY <1>1, NativeSound
<1>2. CASE s.by = "mixed"
  BY <1>2, MixedSound
<1>3. CASE s.by # "native" /\ s.by # "mixed"
  BY <1>3 DEF ThresholdSound, Declared
<1>4. QED  BY <1>1, <1>2, <1>3

-----------------------------------------------------------------------------
(* The theorems.                                                           *)

\* The state is of its type: whatever is lost, late or refused, only the
\* operations of the interface and the reservations of the server occur.
THEOREM TypeCorrect == Spec => []TypeOK
<1>1. Provisioned => TypeOK
  <2>1. SUFFICES ASSUME Provisioned  PROVE TypeOK
    OBVIOUS
  <2>2. \A r \in Reservation : server[r].state \in Stages \cup {"absent"}
    BY <2>1 DEF Provisioned, ServerSound, Stored, Absent
  <2>3. view = None \/ view.reservation \in Reservation
    BY <2>1 DEF Provisioned, ViewSound
  <2>4. call # Idle => call.op \in Operations /\ call.at \in {"request", "answer"}
    BY <2>1 DEF Provisioned, CallSound, Shaped
  <2>5. late # Idle => late.op \in Operations /\ late.at = "request"
    BY <2>1 DEF Provisioned, LateSound, Shaped
  <2>6. QED  BY <2>1, <2>2, <2>3, <2>4, <2>5 DEF Provisioned, DoneSound, TypeOK
<1>2. QED  BY <1>1, AlwaysProvisioned, PTL

\* A reservation stores only what its own intent describes: the digest is the
\* wallet identity of that intent in whatever order it was submitted and
\* assembled, its clause digest is recorded against its Sigbash slot and, where
\* the slots are numbered canonically, every record was made for the root of its
\* own slot; and none is made of an intent with two Sigbash signers
\* (provisioning.ts:5-13, 142).
THEOREM ReservationIsSound == Spec => []ReservationSound
<1>1. ASSUME Provisioned, NEW r \in Reservation, Reserved(r)
      PROVE  /\ server[r].digest # None => server[r].digest = IdentityOf[server[r].intent]
             /\ SigbashCount(server[r].intent.signers) <= 1
             /\ server[r].records # None => Fits(server[r].slots, server[r].records)
  <2>1. Stored(server[r]) /\ source \in Sources
    BY <1>1, HeldIntent DEF Provisioned
  <2>2. PICK s \in Presentations[source] :
          /\ s \in Sources /\ SameIntent(s, source)
          /\ server[r].intent = Wire(s) /\ Preflight(s)
    BY <1>1, HeldIntent
  <2>3. ASSUME server[r].digest # None
        PROVE  server[r].digest = IdentityOf[server[r].intent]
    <3>1. PICK t \in Presentations[source] :
            server[r].digest = DigestOf[t] /\ DigestOf[t] # Refused
      BY <2>1, <2>3 DEF Stored, Digests
    <3>2. t \in Sources /\ SameIntent(s, t)
      BY <2>1, <3>1, PresentationsKept, PresentedTogether
    <3>3. QED  BY <2>2, <3>1, <3>2, DigestIsIdentity
  <2>4. SigbashCount(server[r].intent.signers) <= 1
    BY <2>2, WireCounts DEF Preflight
  <2>5. QED  BY <2>1, <2>3, <2>4 DEF Stored
<1>2. Provisioned => CommittedDigest /\ RecordsFitSlots /\ NoMultiReserved
  BY <1>1 DEF CommittedDigest, RecordsFitSlots, NoMultiReserved, Fits, Reserved
<1>3. QED  BY <1>2, AlwaysProvisioned, TypeCorrect, PTL DEF ReservationSound

\* What the application was told is done, the server has done, through lost and
\* unreadable answers, repeated calls and requests that arrive late
\* (provisioning.ts:255).
THEOREM ToldIsDone == Spec => []ReportedIsDone
<1>1. Provisioned => ReportedIsDone
  BY DEF Provisioned, DoneSound, Told, Reserved, ReportedIsDone
<1>2. QED  BY <1>1, AlwaysProvisioned, PTL

\* Every wallet the application handles is in the one canonical form: built,
\* stored as a template with its key left out, and resolved again
\* (walletBuilder.ts:8-12).
THEOREM OneForm == Spec => []CanonicalForm
<1>1. Restorable => CanonicalForm
  <2>1. SUFFICES ASSUME Restorable, NEW w \in {WalletOf[source], template, resolved},
                        w # None, w # Refused
                 PROVE  Canonical(w)
    BY DEF CanonicalForm
  <2>2. CASE w = WalletOf[source]
    BY <2>1, <2>2, WalletSound DEF Restorable, Provisioned, IsWallet, Sound
  <2>3. CASE w = template
    <3>1. PICK s \in Held : /\ IsWallet(WalletOf[s]) /\ template = SystemPayload(WalletOf[s])
                            /\ template # Refused
      BY <2>1, <2>3 DEF Restorable, TemplateSound
    <3>2. s \in Sources
      BY <2>1, <3>1, HeldSound DEF Restorable, Provisioned
    <3>3. QED  BY <2>3, <3>1, <3>2, WalletSound, PayloadCanonical
  <2>4. CASE w = resolved
    BY <2>1, <2>4 DEF Restorable, ResolvedSound
  <2>5. QED  BY <2>1, <2>2, <2>3, <2>4
<1>2. QED  BY <1>1, AlwaysRestorable, PTL

\* A stored template resolves to the wallet it was made of, whatever origin the
\* key container adds and in whatever order the intent is held when it is
\* resolved (reqkeyTemplate.ts:380).
THEOREM RoundTrip == Spec => []TemplateRoundTrip
<1>1. Restorable => TemplateRestores
  BY DEF Restorable, ResolvedSound
<1>2. QED  BY <1>1, AlwaysRestorable, OneForm, PTL DEF TemplateRoundTrip

\* The tree of every wallet constructed commits to what the wallet says, for
\* every set of sources, whatever the provisioning does.
THEOREM TreeIsSound == Spec => []TreeSound
<1>1. \A s \in Sources : IsWallet(WalletOf[s]) =>
        /\ LeavesSound(WalletOf[s])
        /\ CandidatesSound(WalletOf[s])
        /\ DecaySound(WalletOf[s])
  <2> SUFFICES ASSUME NEW s \in Sources, IsWallet(WalletOf[s])
               PROVE  /\ LeavesSound(WalletOf[s])
                      /\ CandidatesSound(WalletOf[s])
                      /\ DecaySound(WalletOf[s])
    OBVIOUS
  <2>1. PICK w : w = WalletOf[s]
    OBVIOUS
  <2>2. RootsDiffer(w) => Plantable(w)
    BY <2>1, SourcePlantable
  <2>3. RecoveryValid(w.recovery)
    BY <2>1, WalletSound DEF Sound
  <2>4. LeavesSound(w)
    BY ONLY <2>2, <2>3, LeavesAreSound
  <2>5. CandidatesSound(w)
    BY ONLY <2>2, CandidatesAreSound
  <2>6. DecaySound(w)
    BY ONLY <2>3, DecayIsSound
  <2>7. QED  BY <2>1, <2>4, <2>5, <2>6
<1>2. \A s \in Sources : s \in LeavesSoundFor /\ s \in CandidatesSoundFor /\ s \in DecaySoundFor
  BY <1>1 DEF LeavesSoundFor, CandidatesSoundFor, DecaySoundFor, SoundWallets
<1>3. source \in Sources => TreeSound
  BY <1>2, ThresholdsAreSound DEF TreeSound, LeavesProve, CandidateUniverse, DecayCommitted,
       ThresholdExact
<1>4. TypeOK => TreeSound
  BY <1>3 DEF TypeOK
<1>5. QED  BY <1>4, TypeCorrect, PTL

=============================================================================
