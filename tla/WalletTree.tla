----------------------------- MODULE WalletTree ------------------------------
(***************************************************************************)
(* The tap tree of a wallet (src/wallet/taptree.ts), the canonical text    *)
(* view of it (src/wallet/canonicalText.ts) and the identity derived from  *)
(* the text (src/wallet/walletIdentity.ts).                                *)
(*                                                                         *)
(* A hash is the record of what is hashed: injective, and nothing else is  *)
(* known of it.  A script is the operator, the keys it demands and the     *)
(* pushed block count; all-keys-required leaves sort their keys, so a set  *)
(* of keys is the whole of them.  The order of hashes is some order of the *)
(* scripts, fixed once and unrelated to the wallet's own orders.           *)
(***************************************************************************)
EXTENDS WalletBuilder

CONSTANT MaxIndex   \* the last derivation index of a branch, 255 in the source

ASSUME IndexAssumption == MaxIndex \in Nat

Receive == 0
Change == 1
Branches == {Receive, Change}
PerBranch == MaxIndex + 1
CandidateCount == 2 * PerBranch

\* parseExtendedPublicKey then deriveWalletChildKey: the same branch and
\* index for every root, the x-only form of the child.
ChildKey(signer, branch, index) == <<RootOf[signer.xpub], branch, index>>

\* The bytes of a positive number, least significant first.
PlaceValue == <<1, 256, 65536>>
ByteCount(v) == IF v < 256 THEN 1 ELSE IF v < 65536 THEN 2 ELSE 3
BytesOf(v) == [i \in 1 .. ByteCount(v) |-> (v \div PlaceValue[i]) % 256]

(***************************************************************************)
(* scriptNumPush: an opcode up to 16, then the minimal signed bytes behind *)
(* their length; a set top bit forces a zero byte.                         *)
(***************************************************************************)
ScriptNum(v) ==
  LET bytes == BytesOf(v)
      signed == IF bytes[Len(bytes)] >= 128 THEN Append(bytes, 0) ELSE bytes
  IN  IF v = 0 THEN <<0>>
      ELSE IF v <= 16 THEN <<80 + v>>
      ELSE <<Len(signed)>> \o signed

\* The reference for a push: what the interpreter reads from it - an opcode, or
\* as many bytes as the length says in the shortest form, of which the top bit
\* is the sign.
Digit(push, i) == IF i <= push[1] THEN push[i + 1] * PlaceValue[i] ELSE 0
Shortest(push) ==
  LET last == Len(push)
  IN  /\ push[1] = last - 1 /\ last \in 2 .. 4
      /\ push[last] = 0 => last > 2 /\ push[last - 1] >= 128
      /\ last = 2 => push[2] > 16
NumberOf(push) ==
  IF push = <<0>> THEN 0
  ELSE IF Len(push) = 1 THEN push[1] - 80
  ELSE IF Shortest(push) /\ push[Len(push)] < 128
    THEN Digit(push, 1) + Digit(push, 2) + Digit(push, 3)
  ELSE 0 - 1

Script(op, keys, size, push) ==
  [op |-> op, keys |-> keys, size |-> size, push |-> push]
SortedMulti(keys) ==
  Script("sortedmulti_a", ToSet(keys), Len(keys), <<>>)
PkScript(key) == Script("pk", {<<key>>}, 1, <<>>)
DecayScript(key, blocks) == Script("older_pk", {<<key>>}, 1, ScriptNum(blocks))

Leaf(script) == [tag |-> "TapLeaf", of |-> {script}]

\* tapBranchHash sorts its two children, so their order is not in the hash.
Join(a, b) == [tag |-> "TapBranch", of |-> {a, b}]

\* Ascending raw hash order.
ByHash(scripts) == SetToSeq(scripts)

SetScript(w, set, branch, index) ==
  SortedMulti([i \in DOMAIN set |->
    ChildKey(w.signers[set[i] + 1], branch, index)])

RecoveryScripts(r) ==
  (IF r.always THEN {PkScript(r.key)} ELSE {})
    \cup (IF r.decay THEN {DecayScript(r.key, r.blocks)} ELSE {})

Scripts(w, branch, index) ==
  {SetScript(w, w.sets[i], branch, index) : i \in DOMAIN w.sets}
    \cup RecoveryScripts(w.recovery)

\* buildLeaves and the ambiguity check of buildWalletTapTree: no key twice
\* in a leaf, no two leaves of one hash.
LeavesDistinct(w, branch, index) ==
  /\ \A i \in DOMAIN w.sets :
       LET s == SetScript(w, w.sets[i], branch, index)
       IN  Cardinality(s.keys) = s.size
  /\ \A i, j \in DOMAIN w.sets : i # j =>
       SetScript(w, w.sets[i], branch, index)
         # SetScript(w, w.sets[j], branch, index)

\* The runs of leaves that split visits, leaves r[1] + 1 to r[2], and their
\* ceil(len / 2) halves.
Runs(n) == {r \in (0 .. n) \X (0 .. n) : r[1] < r[2]}
Single(r) == r[2] = r[1] + 1
Middle(r) == r[1] + (r[2] - r[1] + 1) \div 2
LowerHalf(r) == <<r[1], Middle(r)>>
UpperHalf(r) == <<Middle(r), r[2]>>

\* split: the hash of the subtree over each run.
Subtree(leaves) ==
  LET node[r \in Runs(Len(leaves))] ==
        IF Single(r) THEN Leaf(leaves[r[2]])
        ELSE Join(node[LowerHalf(r)], node[UpperHalf(r)])
  IN  node

\* Mutant of Siblings: they are recorded root first.
SiblingsRootFirst(leaves, k) ==
  LET node == Subtree(leaves)
      path[r \in Runs(Len(leaves))] ==
        IF Single(r) THEN <<>>
        ELSE IF k <= Middle(r) THEN <<node[UpperHalf(r)]>> \o path[LowerHalf(r)]
        ELSE <<node[LowerHalf(r)]>> \o path[UpperHalf(r)]
  IN  path

\* The siblings of leaf k within each run that has it, recorded as split
\* unwinds, leaf to root.
Siblings(leaves, k) ==
  LET node == Subtree(leaves)
      path[r \in Runs(Len(leaves))] ==
        IF Single(r) THEN <<>>
        ELSE IF k <= Middle(r) THEN Append(path[LowerHalf(r)], node[UpperHalf(r)])
        ELSE Append(path[UpperHalf(r)], node[LowerHalf(r)])
  IN  path

\* The reference for a path: the hashes a verifier computes from a leaf and
\* the siblings on its path, and the last of them.
Hashes(leaf, path) ==
  LET hash[j \in 0 .. Len(path)] ==
        IF j = 0 THEN leaf ELSE Join(hash[j - 1], path[j])
  IN  hash

Climb(leaf, path) == Hashes(leaf, path)[Len(path)]

(***************************************************************************)
(* buildWalletTapTree: the NUMS internal key has no private half, so the   *)
(* output key is a function of the root alone.                             *)
(***************************************************************************)
Tree(w, branch, index) ==
  LET leaves == ByHash(Scripts(w, branch, index))
      whole == <<0, Len(leaves)>>
      root == Subtree(leaves)[whole]
  IN  IF branch \in Branches /\ index \in 0 .. MaxIndex
           /\ LeavesDistinct(w, branch, index)
      THEN [root |-> root,
            outputKey |-> [tag |-> "TapTweak", of |-> {root}],
            hrp |-> VersionOf(w.network),
            leaves |-> [k \in DOMAIN leaves |->
              [script |-> leaves[k], path |-> Siblings(leaves, k)[whole]]]]
      ELSE Refused

\* deriveWalletReqkeyCandidate: receive indices, then change indices.
CandidateBranch(i) == IF i < PerBranch THEN Receive ELSE Change
CandidateIndex(i) == IF i < PerBranch THEN i ELSE i - PerBranch

Candidate(w, i) ==
  LET tree == Tree(w, CandidateBranch(i), CandidateIndex(i))
  IN  IF tree = Refused THEN Refused ELSE tree.outputKey

-----------------------------------------------------------------------------
(* The text view and the fingerprint.                                      *)

KeyExpression(signer, branch, placeholder, omitOrigin) ==
  <<IF omitOrigin THEN NoOrigin ELSE signer.origin,
    IF placeholder /\ signer.kind = Sigbash THEN Placeholder ELSE signer.xpub,
    branch>>

SetText(w, set, branch, placeholder, omitOrigin) ==
  <<"sortedmulti_a",
    [i \in DOMAIN set |->
      KeyExpression(w.signers[set[i] + 1], branch, placeholder, omitOrigin)]>>

TextsOf(w, script, branch, placeholder, omitOrigin) ==
  {SetText(w, w.sets[i], branch, placeholder, omitOrigin) :
     i \in {j \in DOMAIN w.sets : SetScript(w, w.sets[j], branch, 0) = script}}
    \cup {<<script.op, script.keys, script.push>> :
            s \in RecoveryScripts(w.recovery) \cap {script}}

(***************************************************************************)
(* canonicalWalletDescriptorText: the leaves in the hash order of the      *)
(* branch's reference derivation, index 0.  Only two leaves of one hash    *)
(* are refused: a key twice within a leaf is not looked for here.          *)
(***************************************************************************)
Text(w, branch, placeholder, omitOrigin) ==
  LET scripts == ByHash(Scripts(w, branch, 0))
      texts(s) == TextsOf(w, s, branch, placeholder, omitOrigin)
  IN  IF /\ branch \in Branches
         /\ placeholder => SigbashCount(w.signers) = 1
         /\ \A s \in ToSet(scripts) : Cardinality(texts(s)) = 1
      THEN [leaves |-> [k \in DOMAIN scripts |->
                         CHOOSE t \in texts(scripts[k]) : TRUE]]
      ELSE Refused

\* walletFingerprint over the origin-less texts of both branches.
Fingerprint(w) ==
  LET texts == [b \in Branches |-> Text(w, b, FALSE, TRUE)]
  IN  IF \E b \in Branches : texts[b] = Refused THEN Refused
      ELSE [tag |-> "WALLET", of |-> {<<w.network, texts>>}]

=============================================================================
