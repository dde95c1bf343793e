---------------------------- MODULE WalletBuilder ----------------------------
(***************************************************************************)
(* Canonical wallet construction (src/wallet/walletBuilder.ts and          *)
(* src/wallet/xpubImport.ts): the checks, the two orders every later       *)
(* consumer relies on, the templates and the contract record form.         *)
(*                                                                         *)
(* Extended keys and policy key ids are numbers, so that text order is <;  *)
(* RootOf says which key and chain code an xpub carries (two texts may     *)
(* carry one root) and NetOf which version bytes.  Every refusal of the    *)
(* source throws; here it is Refused.  Signer indices start at 0 as in the *)
(* source, so signer i of a wallet is signers[i + 1].                      *)
(***************************************************************************)
EXTENDS Naturals, FiniteSets, SequencesExt, StableSorting

CONSTANTS
  Xpub,         \* extended public keys offered as signer roots
  RootOf,       \* the key and chain code of each
  NetOf,        \* its version bytes: "main", "test", or "private"
  Origin,       \* the key origins (fingerprint and path) a root may carry
  MaxSigners,   \* bound of the source: signer roots of one wallet
  MaxSets,      \* bound of the source: leaves of one wallet
  MaxDecay      \* bound of the source: blocks of a decay branch

ASSUME WalletAssumption ==
  /\ Xpub \subseteq Nat \ {0}
  /\ DOMAIN RootOf = Xpub
  /\ NetOf \in [Xpub -> {"main", "test", "private"}]
  /\ MaxSigners \in Nat \ {0}
  /\ MaxSets \in Nat /\ MaxSets >= 125   \* room for every template
  /\ MaxDecay \in Nat \ {0} /\ MaxDecay <= 65535   \* two bytes of blocks

Refused == [refused |-> TRUE]
IsWallet(w) == w # Refused

Sigbash == "sigbash_policy_key"
External == "external_xpub"
NoId == 0
Placeholder == 0   \* the text SIGBASH_XPUB, no extended key
NoOrigin == "none"
NoRecovery == [key |-> "none", always |-> FALSE, decay |-> FALSE, blocks |-> 0]

WalletSigner ==
  [kind : {Sigbash, External}, xpub : Nat, policyKeyId : Nat,
   origin : Origin \cup {NoOrigin}]
Signer(kind, xpub, id, origin) ==
  [kind |-> kind, xpub |-> xpub, policyKeyId |-> id, origin |-> origin]

\* Signet and testnet share version bytes (constants.ts:69).
VersionOf(network) == IF network = "mainnet" THEN "main" ELSE "test"

\* parseExtendedPublicKey: known text, public, and of the wallet's network.
Importable(network, xpub) ==
  /\ xpub \in Xpub
  /\ NetOf[xpub] = VersionOf(network)

SigbashCount(signers) ==
  Cardinality({i \in DOMAIN signers : signers[i].kind = Sigbash})

\* WALLET_SIGNER_KIND_ORDER, then xpub, then policy key id.
KindOrder(s) == IF s.kind = Sigbash THEN 1 ELSE 2
SignerLess(a, b) ==
  \/ KindOrder(a) < KindOrder(b)
  \/ KindOrder(a) = KindOrder(b) /\ a.xpub < b.xpub
  \/ /\ KindOrder(a) = KindOrder(b) /\ a.xpub = b.xpub
     /\ a.policyKeyId < b.policyKeyId

\* One list is the other in some order.
Rearranged(a, b) ==
  \E p \in Bijection(DOMAIN a, DOMAIN b) : \A i \in DOMAIN a : a[i] = b[p[i]]

CanonicalOrder(signers) ==
  StableSort(signers, {p \in PairsOf(signers) : SignerLess(p[1], p[2])})

\* validateWalletSigner and the two duplicate checks of the builder.
SignersValid(network, signers) ==
  /\ Len(signers) \in 1 .. MaxSigners
  /\ \A i \in DOMAIN signers :
       /\ (signers[i].kind = Sigbash) = (signers[i].policyKeyId # NoId)
       /\ Importable(network, signers[i].xpub)
  /\ \A i, j \in DOMAIN signers : i # j =>
       /\ signers[i].xpub # signers[j].xpub
       /\ signers[i].kind = Sigbash /\ signers[j].kind = Sigbash
            => signers[i].policyKeyId # signers[j].policyKeyId

\* Every leaf has 1..3 distinct signers, at least one of them Sigbash's.
SetValid(signers, set) ==
  /\ Len(set) \in 1 .. 3
  /\ IsInjective(set)
  /\ \A i \in ToSet(set) : i < Len(signers)
  /\ \E i \in ToSet(set) : signers[i + 1].kind = Sigbash

TupleLess(a, b) ==
  \/ \E i \in DOMAIN a \cap DOMAIN b :
       a[i] < b[i] /\ \A j \in 1 .. i - 1 : a[j] = b[j]
  \/ Len(a) < Len(b) /\ \A j \in DOMAIN a : a[j] = b[j]

Ascending(set) == StableSort(set, {p \in PairsOf(set) : p[1] < p[2]})
Lexicographic(sets) ==
  StableSort(sets, {p \in PairsOf(sets) : TupleLess(p[1], p[2])})

CanonicalSets(sets) == Lexicographic([i \in DOMAIN sets |-> Ascending(sets[i])])

\* normalizeRecovery: a decay branch never without the always-spendable one.
RecoveryValid(r) ==
  \/ r = NoRecovery
  \/ r.always /\ (r.decay => r.blocks \in 1 .. MaxDecay)

(***************************************************************************)
(* buildInstitutionalWalletDescriptor.  The indices of a set name          *)
(* positions in the canonical order, never in the order the caller gave.   *)
(***************************************************************************)
Build(network, signers, sets, recovery) ==
  LET canonical == CanonicalOrder(signers)
      normal == CanonicalSets(sets)
  IN  IF /\ SignersValid(network, canonical)
         /\ Len(sets) \in 1 .. MaxSets
         /\ \A i \in DOMAIN sets : SetValid(canonical, sets[i])
         /\ IsInjective(normal)
         /\ RecoveryValid(recovery)
      THEN [network |-> network, signers |-> canonical, sets |-> normal,
            recovery |-> recovery]
      ELSE Refused

\* One order of signers and of sets, whatever order they were given in.
Canonical(w) ==
  /\ \A i \in 2 .. Len(w.signers) : SignerLess(w.signers[i - 1], w.signers[i])
  /\ \A i \in 2 .. Len(w.sets) : TupleLess(w.sets[i - 1], w.sets[i])

\* enumerateWalletSubsets: every k-member ascending tuple, lexicographic.
Subsets(n, k) ==
  LET tuples == {t \in [1 .. k -> 0 .. n - 1] : \A i, j \in 1 .. k :
                   i < j => t[i] < t[j]}
  IN  Lexicographic(SetToSeq(tuples))

\* buildSigbashNativeMultisigWallet: any threshold of up to five.
NativeMultisig(network, signers, threshold) ==
  IF Len(signers) <= 5 /\ threshold \in 1 .. 3 /\ threshold <= Len(signers)
  THEN Build(network, signers, Subsets(Len(signers), threshold), NoRecovery)
  ELSE Refused

\* buildSigbashPlusExternalWallet: the Sigbash signer with any one or two
\* of the external roots.
SigbashPlusExternal(network, sigbash, externals, threshold) ==
  LET n == Len(externals)
      chosen == Subsets(n, threshold)
      sets == [i \in DOMAIN chosen |->
                <<0>> \o [j \in DOMAIN chosen[i] |-> chosen[i][j] + 1]]
  IN  IF n \in 1 .. 5 /\ threshold \in 1 .. 2 /\ threshold <= n
      THEN Build(network, <<sigbash>> \o externals, sets, NoRecovery)
      ELSE Refused

(***************************************************************************)
(* institutionalWalletFromContractRecord: the record form has no origins   *)
(* and no always-spendable flag, whose place a recovery key takes; decay   *)
(* blocks that are null (<<>>) become a branch with the minimum, unused,   *)
(* and 0 is a number of blocks that no wallet has.                         *)
(***************************************************************************)
FromRecord(record) ==
  LET bare(s) == Signer(s.kind, s.xpub, s.policyKeyId, NoOrigin)
      signers == [i \in DOMAIN record.signers |-> bare(record.signers[i])]
      recovery ==
        IF record.recoveryKey = "none" THEN NoRecovery
        ELSE [key |-> record.recoveryKey, always |-> TRUE,
              decay |-> record.decayBlocks # <<>>,
              blocks |-> IF record.decayBlocks = <<>> THEN 1
                         ELSE record.decayBlocks[1]]
  IN  IF record.walletMode = "sigbash_native"
           /\ SigbashCount(signers) # Len(signers)
      THEN Refused
      ELSE Build(record.network, signers, record.sets, recovery)

=============================================================================
