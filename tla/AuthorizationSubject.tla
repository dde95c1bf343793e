------------------------ MODULE AuthorizationSubject -------------------------
(***************************************************************************)
(* What an authorization is bound to: the challenge of a transaction       *)
(* (src/contracts/authorizationSubject.ts), the proof envelope             *)
(* (src/authorization/envelope.ts, adapterRegistry.ts) and the adapter     *)
(* that derives one from the other (bitcoinPsbtAdapter.ts, psbt.ts).       *)
(*                                                                         *)
(* A subject is what parsing a PSBT leaves of it, or Malformed.  A hash is *)
(* the record of what is hashed.  Positions start at 1, where the source   *)
(* starts at 0.  Of a session's commitments the verifier only compares, so *)
(* they are one value, "pins".                                             *)
(***************************************************************************)
EXTENDS Naturals, Sequences

Malformed == [malformed |-> TRUE]
Refused == [refused |-> TRUE]
NoLeaf == "none"

\* 0x00, 0x01 and 0x81; every other declaration is outside the lane.
AcceptedPostures == {"default", "all", "acp"}

\* One input: its outpoint and sequence, the posture it declares, the
\* output it spends, where that output is found and its first tap leaf.
Input(outpoint, sequence, posture, prevout, from, leaf) ==
  [outpoint |-> outpoint, sequence |-> sequence, posture |-> posture,
   prevout |-> prevout, from |-> from, leaf |-> leaf]

\* resolvePrevout: from the witness UTXO, else from the whole transaction.
Resolvable(input) == input.from \in {"witness", "transaction"}
IsP2TR(prevout) == prevout.shape = "p2tr"

\* The ACP encoding only asks for a script of 34 bytes.
Is34Bytes(prevout) == prevout.shape \in {"p2tr", "p2wsh"}

\* checkVerifiable: the postures the lane can encode; of several positions
\* the last is never an ANYONECANPAY one.
CheckVerifiable(s) ==
  /\ s # Malformed /\ s.inputs # <<>>
  /\ \A i \in DOMAIN s.inputs :
       LET input == s.inputs[i]
       IN  /\ input.posture \in AcceptedPostures
           /\ Resolvable(input)
           /\ input.posture = "acp" =>
                /\ IsP2TR(input.prevout) /\ input.from = "witness"
                /\ i = Len(s.inputs) => Len(s.inputs) = 1

-----------------------------------------------------------------------------
(* The challenge.                                                          *)

\* What a preimage takes of an input.
Spend(input) ==
  [outpoint |-> input.outpoint, sequence |-> input.sequence,
   prevout |-> input.prevout]

(***************************************************************************)
(* keyPathPreimage, acpPreimage and their tapscript forms: all inputs and  *)
(* the position, or for ANYONECANPAY its own input and no position; every  *)
(* output.  The adapter takes version 2 and lock time 0 by default, so the *)
(* transaction's own are in no preimage.                                   *)
(***************************************************************************)
Preimage(s, position, acp, leaf) ==
  [acp |-> acp, leaf |-> leaf, outputs |-> s.outputs,
   inputs |-> IF acp THEN <<Spend(s.inputs[position])>>
              ELSE [i \in DOMAIN s.inputs |-> Spend(s.inputs[i])],
   position |-> IF acp THEN 0 ELSE position]

\* authzDeriveRNonceX, authzPrevoutQ and authzEHat with the zero sigma.
EHat(salt, session, prevout, preimage) ==
  [rX |-> <<salt, session>>, qX |-> prevout.key, sighash |-> preimage]

-----------------------------------------------------------------------------
(* The envelope.                                                           *)

\* parseAuthorizationEnvelope, as far as it is not a check of widths.
EnvelopeParses(e) ==
  /\ e.version = 1
  /\ e.positions # <<>>
  /\ e.completing \in DOMAIN e.positions

CompletingBundle(e) == e.positions[e.completing]

\* Mutant of CovenantWriteCommit: the last chunk, final or not.
LastWriteCommit(chunks) ==
  IF chunks = <<>> THEN "zero" ELSE chunks[Len(chunks)].commit

\* selectCovenantWriteCommit: the first final chunk, else the last, else zero.
CovenantWriteCommit(chunks) ==
  LET final == {i \in DOMAIN chunks : chunks[i].final}
      first == CHOOSE i \in final : \A j \in final : i <= j
  IN  IF final # {} THEN chunks[first].commit
      ELSE IF chunks # <<>> THEN chunks[Len(chunks)].commit ELSE "zero"

\* authorizationPinAggregateFromEnvelope: the completing bundle alone.
PinAggregate(e) ==
  LET bundle == CompletingBundle(e)
  IN  [tag |-> "pins", session |-> e.session, eHat |-> bundle.challengeE,
       mode |-> bundle.mode, pins |-> bundle.pins,
       write |-> CovenantWriteCommit(bundle.chunks)]

\* authorizationBurnSetAggregateFromEnvelope, and authzBurnSetAggregate over
\* an echoed pair.
BurnAggregate(session, pair) == [tag |-> "burn", session |-> session, pair |-> pair]
BurnPairOf(e) == CompletingBundle(e).burn

\* Mutant of ActionKey: the other nullifier of the pair.
ActionKeyOfN1(pair) == [tag |-> "action", n0 |-> pair[2]]

\* authorizationActionKeyFromBurnPair.
ActionKey(pair) == [tag |-> "action", n0 |-> pair[1]]

\* The tap leaf a completing position is derived with: the disclosed one,
\* which the PSBT's own must equal, or the PSBT's.
LeafAgrees(input, posture) ==
  IF posture.branch = "tapscript"
  THEN /\ posture.leaf # NoLeaf \/ input.leaf # NoLeaf
       /\ posture.leaf # NoLeaf /\ input.leaf # NoLeaf => posture.leaf = input.leaf
  ELSE input.leaf = NoLeaf

LeafOf(input, posture) ==
  IF posture.branch # "tapscript" THEN NoLeaf
  ELSE IF posture.leaf # NoLeaf THEN posture.leaf ELSE input.leaf

(***************************************************************************)
(* rederiveCompletingEHat: the completing position is the envelope's, and  *)
(* so is the posture, never the one the PSBT declares.                     *)
(***************************************************************************)
RederiveEHat(s, e, salt) ==
  LET posture == CompletingBundle(e).posture
      acp == posture.hashType = "acp"
      input == s.inputs[e.completing]
  IN  IF /\ posture.isAcp = acp
         /\ e.completing \in DOMAIN s.inputs
         /\ \A i \in DOMAIN s.inputs : Resolvable(s.inputs[i])
         /\ LeafAgrees(input, posture)
         /\ acp => Is34Bytes(input.prevout)
      THEN EHat(salt, e.session, input.prevout,
                Preimage(s, e.completing, acp, LeafOf(input, posture)))
      ELSE Refused

\* authzScope.
Scope(credential, index) == [credential |-> credential, index |-> index]

=============================================================================
