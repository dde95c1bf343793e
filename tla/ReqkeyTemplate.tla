--------------------------- MODULE ReqkeyTemplate ---------------------------
(***************************************************************************)
(* The wallet-ownership REQKEY template (src/wallet/reqkeyTemplate.ts):    *)
(* the canonical encoding of a wallet with its one Sigbash xpub replaced   *)
(* by a placeholder, the digest of that encoding, and its resolution to    *)
(* the real xpub.  The encoding is length-prefixed throughout, so it is    *)
(* modelled as the record of the fields it carries.                        *)
(***************************************************************************)
EXTENDS WalletTree

CONSTANT Probe   \* per network, the fixed xpub that stands in for the placeholder

ASSUME ProbeAssumption == Probe \in [{"main", "test"} -> Xpub]

\* Mutant of Encode: the flag byte carries only the always-spendable branch.
EncodeWithoutDecay(w, substituted) ==
  [network |-> w.network,
   signers |-> [i \in DOMAIN w.signers |->
     IF i = substituted THEN [w.signers[i] EXCEPT !.xpub = Placeholder]
     ELSE w.signers[i]],
   sets |-> w.sets,
   recovery |-> [w.recovery EXCEPT !.blocks = 0, !.decay = FALSE]]

(***************************************************************************)
(* encodeWalletCanonicalBytes with its substitution.  The blocks of a      *)
(* recovery are written only for a decay branch.  The origin of every      *)
(* signer is written.                                                      *)
(***************************************************************************)
Encode(w, substituted) ==
  [network |-> w.network,
   signers |-> [i \in DOMAIN w.signers |->
     IF i = substituted THEN [w.signers[i] EXCEPT !.xpub = Placeholder]
     ELSE w.signers[i]],
   sets |-> w.sets,
   recovery |-> [w.recovery EXCEPT !.blocks = IF w.recovery.decay THEN @ ELSE 0]]

\* walletReqkeyTemplatePayload: defined for exactly one Sigbash signer.
Payload(w) ==
  IF SigbashCount(w.signers) # 1 THEN Refused
  ELSE Encode(w, CHOOSE i \in DOMAIN w.signers : w.signers[i].kind = Sigbash)

\* walletReqkeyClauseDigest: a hash of the payload's bytes.
ClauseDigest(w) ==
  IF Payload(w) = Refused THEN Refused
  ELSE [tag |-> "REQKEYDIGEST", of |-> {Payload(w)}]

HoldsPlaceholder(parts) ==
  /\ SigbashCount(parts.signers) = 1
  /\ \E i \in DOMAIN parts.signers :
       parts.signers[i].kind = Sigbash /\ parts.signers[i].xpub = Placeholder

\* The placeholder replaced by an xpub, and by its origin where the caller
\* gives one.
Substitute(parts, xpub, origin) ==
  [i \in DOMAIN parts.signers |->
    LET s == parts.signers[i]
    IN  IF s.kind # Sigbash \/ s.xpub # Placeholder THEN s
        ELSE [s EXCEPT !.xpub = xpub,
                       !.origin = IF origin = NoOrigin THEN @ ELSE origin]]

\* decodeWalletReqkeyTemplate: the builder's checks run again on the
\* resolved signers.
Decode(parts, xpub, origin) ==
  IF parts = Refused \/ ~HoldsPlaceholder(parts) THEN Refused
  ELSE Build(parts.network, Substitute(parts, xpub, origin), parts.sets,
             parts.recovery)

\* validateWalletReqkeyTemplate and systemPolicyReqkeyTemplatePayload: the
\* full candidate universe, and a wallet the builder accepts with the probe.
TemplateValid(parts, range) ==
  /\ parts # Refused
  /\ range \in {0, CandidateCount}
  /\ HoldsPlaceholder(parts)
  /\ IsWallet(Decode(parts, Probe[VersionOf(parts.network)], NoOrigin))

SystemPayload(w) ==
  IF TemplateValid(Payload(w), CandidateCount) THEN Payload(w) ELSE Refused

=============================================================================
