----------------------------- MODULE IssuerKeys ------------------------------
(***************************************************************************)
(* The issuer key sets of src/authorization/issuerKeySet.ts and the        *)
(* verification checklist of src/authorization/verify.ts over them.        *)
(*                                                                         *)
(* A document is what the server published, by value; its SHA-384 is the   *)
(* document itself.  An artifact is the record of its fields and of        *)
(* whether the received bytes are their canonical encoding; a signature    *)
(* names the key that made it and the artifact it is over.                 *)
(***************************************************************************)
EXTENDS AuthorizationSubject, Integers, FiniteSets

None == [none |-> TRUE]
NoIndex == -1
AnyRoot == "not given"
NoSalt == "not given"
Bitcoin == "bitcoin"
BitcoinPsbt == "bitcoin_psbt"
SoftwareEnforced == "software_enforced"

\* decodeAuthorizationArtifactV1: the version is read first; then only the
\* bytes that encoding the fields gives again will do.
Decoding(artifact) ==
  IF artifact.fields.version # 1 THEN "AUTHORIZATION_UNKNOWN_VERSION"
  ELSE IF ~artifact.canonical THEN "AUTHORIZATION_NON_CANONICAL" ELSE "OK"

\* parseIssuerKeysetDoc: its own network, each kid once, one of them active.
DocParses(doc, network) ==
  /\ doc.wellFormed /\ doc.network = network
  /\ doc.keys # <<>>
  /\ \A i, j \in DOMAIN doc.keys : i # j => doc.keys[i].kid # doc.keys[j].kid
  /\ \E i \in DOMAIN doc.keys : doc.keys[i].status = "active"

\* Mutant of Loaded: the document is not checked against the pin.
LoadedAnyhow(doc, network, pin) ==
  IF DocParses(doc, network) THEN [doc |-> doc, pinned |-> pin # None] ELSE Refused

\* loadIssuerKeySet once the answer is there.
Loaded(doc, network, pin) ==
  IF pin \in {None, doc} /\ DocParses(doc, network)
  THEN [doc |-> doc, pinned |-> pin # None]
  ELSE Refused

\* issuerKeyForKid: at most one entry, and an active one.
KeysForKid(set, kid) ==
  {set.doc.keys[i] : i \in {j \in DOMAIN set.doc.keys :
     set.doc.keys[j].kid = kid /\ set.doc.keys[j].status = "active"}}

\* Ed25519 over the exact received bytes.
SignatureVerifies(set, artifact, signature) ==
  \E key \in KeysForKid(set, artifact.fields.issuerKid) :
    signature = [by |-> key.publicKey, over |-> artifact]

InWindow(fields, time) == fields.issuedAt <= time /\ time <= fields.expiresAt

\* The key index of the scope: the caller's, else the key container's.
ScopeIndex(credential) ==
  IF credential.keyIndex # NoIndex THEN credential.keyIndex ELSE credential.kmcIndex

\* Mutant of ScopeAccepted: what cannot be recomputed is not checked.
ScopeAcceptedIfKnown(o, fields) ==
  \/ o.expectedScope # None /\ o.expectedScope = fields.scope
  \/ o.expectedScope = None /\ o.credential = None
  \/ /\ o.expectedScope = None /\ o.credential # None
     /\ \/ ScopeIndex(o.credential) = NoIndex
        \/ fields.scope = Scope(o.credential.identifier, ScopeIndex(o.credential))

\* Step 7: against the expected digest, else against the credential, else
\* not at all (the detail says so).
ScopeAccepted(o, fields) ==
  \/ o.expectedScope # None /\ o.expectedScope = fields.scope
  \/ o.expectedScope = None /\ o.credential = None
  \/ /\ o.expectedScope = None /\ o.credential # None
     /\ ScopeIndex(o.credential) # NoIndex
     /\ fields.scope = Scope(o.credential.identifier, ScopeIndex(o.credential))

\* Step 6: the envelope against the signed commitment, then the subject and
\* the salt against the envelope.
SubjectVerdict(o, fields) ==
  IF o.envelope = None THEN "SUBJECT_CHECK_UNAVAILABLE"
  ELSE IF PinAggregate(o.envelope) # fields.subjectCommitment THEN "SUBJECT_MISMATCH"
  ELSE IF o.subject = None \/ o.salt = NoSalt THEN "SUBJECT_CHECK_UNAVAILABLE"
  ELSE IF fields.subjectKind # BitcoinPsbt THEN "SUBJECT_KIND_UNKNOWN"
  ELSE IF ~CheckVerifiable(o.subject) THEN "SUBJECT_MISMATCH"
  ELSE IF RederiveEHat(o.subject, o.envelope, o.salt)
            # CompletingBundle(o.envelope).challengeE THEN "SUBJECT_MISMATCH"
  ELSE "VALID"

(***************************************************************************)
(* verifyAuthorization: the first of nine steps that fails, or VALID.      *)
(***************************************************************************)
Verdict(o) ==
  LET fields == o.artifact.fields
      step6 == SubjectVerdict(o, fields)
  IN  IF o.keySet = None THEN "ISSUER_UNKNOWN"
      ELSE IF Decoding(o.artifact) # "OK" THEN Decoding(o.artifact)
      ELSE IF KeysForKid(o.keySet, fields.issuerKid) = {} THEN "ISSUER_UNKNOWN"
      ELSE IF ~SignatureVerifies(o.keySet, o.artifact, o.signature)
           THEN "AUTHORIZATION_BAD_SIGNATURE"
      ELSE IF o.now < fields.issuedAt THEN "AUTHORIZATION_NOT_YET_VALID"
      ELSE IF ~InWindow(fields, o.now) THEN "AUTHORIZATION_EXPIRED"
      ELSE IF fields.protocol # Bitcoin THEN "SUBJECT_MISMATCH"
      ELSE IF fields.network # o.network THEN "NETWORK_MISMATCH"
      ELSE IF step6 # "VALID" THEN step6
      ELSE IF ~ScopeAccepted(o, fields) THEN "SCOPE_MISMATCH"
      ELSE IF o.expectedPolicyRoot \notin {AnyRoot, fields.policyRoot}
           THEN "POLICY_ROOT_MISMATCH"
      ELSE IF fields.strength \notin o.acceptedStrengths THEN "STRENGTH_REJECTED"
      ELSE "VALID"

=============================================================================
