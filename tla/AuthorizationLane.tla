-------------------------- MODULE AuthorizationLane ---------------------------
(***************************************************************************)
(* Issuing and verifying authorizations: SigbashClient.authorizePSBT,      *)
(* fetchIssuerKeySet and verifyAuthorization over one process-wide cache   *)
(* of issuer key sets, with a server that rotates its issuer keys and      *)
(* consumes each allowance once.                                           *)
(*                                                                         *)
(* A call's options are its network, its subject and its lifetime.  The    *)
(* WASM export and the server are external: the export proves a subject it *)
(* can encode in a session it may repeat, the server replays the artifact  *)
(* of a consumed allowance or says that it was consumed, and any answer    *)
(* may be lost.                                                            *)
(***************************************************************************)
EXTENDS IssuerKeys

CONSTANTS Calls,         \* authorizePSBT calls, each made once
          Networks,
          KeyNetwork,    \* the network the one key is registered on
          Options,       \* names of the options a call may be made with
          OptionsOf,     \* [Options -> [network, subject, lifetime]]
          Subjects,      \* the subjects a verifier may be shown
          Sessions,      \* proof sessions the export may choose
          Salt,          \* the client's salt
          Credential,    \* the key's authorization credential
          Pin,           \* [Networks -> None or a document], out of band
          MaxLifetime,   \* 86400 seconds
          MaxRotations,  \* bound on the server's rotations
          MaxTime        \* bound on the clock

\* A call's options are of known networks and of a subject a verifier may be
\* shown, which is given and, if parsed, has a sequence of inputs; there is a
\* salt, and a credential without the caller's own key index; the bounds are
\* numbers.
ASSUME LaneAssumption ==
  /\ KeyNetwork \in Networks
  /\ None \notin Subjects
  /\ \A s \in Subjects \ {Malformed} :
       s.inputs \in Seq({s.inputs[i] : i \in DOMAIN s.inputs})
  /\ \A o \in Options :
       /\ OptionsOf[o].network \in Networks
       /\ OptionsOf[o].subject \in Subjects
       /\ OptionsOf[o].lifetime \in Nat
  /\ Salt # NoSalt
  /\ Credential \in [identifier : STRING \ {"other"}, keyIndex : {NoIndex}, kmcIndex : Nat]
  /\ {MaxLifetime, MaxRotations, MaxTime} \subseteq Nat

VARIABLES now,
          rotated,   \* how often the server rotated each network's key
          cache,     \* keySetCache
          load,      \* a caller's fetchIssuerKeySet in flight, or None
          calls,     \* the authorizePSBT calls
          issued     \* the server's records of consumed allowances

vars == <<now, rotated, cache, load, calls, issued>>

-----------------------------------------------------------------------------
(* What the server publishes and what the WASM exports.                    *)

Kid(n, k) == <<n, k>>

\* The document after r rotations: the last key is active.
Doc(n, r) ==
  [wellFormed |-> TRUE, network |-> n,
   keys |-> [k \in 1..(r + 1) |->
               [kid |-> Kid(n, k), publicKey |-> Kid(n, k),
                status |-> IF k = r + 1 THEN "active" ELSE "retired"]]]

Garbage(n) == [Doc(n, 0) EXCEPT !.wellFormed = FALSE]

\* The one allowance all of the calls would consume, and what is burned with
\* it at a position.
BurnPair(session, i) == <<"allowance", <<"n1", session, i>>>>

\* A position of the export declares what its input does.
Position(s, i, session) ==
  LET input == s.inputs[i]
      acp == input.posture = "acp"
  IN  [challengeE |-> EHat(Salt, session, input.prevout, Preimage(s, i, acp, input.leaf)),
       mode |-> "cooperative",
       posture |-> [hashType |-> input.posture, isAcp |-> acp, leaf |-> input.leaf,
                    branch |-> IF input.leaf = NoLeaf THEN "keypath" ELSE "tapscript"],
       burn |-> BurnPair(session, i), pins |-> <<"pins", session>>,
       chunks |-> <<[final |-> FALSE, commit |-> "first"], [final |-> TRUE, commit |-> "final"],
                    [final |-> FALSE, commit |-> "after"]>>]

EnvelopeOf(s, session) ==
  [version |-> 1, session |-> session, completing |-> Len(s.inputs),
   positions |-> [i \in DOMAIN s.inputs |-> Position(s, i, session)]]

\* What the issuer signs of a session that completes on the last input.
Commitment(s, session) ==
  LET last == Position(s, Len(s.inputs), session)
  IN  [tag |-> "pins", session |-> session, eHat |-> last.challengeE,
       mode |-> last.mode, pins |-> last.pins, write |-> "final"]

\* The export of options o; echo: whether it echoes the burn commitments.
Export(o, session, echo) ==
  LET s == OptionsOf[o].subject
  IN  [envelope |-> EnvelopeOf(s, session), commitment |-> Commitment(s, session),
       root |-> "root", pair |-> IF echo THEN BurnPair(session, Len(s.inputs)) ELSE <<>>]

\* The artifact of a record: what the server issued for options o, proved in
\* that session, at that time and after so many rotations.
ArtifactOf(r) ==
  [canonical |-> TRUE,
   fields |-> [version |-> 1, issuerKid |-> Kid(KeyNetwork, r.rotation + 1),
               issuedAt |-> r.at, expiresAt |-> r.at + OptionsOf[r.option].lifetime,
               protocol |-> Bitcoin, network |-> KeyNetwork, subjectKind |-> BitcoinPsbt,
               subjectCommitment |-> Commitment(OptionsOf[r.option].subject, r.session),
               policyRoot |-> "root", strength |-> SoftwareEnforced,
               scope |-> Scope(Credential.identifier, Credential.kmcIndex)]]

SignatureOf(r) == [by |-> Kid(KeyNetwork, r.rotation + 1), over |-> ArtifactOf(r)]

\* What the server consumes the allowance under.
RecordKey == [tag |-> "action", n0 |-> "allowance"]

-----------------------------------------------------------------------------
(* The calls.                                                              *)

Idle == [phase |-> "idle"]
\* A call fails; the reason is kept of one whose own authorization was issued
\* and answered.
Failed(c, code, own) ==
  IF own THEN [phase |-> "failed", own |-> TRUE, code |-> code,
               network |-> OptionsOf[calls[c].option].network]
  ELSE [phase |-> "failed", own |-> FALSE]

Init ==
  /\ now = 0
  /\ rotated = [n \in Networks |-> 0]
  /\ cache = [n \in Networks |-> None]
  /\ load = None
  /\ calls = [c \in Calls |-> Idle]
  /\ issued = {}

\* The bounds of the lifetime are checked before any round trip.
Begin(c) ==
  /\ calls[c] = Idle
  /\ \E o \in Options :
       calls' = [calls EXCEPT ![c] =
         IF OptionsOf[o].lifetime \in 1..MaxLifetime
         THEN [phase |-> "preflight", option |-> o]
         ELSE Failed(c, "INVALID_LIFETIME", FALSE)]
  /\ UNCHANGED <<now, rotated, cache, load, issued>>

\* authorize_preflight answers, with the key's network unless the server is
\* an older one, or refuses.
Preflight(c) ==
  /\ calls[c].phase = "preflight"
  /\ \/ calls' = [calls EXCEPT ![c] = Failed(c, "PREFLIGHT", FALSE)]
     \/ \E echoed \in BOOLEAN :
          calls' = [calls EXCEPT ![c] =
            IF echoed => OptionsOf[calls[c].option].network = KeyNetwork
            THEN [phase |-> "prove", option |-> calls[c].option]
            ELSE Failed(c, "NETWORK_MISMATCH", FALSE)]
  /\ UNCHANGED <<now, rotated, cache, load, issued>>

\* The export, and with it authorize_issue; or it refuses.
Prove(c) ==
  /\ calls[c].phase = "prove"
  /\ \/ calls' = [calls EXCEPT ![c] = Failed(c, "POLICY_REJECTED", FALSE)]
     \/ /\ CheckVerifiable(OptionsOf[calls[c].option].subject)
        /\ \E session \in Sessions, echo \in BOOLEAN :
             calls' = [calls EXCEPT ![c] =
               [phase |-> "issue", option |-> calls[c].option,
                session |-> session, echo |-> echo]]
  /\ UNCHANGED <<now, rotated, cache, load, issued>>

\* The answer with a record, fresh or replayed: only a fresh one comes with
\* its action key.
Answer(c, record, fresh) ==
  [phase |-> "answered", option |-> calls[c].option, session |-> calls[c].session,
   echo |-> calls[c].echo, record |-> record, fresh |-> fresh]

\* The server consumes the allowance and issues; the answer is on its way.
Issue(c) ==
  /\ calls[c].phase = "issue" /\ issued = {}
  /\ LET record == [option |-> calls[c].option, session |-> calls[c].session,
                    rotation |-> rotated[KeyNetwork], at |-> now]
     IN  /\ issued' = {record}
         /\ calls' = [calls EXCEPT ![c] = Answer(c, record, TRUE)]
  /\ UNCHANGED <<now, rotated, cache, load>>

\* The allowance is consumed: the stored artifact again, and nothing else.
Replay(c) ==
  /\ calls[c].phase = "issue"
  /\ \E r \in issued : calls' = [calls EXCEPT ![c] = Answer(c, r, FALSE)]
  /\ UNCHANGED <<now, rotated, cache, load, issued>>

\* AUTHORIZATION_ALREADY_CONSUMED: by an authorization, or by a signature.
Consumed(c) ==
  /\ calls[c].phase = "issue"
  /\ calls' = [calls EXCEPT ![c] = Failed(c, "AUTHORIZATION_ALREADY_CONSUMED", FALSE)]
  /\ UNCHANGED <<now, rotated, cache, load, issued>>

\* The answer is lost and the request runs into its timeout.
LoseAnswer(c) ==
  /\ calls[c].phase = "answered"
  /\ calls' = [calls EXCEPT ![c] = Failed(c, "TIMEOUT", FALSE)]
  /\ UNCHANGED <<now, rotated, cache, load, issued>>

(***************************************************************************)
(* The cross-checks that follow the issuer's signature.                    *)
(***************************************************************************)
\* Mutant of CrossChecks: the commitment is not compared with the export's.
CrossChecksOfPair(a) ==
  LET export == Export(a.option, a.session, a.echo)
  IN  IF ~a.fresh /\ export.pair = <<>> THEN "THROWN" ELSE "OK"

CrossChecks(a) ==
  LET export == Export(a.option, a.session, a.echo)
      e == export.envelope
      fields == ArtifactOf(a.record).fields
  IN  IF fields.subjectCommitment # export.commitment THEN "SUBJECT_MISMATCH"
      ELSE IF fields.policyRoot # export.root THEN "SUBJECT_MISMATCH"
      ELSE IF export.pair # <<>>
              /\ \/ BurnAggregate(e.session, BurnPairOf(e))
                      # BurnAggregate(e.session, export.pair)
                 \/ PinAggregate(e) # export.commitment THEN "SUBJECT_MISMATCH"
      ELSE IF ~a.fresh /\ export.pair = <<>> THEN "THROWN"
      ELSE "OK"

\* The call's end once the signature was checked or passed over.
Ended(c) ==
  LET a == calls[c]
      code == CrossChecks(a)
  IN  IF code # "OK" THEN Failed(c, code, a.fresh)
      ELSE [phase |-> "done", option |-> a.option, session |-> a.session,
            record |-> a.record,
            actionKey |-> IF a.fresh THEN RecordKey
                          ELSE ActionKey(Export(a.option, a.session, a.echo).pair)]

\* The answer arrives: the signature is checked against the cached set; with
\* none cached the set is fetched, and the signature stays unchecked.
Receive(c) ==
  LET a == calls[c]
      set == cache[OptionsOf[a.option].network]
  IN  /\ a.phase = "answered"
      /\ calls' = [calls EXCEPT ![c] =
           IF set = None THEN [a EXCEPT !.phase = "fetching"]
           ELSE IF KeysForKid(set, ArtifactOf(a.record).fields.issuerKid) = {}
                THEN Failed(c, "ISSUER_UNKNOWN", a.fresh)
           ELSE IF ~SignatureVerifies(set, ArtifactOf(a.record), SignatureOf(a.record))
                THEN Failed(c, "AUTHORIZATION_BAD_SIGNATURE", a.fresh)
           ELSE Ended(c)]
      /\ UNCHANGED <<now, rotated, cache, load, issued>>

-----------------------------------------------------------------------------
(* Key sets.                                                               *)

\* The cache once a load of n with this pin has the answer.
CacheWith(n, doc, pin) ==
  LET set == Loaded(doc, n, pin)
  IN  IF set = Refused THEN cache ELSE [cache EXCEPT ![n] = set]

\* The unpinned fetch of a call ends, in a key set or in an error that is
\* swallowed, and the call goes on either way.
FetchInCall(c) ==
  LET n == OptionsOf[calls[c].option].network
  IN  /\ calls[c].phase = "fetching"
      /\ cache' \in {cache, CacheWith(n, Doc(n, rotated[n]), None)}
      /\ calls' = [calls EXCEPT ![c] = Ended(c)]
      /\ UNCHANGED <<now, rotated, load, issued>>

\* fetchIssuerKeySet with the pin or without; verifyAuthorization makes the
\* unpinned one when nothing is cached.
BeginLoad(n) ==
  /\ load = None
  /\ \E pin \in {None, Pin[n]} :
       load' = [network |-> n, pin |-> pin, answer |-> None]
  /\ UNCHANGED <<now, rotated, cache, calls, issued>>

\* The server answers with its document of that moment, or with something
\* that is none.
ServeLoad ==
  /\ load # None /\ load.answer = None
  /\ \E doc \in {Doc(load.network, rotated[load.network]), Garbage(load.network)} :
       load' = [load EXCEPT !.answer = doc]
  /\ UNCHANGED <<now, rotated, cache, calls, issued>>

\* The answer is read: a refused set leaves the cache alone.
FinishLoad ==
  /\ load # None /\ load.answer # None
  /\ cache' = CacheWith(load.network, load.answer, load.pin)
  /\ load' = None
  /\ UNCHANGED <<now, rotated, calls, issued>>

\* The server's rotation: a fresh active key, the others retired.
Rotate ==
  /\ rotated[KeyNetwork] < MaxRotations
  /\ rotated' = [rotated EXCEPT ![KeyNetwork] = @ + 1]
  /\ UNCHANGED <<now, cache, load, calls, issued>>

Tick ==
  /\ now < MaxTime
  /\ now' = now + 1
  /\ UNCHANGED <<rotated, cache, load, calls, issued>>

Next ==
  \/ \E c \in Calls :
       Begin(c) \/ Preflight(c) \/ Prove(c) \/ Issue(c) \/ Replay(c) \/ Consumed(c)
         \/ LoseAnswer(c) \/ Receive(c) \/ FetchInCall(c)
  \/ \E n \in Networks : BeginLoad(n)
  \/ ServeLoad \/ FinishLoad \/ Rotate \/ Tick

Spec == Init /\ [][Next]_vars

-----------------------------------------------------------------------------
(* What a verifier may be shown.                                           *)

Provable == {s \in Subjects : CheckVerifiable(s)}

\* An envelope and what becomes of it when one field is another one's.
Altered(e) ==
  LET k == e.completing
  IN  {e} \union {[e EXCEPT !.session = x] : x \in Sessions}
        \union {[e EXCEPT !.completing = i] : i \in 1..(Len(e.positions) + 1)}
        \union {[e EXCEPT !.completing = i, !.positions[i] = e.positions[k]] :
                  i \in DOMAIN e.positions}
        \union {[e EXCEPT !.positions[k].posture.hashType = h,
                         !.positions[k].posture.isAcp = (h = "acp")] : h \in AcceptedPostures}
        \union {[e EXCEPT !.positions[k].posture.branch = "keypath",
                         !.positions[k].posture.leaf = NoLeaf]}
        \union {[e EXCEPT !.positions[k].challengeE =
                    Position(s, Len(s.inputs), e.session).challengeE] : s \in Provable}

Envelopes ==
  {e \in UNION {Altered(EnvelopeOf(s, x)) : s \in Provable, x \in Sessions} : EnvelopeParses(e)}

\* The subject is the proved one as far as the challenge reaches: every
\* output, and every input or the completing one alone.  The PSBT may leave
\* out the leaf that the envelope discloses.
Agrees(shown, k, proved) ==
  LET last == Len(proved.inputs)
      own == proved.inputs[last]
  IN  /\ shown.outputs = proved.outputs
      /\ shown.inputs[k].leaf \in {own.leaf, NoLeaf}
      /\ Spend(shown.inputs[k]) = Spend(own)
      /\ own.posture # "acp" =>
           /\ k = last /\ Len(shown.inputs) = last
           /\ \A i \in 1..last : Spend(shown.inputs[i]) = Spend(proved.inputs[i])

\* Whatever is shown with an artifact that commits to a provable subject, it
\* is accepted only if it agrees with that subject.
CommitmentsBind ==
  \A proved \in Provable, session \in Sessions :
    \A e \in Envelopes, s \in Subjects, salt \in {Salt, "other"} :
      SubjectVerdict([envelope |-> e, subject |-> s, salt |-> salt],
                     [subjectCommitment |-> Commitment(proved, session),
                      subjectKind |-> BitcoinPsbt]) = "VALID"
        => salt = Salt /\ Agrees(s, e.completing, proved)

\* The options of verifyAuthorization that go with an artifact of this key,
\* and options of which one does not.
Right ==
  [expectedScope |-> None, credential |-> Credential, expectedPolicyRoot |-> "root",
   acceptedStrengths |-> {SoftwareEnforced}, network |-> KeyNetwork]

Fitting ==
  LET scope == Scope(Credential.identifier, Credential.kmcIndex)
  IN  {Right, [Right EXCEPT !.credential = None], [Right EXCEPT !.expectedPolicyRoot = AnyRoot],
       [Right EXCEPT !.expectedScope = scope, !.credential.identifier = "other"]}

\* Options with one thing wrong: the scope, the root, the strength, the
\* network, or the credential the scope is computed from.
OtherCredentials ==
  {[Credential EXCEPT !.kmcIndex = NoIndex], [Credential EXCEPT !.identifier = "other"],
   [Credential EXCEPT !.keyIndex = Credential.kmcIndex + 1]}

Spoiled(o) ==
  {[o EXCEPT !.expectedScope = Scope("other", 1)],
   [o EXCEPT !.expectedPolicyRoot = "other"],
   [o EXCEPT !.acceptedStrengths = {}]}
  \union {[o EXCEPT !.network = n] : n \in Networks \ {KeyNetwork}}
  \union {[o EXCEPT !.expectedScope = None, !.credential = x] : x \in OtherCredentials}

Unfitting == UNION {Spoiled(o) : o \in Fitting}

\* The verdict on a record's artifact shown with the envelope and subject of
\* options and a session, under the document after so many rotations.
VerdictOf(r, option, session, rotation, o, time) ==
  Verdict([keySet |-> [doc |-> Doc(KeyNetwork, rotation), pinned |-> FALSE],
           artifact |-> ArtifactOf(r), signature |-> SignatureOf(r),
           envelope |-> EnvelopeOf(OptionsOf[option].subject, session),
           subject |-> OptionsOf[option].subject, salt |-> Salt,
           now |-> time, network |-> o.network,
           expectedScope |-> o.expectedScope, credential |-> o.credential,
           expectedPolicyRoot |-> o.expectedPolicyRoot,
           acceptedStrengths |-> o.acceptedStrengths])

\* The seconds at both ends of a record's window.
Edges(r) ==
  LET last == r.at + OptionsOf[r.option].lifetime
  IN  {r.at - 1, r.at, last, last + 1}

Records ==
  [option : {o \in Options : /\ OptionsOf[o].lifetime \in 1..MaxLifetime
                             /\ CheckVerifiable(OptionsOf[o].subject)},
   session : Sessions, rotation : 0..MaxRotations, at : 0..MaxTime]

\* An artifact is accepted, with the subject that was proved, exactly under
\* a document in which its key is the active one, within its window, for its
\* network and with options that fit the key.
VerdictsExact ==
  \A r \in Records, k \in 0..MaxRotations :
    \A o \in Fitting \union Unfitting, time \in Edges(r) :
      VerdictOf(r, r.option, r.session, k, o, time) = "VALID" <=>
        /\ o \in Fitting /\ r.rotation = k
        /\ time \in r.at .. r.at + OptionsOf[r.option].lifetime

-----------------------------------------------------------------------------
(* Properties.                                                             *)

\* Every variable has its type; a call that reached the server asked for an
\* accepted lifetime (SigbashClient.ts:2378), and the server consumed the
\* allowance once.
TypeOK ==
  /\ now \in 0..MaxTime
  /\ rotated \in [Networks -> 0..MaxRotations]
  /\ \A n \in Networks : cache[n] = None \/ cache[n].pinned \in BOOLEAN
  /\ load = None \/ load.network \in Networks
  /\ \A c \in Calls :
       calls[c].phase \in {"preflight", "prove", "issue", "answered", "fetching", "done"}
         => OptionsOf[calls[c].option].lifetime \in 1..MaxLifetime
  /\ Cardinality(issued) <= 1

\* A cached set is a document of its network that was published at some
\* time, and one that says it is pinned is the pinned document, whatever
\* loads race (issuerKeySet.ts:145-164).
CacheHolds ==
  \A n \in Networks :
    cache[n] # None =>
      /\ \E r \in 0..rotated[n] : cache[n].doc = Doc(n, r)
      /\ cache[n].pinned => cache[n].doc = Pin[n]

\* Whatever envelope, transaction and salt are shown with an issued
\* artifact, they pass the subject check only if the transaction is the
\* proved one in everything its posture signs (verify.ts:181-207).
AcceptedBinds ==
  \A r \in issued : OptionsOf[r.option].subject \in Provable /\ CommitmentsBind

\* The verdict on what the server issued is exact (verify.ts:98-235).
VerdictExact == issued # {} => issued \subseteq Records /\ VerdictsExact

\* An artifact says what was proved and no more: it passes for its own subject
\* alone, with the verdict its issuer, window, network and session call for.
ArtifactExact == AcceptedBinds /\ VerdictExact

\* A call that ends well returns what VerdictOf says it should.
ResultJudged ==
  \A c \in Calls :
    calls'[c].phase = "done" /\ calls[c].phase # "done" =>
      LET r == calls'[c].record
          option == calls'[c].option
          network == OptionsOf[option].network
      IN  \A k \in 0..MaxRotations, time \in Edges(r) \ {r.at - 1} :
            LET verdict(net) == VerdictOf(r, option, calls'[c].session, k,
                                          [Right EXCEPT !.network = net], time)
            IN  /\ verdict(KeyNetwork) =
                     IF r.rotation # k THEN "ISSUER_UNKNOWN"
                     ELSE IF time > r.at + OptionsOf[r.option].lifetime
                          THEN "AUTHORIZATION_EXPIRED" ELSE "VALID"
                /\ network # KeyNetwork => verdict(network) # "VALID"

\* What authorizePSBT returns verifies with its own envelope and subject in
\* its window under a published document whose active key issued it, is of
\* an unknown issuer under every other one, and never passes for a network
\* that is not the key's (SigbashClient.ts:2564-2612), also when the
\* artifact is a replayed one and when nothing was cached to check it with.
ResultVerifies == [][ResultJudged]_vars

\* The action key of a result names the record that consumed its allowance,
\* also when the client derived it, so that getAuthorizationStatus finds it
\* (SigbashClient.ts:2609).
ActionKeyFinds ==
  \A c \in Calls :
    calls[c].phase = "done" => calls[c].actionKey = RecordKey /\ calls[c].record \in issued

\* A call whose own authorization was issued and answered, and that fails
\* all the same, fails on its issuer's key alone, and only after a rotation
\* or for a network that is not the key's: the allowance is never lost to
\* the other cross-checks (SigbashClient.ts:2571-2607).
BurnLostOnlyToRotation ==
  \A c \in Calls :
    calls[c].phase = "failed" /\ calls[c].own =>
      /\ calls[c].code = "ISSUER_UNKNOWN"
      /\ rotated[KeyNetwork] > 0 \/ calls[c].network # KeyNetwork

=============================================================================
