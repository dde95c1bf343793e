------------------------- MODULE WalletProvisioning --------------------------
(***************************************************************************)
(* From signer roots to a wallet that signs: the staged reservation        *)
(* life cycle (src/wallet/provisioning.ts, SigbashClient.ts:1013-1096) and *)
(* what the application does with the wallet it names - compile its        *)
(* clause, store the template, resolve it with the aggregated xpub.        *)
(*                                                                         *)
(* A source is what the application holds: a staged intent, a contract     *)
(* record, or the arguments of a template.  Between calls it may build the *)
(* same intent again from its own storage, its lists in another order or   *)
(* with other origins (Rebuild).  A call is a request to the server and    *)
(* an answer; either is lost, and a call that seems lost may have run.     *)
(* The server's part is external: one state per reservation, each stage    *)
(* accepted only after the one before it.  A disposed client refuses every *)
(* call here, which is a request lost.                                     *)
(***************************************************************************)
EXTENDS ReqkeyTemplate

CONSTANTS
  Sources,       \* what the application may start from
  Reservation    \* reservation ids

\* A source has a field "by" that says which constructor takes it; the rest
\* of its fields have the types their declarations give them (decayBlocks may
\* be null, which is the empty list).
ASSUME ProvisioningAssumption ==
  /\ Sources \subseteq
       [by : {"staged", "record", "native", "mixed"},
        network : {"signet", "mainnet", "testnet"}, signers : Seq(WalletSigner),
        sets : Seq(Seq(Nat)), threshold : Nat,
        walletMode : {"mixed", "sigbash_native"}, recoveryKey : STRING,
        decayBlocks : {n \in Seq(Nat) : Len(n) <= 1}]
  /\ \A s \in Sources : s.by = "mixed" => s.signers # <<>>
  /\ IsFiniteSet(Reservation)

Operations == {"create", "assemble", "compile", "seal", "activate", "abandon"}
Stages == {"RESERVED", "ASSEMBLED", "COMPILED", "SEALED", "ACTIVATED", "EXPIRED"}
None == [none |-> TRUE]
Idle == [op |-> "idle"]
Absent == [state |-> "absent"]

VARIABLES
  source,     \* what the application holds now
  view,       \* the reservation and slots of the last create that answered
  server,     \* the server's reservations
  slotOrder,  \* how the server numbers slots: as sent, or canonically
  call,       \* the call under way, or Idle
  late,       \* a request given up on that may still arrive, or Idle
  done,       \* what the application was told is done: {<<op, reservation>>}
  template,   \* the stored wallet template, or None
  resolved    \* the wallet resolved from it, or None

vars == <<source, view, server, slotOrder, call, late, done, template, resolved>>

-----------------------------------------------------------------------------
(* Construction.                                                           *)

\* preflightStagedSignerIntent.
Preflight(s) == SigbashCount(s.signers) <= 1

\* assembleStagedWalletDescriptor, and the constructors of the other sources.
Constructed(s) ==
  CASE s.by = "staged" ->
         IF Preflight(s) THEN Build(s.network, s.signers, s.sets, NoRecovery)
         ELSE Refused
    [] s.by = "record" -> FromRecord(s)
    [] s.by = "native" -> NativeMultisig(s.network, s.signers, s.threshold)
    [] s.by = "mixed" ->
         SigbashPlusExternal(s.network, Head(s.signers), Tail(s.signers), s.threshold)

WalletOf == [s \in Sources |-> Constructed(s)]
DigestOf == [s \in Sources |-> IF IsWallet(WalletOf[s]) THEN Fingerprint(WalletOf[s])
                               ELSE Refused]

\* toWireSigner: no origin crosses the wire.
Wire(s) == [network |-> s.network, sets |-> s.sets,
            signers |-> [i \in DOMAIN s.signers |->
                          [s.signers[i] EXCEPT !.origin = NoOrigin]]]

\* Two presentations of one intent: the same roots and the same sets, each
\* list in any order.
SameIntent(s, t) ==
  /\ s.by = "staged" /\ t.by = "staged"
  /\ s.network = t.network
  /\ Rearranged(Wire(s).signers, Wire(t).signers)
  /\ \E p \in Bijection(DOMAIN s.sets, DOMAIN t.sets) :
       \A i \in DOMAIN s.sets : Rearranged(s.sets[i], t.sets[p[i]])

Presentations == [s \in Sources |-> {t \in Sources : SameIntent(s, t)}]

\* The reservation's slots, in the order the server numbers them.
Slots(wire) ==
  LET ordered == IF slotOrder = "wire" THEN wire.signers
                 ELSE CanonicalOrder(wire.signers)
  IN  [i \in DOMAIN ordered |-> [kind |-> ordered[i].kind, root |-> ordered[i].xpub]]

Commitment(xpub) == [tag |-> "EXTERNAL", of |-> {xpub}]

\* One signer's policy root (named by the signer it was compiled for) and
\* REQKEY digest.
PerSigner(w) ==
  [perSigner |-> [i \in DOMAIN w.signers |->
    [root |-> w.signers[i].xpub,
     digest |-> IF w.signers[i].kind = Sigbash THEN ClauseDigest(w)
                ELSE Commitment(w.signers[i].xpub)]]]

\* Mutant of Compilation: the kinds are not compared.
CompilationByPosition(w, slots, roots) ==
  IF Len(slots) = Len(w.signers) /\ DOMAIN w.signers \subseteq roots
  THEN PerSigner(w)
  ELSE Refused

(***************************************************************************)
(* stagedSignerCompilations over the wallet, the slots (their kinds and    *)
(* positions; a slot has no root on the client) and the compiled policy    *)
(* roots the caller holds by slot index.                                   *)
(***************************************************************************)
Compilation(w, slots, roots) ==
  IF /\ Len(slots) = Len(w.signers)
     /\ \A i \in DOMAIN slots : slots[i].kind = w.signers[i].kind
     /\ DOMAIN w.signers \subseteq roots
  THEN PerSigner(w)
  ELSE Refused

-----------------------------------------------------------------------------

Init ==
  /\ source \in Sources
  /\ view = None
  /\ server = [r \in Reservation |-> Absent]
  /\ slotOrder \in IF source.by = "staged" THEN {"wire", "canonical"} ELSE {"wire"}
  /\ call = Idle
  /\ late = Idle
  /\ done = {}
  /\ template = None
  /\ resolved = None

\* The application builds its intent again.
Rebuild ==
  /\ source' \in Presentations[source] \ {source}
  /\ UNCHANGED <<view, server, slotOrder, call, late, done, template, resolved>>

\* A request leaves: op on reservation r with its body.
Send(op, r, body) ==
  /\ call = Idle
  /\ call' = [op |-> op, at |-> "request", reservation |-> r, body |-> body]
  /\ UNCHANGED <<source, view, server, slotOrder, late, done, template, resolved>>

\* createReservation: refused on the client before any request.
CreateReservation ==
  /\ source.by = "staged" /\ Preflight(source)
  /\ \E r \in Reservation :
       /\ server[r] = Absent   \* the id the server will assign
       /\ late # Idle => late.reservation # r
       /\ Send("create", r, Wire(source))

\* assemble with the digest of the application's own assembly.
Assemble ==
  /\ view # None
  /\ IsWallet(WalletOf[source])
  /\ DigestOf[source] # Refused
  /\ Send("assemble", view.reservation, DigestOf[source])

\* compile with the producer's records; a root may still be missing.
Compile ==
  /\ view # None
  /\ IsWallet(WalletOf[source])
  /\ \E roots \in {DOMAIN view.slots, DOMAIN view.slots \ {1}} :
       LET records == Compilation(WalletOf[source], view.slots, roots)
       IN  records # Refused /\ Send("compile", view.reservation, records)

\* seal, activate, abandon: a bare request.
Advance ==
  /\ view # None
  /\ \E op \in {"seal", "activate", "abandon"} : Send(op, view.reservation, None)

-----------------------------------------------------------------------------
(* The server (external).                                                  *)

Follows == [create |-> {"absent"}, assemble |-> {"RESERVED"}, compile |-> {"ASSEMBLED"},
            seal |-> {"COMPILED"}, activate |-> {"SEALED"},
            abandon |-> {"RESERVED", "ASSEMBLED", "COMPILED", "SEALED"}]

Accepts(c) ==
  /\ server[c.reservation].state \in Follows[c.op]
  /\ c.op = "seal" => SigbashCount(server[c.reservation].intent.signers) <= 1

Applied(c, r) ==
  CASE c.op = "create" -> [state |-> "RESERVED", intent |-> c.body,
                           slots |-> Slots(c.body), digest |-> None, records |-> None]
    [] c.op = "assemble" -> [r EXCEPT !.state = "ASSEMBLED", !.digest = c.body]
    [] c.op = "compile" -> [r EXCEPT !.state = "COMPILED", !.records = c.body]
    [] c.op = "seal" -> [r EXCEPT !.state = "SEALED"]
    [] c.op = "activate" -> [r EXCEPT !.state = "ACTIVATED"]
    [] c.op = "abandon" -> [r EXCEPT !.state = "EXPIRED"]

\* An applied request is answered, or its answer is unreadable; a refused
\* one has an error status, an error in the body, or both.
Answers(applied) ==
  IF applied THEN {[http |-> TRUE, error |-> FALSE, json |-> TRUE],
                   [http |-> TRUE, error |-> FALSE, json |-> FALSE]}
  ELSE {[http |-> FALSE, error |-> TRUE, json |-> TRUE],
        [http |-> TRUE, error |-> TRUE, json |-> TRUE],
        [http |-> FALSE, error |-> FALSE, json |-> FALSE]}

\* The server's state after a request.
After(c) ==
  IF Accepts(c) THEN [server EXCEPT ![c.reservation] = Applied(c, @)] ELSE server

Serve ==
  /\ call # Idle /\ call.at = "request"
  /\ server' = After(call)
  /\ \E answer \in Answers(Accepts(call)) :
       call' = [call EXCEPT !.at = "answer", !.body = answer]
  /\ UNCHANGED <<source, view, slotOrder, late, done, template, resolved>>

\* A request the application gave up on arrives after all.
ServeLate ==
  /\ late # Idle
  /\ server' = After(late)
  /\ late' = Idle
  /\ UNCHANGED <<source, view, slotOrder, call, done, template, resolved>>

\* A reservation lapses unless it was activated.
Expire(r) ==
  /\ server[r].state \in Stages \ {"ACTIVATED", "EXPIRED"}
  /\ server' = [server EXCEPT ![r].state = "EXPIRED"]
  /\ UNCHANGED <<source, view, slotOrder, call, late, done, template, resolved>>

-----------------------------------------------------------------------------

\* Mutant of Ok: the status alone decides.
OkByStatus(answer) == answer.json /\ answer.http

\* readJson then assertOk.
Ok(answer) == answer.json /\ answer.http /\ ~answer.error

\* The answer arrives: the call returns, or throws.
Returns ==
  /\ call # Idle /\ call.at = "answer"
  /\ call' = Idle
  /\ LET r == call.reservation
     IN  IF Ok(call.body)
         THEN /\ done' = done \cup {<<call.op, r>>}
              /\ view' = IF call.op # "create" THEN view
                         ELSE [reservation |-> r,
                               slots |-> [i \in DOMAIN server[r].slots |->
                                           [kind |-> server[r].slots[i].kind]]]
         ELSE UNCHANGED <<done, view>>
  /\ UNCHANGED <<source, server, slotOrder, late, template, resolved>>

\* The call throws without an answer: the request is lost, or still on its
\* way, or only the answer is lost.
Lose ==
  /\ call # Idle
  /\ call' = Idle
  /\ late' \in {late} \cup {c \in {call} : c.at = "request" /\ late = Idle}
  /\ UNCHANGED <<source, view, server, slotOrder, done, template, resolved>>

\* The template of an activated wallet, or of one built directly, is stored.
Store ==
  /\ template = None
  /\ IsWallet(WalletOf[source])
  /\ source.by = "staged" => view # None /\ <<"activate", view.reservation>> \in done
  /\ template' = SystemPayload(WalletOf[source])
  /\ template' # Refused
  /\ UNCHANGED <<source, view, server, slotOrder, call, late, done, resolved>>

\* The rebuild and every signing resolve it, with the aggregated xpub and
\* the origin the key container gives.
Resolve ==
  /\ template # None
  /\ \E origin \in Origin \cup {NoOrigin} :
       LET xpub == (CHOOSE s \in ToSet(source.signers) : s.kind = Sigbash).xpub
       IN  resolved' = Decode(template, xpub, origin)
  /\ UNCHANGED <<source, view, server, slotOrder, call, late, done, template>>

Next ==
  \/ Rebuild \/ Store \/ Resolve
  \/ CreateReservation \/ Assemble \/ Compile \/ Advance
  \/ Serve \/ ServeLate \/ Returns \/ Lose
  \/ \E r \in Reservation : Expire(r)

Spec == Init /\ [][Next]_vars

-----------------------------------------------------------------------------
(* Properties.                                                             *)

\* The type of the state.
TypeOK ==
  /\ source \in Sources
  /\ view = None \/ view.reservation \in Reservation
  /\ \A r \in Reservation :
       server[r].state \in Stages \cup {"absent"}
  /\ call # Idle => call.op \in Operations /\ call.at \in {"request", "answer"}
  /\ late # Idle => late.op \in Operations /\ late.at = "request"
  /\ done \subseteq Operations \X Reservation

\* Every wallet is in canonical form, built, restored from a template or
\* resolved again (walletBuilder.ts:8-12).
CanonicalForm ==
  \A w \in {WalletOf[source], template, resolved} \ {None, Refused} : Canonical(w)

\* The wallet any party builds from a committed intent, and its identity.
Committed(i) == Build(i.network, i.signers, i.sets, NoRecovery)
IdentityOf ==
  [i \in {Wire(s) : s \in {t \in Sources : t.by = "staged"}} |->
    IF IsWallet(Committed(i)) THEN Fingerprint(Committed(i)) ELSE Refused]

\* The digest a reservation committed is the identity of the wallet its own
\* signer roots and sets describe, whatever order and origins they were
\* submitted and assembled with (provisioning.ts:5-11).
CommittedDigest ==
  \A r \in Reservation :
    server[r].state # "absent" /\ server[r].digest # None
      => server[r].digest = IdentityOf[server[r].intent]

\* The clause digest is recorded against the Sigbash slot and no other; and
\* where the server numbers the slots as the wallet orders its signers,
\* every record was made for the slot's own signer root (provisioning.ts:142).
RecordsFitSlots ==
  \A r \in Reservation :
    server[r].state # "absent" /\ server[r].records # None =>
      LET slots == server[r].slots
          records == server[r].records.perSigner
      IN  \A i \in DOMAIN slots :
            /\ records[i].digest.tag = "REQKEYDIGEST" <=> slots[i].kind = Sigbash
            /\ slotOrder = "canonical" => records[i].root = slots[i].root

\* No reservation is ever made of an intent with two Sigbash signers: the
\* refusal comes before anything is reserved (provisioning.ts:13).
NoMultiReserved ==
  \A r \in Reservation :
    server[r].state # "absent" => SigbashCount(server[r].intent.signers) <= 1

\* What a reservation stores has its type and is what its own intent describes:
\* its digest, the records of its slots, and no second Sigbash signer.
ReservationSound == TypeOK /\ CommittedDigest /\ RecordsFitSlots /\ NoMultiReserved

\* What the application was told is done, the server has done: an abandoned
\* reservation never activates and an activated one signs, through lost
\* answers, repeated calls and error bodies (provisioning.ts:255).
ReportedIsDone ==
  \A step \in done :
    LET state == server[step[2]].state
    IN  /\ state # "absent"
        /\ step[1] = "abandon" => state = "EXPIRED"
        /\ step[1] = "activate" => state = "ACTIVATED"
        /\ step[1] \in {"assemble", "compile", "seal"} =>
             server[step[2]].digest # None

\* A wallet without the origin of its Sigbash signer and without the block
\* count of a branch it does not have.
Spending(w) ==
  [network |-> w.network,
   signers |-> [i \in DOMAIN w.signers |->
                 IF w.signers[i].kind = Sigbash
                 THEN [w.signers[i] EXCEPT !.origin = NoOrigin] ELSE w.signers[i]],
   sets |-> w.sets,
   recovery |-> [w.recovery EXCEPT !.blocks = IF w.recovery.decay THEN @ ELSE 0]]

\* The stored template resolves to the wallet it was made of, at every
\* signing and whatever origin the key container adds; a staged wallet
\* reordered since is still the wallet (reqkeyTemplate.ts:380).
TemplateRestores ==
  resolved # None =>
    /\ IsWallet(resolved)
    /\ source.by # "staged" => Spending(resolved) = Spending(WalletOf[source])
    /\ Fingerprint(resolved) = DigestOf[source]

\* A wallet comes back through its template as the wallet it was, in its one
\* form.
TemplateRoundTrip == CanonicalForm /\ TemplateRestores

\* No key and chain code is offered under two texts.
RootsDiffer(w) ==
  \A i, j \in DOMAIN w.signers : i # j =>
    RootOf[w.signers[i].xpub] # RootOf[w.signers[j].xpub]

\* What a leaf of the tree at branch and index may demand.
Spendable(w, branch, index) ==
  {{ChildKey(w.signers[i + 1], branch, index) : i \in ToSet(w.sets[k])} :
     k \in DOMAIN w.sets}
    \cup (IF w.recovery = NoRecovery THEN {} ELSE {{<<w.recovery.key>>}})

\* Every address of a wallet whose roots differ exists, can be spent in
\* exactly the ways the wallet allows, and each of its leaves proves itself
\* against the output key by the path recorded for it (taptree.ts:315).
LeavesSound(w) ==
  RootsDiffer(w) =>
    \A branch \in Branches, index \in 0 .. MaxIndex :
      LET tree == Tree(w, branch, index)
      IN  /\ tree # Refused
          /\ \A k \in DOMAIN tree.leaves :
               Climb(Leaf(tree.leaves[k].script), tree.leaves[k].path) = tree.root
          /\ {tree.leaves[k].script.keys : k \in DOMAIN tree.leaves}
               = Spendable(w, branch, index)
          /\ Len(tree.leaves) = Len(w.sets) + Cardinality(RecoveryScripts(w.recovery))

AddressesOf(w) ==
  {Tree(w, b, k).outputKey : b \in Branches, k \in 0 .. MaxIndex}

\* The candidates committed to the clause are the wallet's addresses, each
\* once (taptree.ts:410).
CandidatesSound(w) ==
  RootsDiffer(w) =>
    LET universe == 0 .. CandidateCount - 1
        keyOf == [i \in universe |-> Candidate(w, i)]
    IN  /\ IsInjective(keyOf)
        /\ {keyOf[i] : i \in universe} = AddressesOf(w)

\* The decay branch opens after exactly the blocks of the wallet: the number
\* pushed is the number meant, and never negative (taptree.ts:120).
DecaySound(w) ==
  w.recovery.decay =>
    \A script \in RecoveryScripts(w.recovery) :
      script.op = "older_pk" => NumberOf(script.push) = w.recovery.blocks

\* What a template declares of its signers: Sigbash's alone, or one of
\* Sigbash's and then others; up to five of those a threshold chooses from.
Declared(s) ==
  LET n == Len(s.signers)
  IN  \/ /\ s.by = "native" /\ n <= 5 /\ s.threshold \in 1 .. 3 /\ s.threshold <= n
         /\ \A i \in 1 .. n : s.signers[i].kind = Sigbash
      \/ /\ s.by = "mixed" /\ n <= 6 /\ s.threshold \in 1 .. 2 /\ s.threshold < n
         /\ \A i \in 1 .. n : s.signers[i].kind = Sigbash <=> i = 1

\* The roots at some places of a list of signers.
XpubsAt(signers, places) == {signers[i + 1].xpub : i \in places}

\* The roots whose signatures a leaf of the wallet takes together.
Groups(w) == {XpubsAt(w.signers, ToSet(w.sets[k])) : k \in DOMAIN w.sets}

\* A template's leaves are exactly the groups of signer roots of its threshold,
\* and every threshold it allows has a wallet (walletBuilder.ts:305, 331).
ThresholdSound(s) ==
  LET w == WalletOf[s]
      size == IF s.by = "native" THEN s.threshold ELSE s.threshold + 1
  IN  Declared(s) /\ SignersValid(s.network, s.signers) =>
        /\ IsWallet(w)
        /\ Groups(w) = {g \in SUBSET XpubsAt(s.signers, 0 .. Len(s.signers) - 1) :
                          /\ Cardinality(g) = size
                          /\ s.by = "mixed" => s.signers[1].xpub \in g}

SoundWallets(Sound(_)) ==
  {s \in Sources : IsWallet(WalletOf[s]) => Sound(WalletOf[s])}

LeavesSoundFor == SoundWallets(LeavesSound)
CandidatesSoundFor == SoundWallets(CandidatesSound)
DecaySoundFor == SoundWallets(DecaySound)

\* LeavesSound, of every wallet constructed.
LeavesProve == source \in LeavesSoundFor

\* CandidatesSound, of every wallet constructed.
CandidateUniverse == source \in CandidatesSoundFor

\* DecaySound, of every wallet constructed.
DecayCommitted == source \in DecaySoundFor

\* ThresholdSound, of every wallet a template constructs.
ThresholdExact == ThresholdSound(source)

\* The tree of every wallet commits to what the wallet says: its leaves, their
\* proofs, its addresses, its decay delay and its threshold.
TreeSound == LeavesProve /\ CandidateUniverse /\ DecayCommitted /\ ThresholdExact

=============================================================================
