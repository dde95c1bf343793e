--------------------------- MODULE Admission_proofs ---------------------------
(***************************************************************************)
(* Proofs about who may use a key: the ceremonies that grant it to         *)
(* principals and take it back (PrincipalAccess), and the authorizations   *)
(* a verifier accepts (AuthorizationLane).                                 *)
(*                                                                         *)
(* Of the ceremonies: the type invariant; that a rebind grants its new     *)
(* principal on every key before it revokes the replaced one on any, for   *)
(* every set of keys, principals and ceremonies; and that slots follow     *)
(* rows while ceremonies follow each other.                                *)
(*                                                                         *)
(* Of the authorizations: what the cache of issuer key sets holds, that    *)
(* the action key of a result finds its record, that the client's          *)
(* cross-checks never lose an authorization the server issued, and that    *)
(* what verifies binds the transaction, with the exact verdict.  They rest *)
(* on one inductive invariant, LaneInv: a key set is a published document, *)
(* a call that has an answer has one of a record the server keeps, and a   *)
(* fresh answer is for the call's own export.                              *)
(***************************************************************************)
EXTENDS PrincipalAccess, AuthorizationLane, FiniteSetTheorems, SequenceTheorems, TLAPS

\* What a running ceremony works on is one of its keys.
LEMMA KeyAtType ==
  ASSUME AccessTypeOK, NEW c \in Ceremony
  PROVE  /\ KeyAt(c) \in Key
         /\ at[c] \in 1 .. Len(KeysOf[c])
         /\ Len(KeysOf[c]) \in Nat \ {0}
<1>1. KeysOf[c] \in Seq(Key) /\ KeysOf[c] # <<>>
  BY AccessAssumption
<1>2. at[c] \in DOMAIN KeysOf[c]
  BY DEF AccessTypeOK
<1> QED
  BY <1>1, <1>2 DEF KeyAt

LEMMA DroppedType ==
  ASSUME NEW c \in Ceremony
  PROVE  Dropped(c) \in Principal /\ SubjectOf[c] \in Principal
BY AccessAssumption, FreshCredentials DEF Dropped

-----------------------------------------------------------------------------
\* The end of the work on a key leaves the position on one of the keys.
LEMMA AdvanceType ==
  ASSUME AccessTypeOK, NEW c \in Ceremony,
         NEW again \in Step, NEW after \in {"done"} \cup Step,
         Advance(c, again, after)
  PROVE  /\ pc' \in [Ceremony -> {"idle", "done", "failed"} \cup Step]
         /\ at' \in [Ceremony -> Nat]
         /\ \A d \in Ceremony : at'[d] \in DOMAIN KeysOf[d]
<1>1. KeysOf[c] \in Seq(Key) /\ DOMAIN KeysOf[c] = 1 .. Len(KeysOf[c])
  BY AccessAssumption
<1>2. at[c] \in 1 .. Len(KeysOf[c]) /\ Len(KeysOf[c]) \in Nat \ {0}
  BY KeyAtType
<1>3. pc' \in [Ceremony -> {"idle", "done", "failed"} \cup Step]
  <2>1. \E s \in {"done", "failed"} \cup Step : pc' = [pc EXCEPT ![c] = s]
    BY DEF Advance, Served
  <2> QED
    BY <2>1 DEF AccessTypeOK
<1>4. /\ at' \in [Ceremony -> Nat]
      /\ at'[c] \in 1 .. Len(KeysOf[c])
      /\ \A d \in Ceremony \ {c} : at'[d] = at[d]
  <2>1. \E i \in 1 .. Len(KeysOf[c]) : at' = [at EXCEPT ![c] = i]
    <3>1. CASE at[c] < Len(KeysOf[c])
      <4>1. at' = [at EXCEPT ![c] = at[c] + 1] /\ at[c] + 1 \in 1 .. Len(KeysOf[c])
        BY <1>2, <3>1 DEF Advance
      <4> QED
        BY <4>1
    <3>2. CASE ~(at[c] < Len(KeysOf[c]))
      <4>1. at' = [at EXCEPT ![c] = 1] /\ 1 \in 1 .. Len(KeysOf[c])
        BY <1>2, <3>2 DEF Advance
      <4> QED
        BY <4>1
    <3> QED
      BY <3>1, <3>2
  <2> QED
    BY <1>2, <2>1 DEF AccessTypeOK
<1>5. \A d \in Ceremony : at'[d] \in DOMAIN KeysOf[d]
  <2>1. at'[c] \in DOMAIN KeysOf[c]
    BY <1>1, <1>4
  <2>2. ASSUME NEW d \in Ceremony \ {c} PROVE at'[d] \in DOMAIN KeysOf[d]
    BY <1>4 DEF AccessTypeOK
  <2> QED
    BY <2>1, <2>2
<1> QED
  BY <1>3, <1>4, <1>5

LEMMA UploadType ==
  ASSUME AccessTypeOK, NEW c \in Ceremony, NEW slots \in SUBSET Principal,
         NEW again \in Step, NEW after \in {"done"} \cup Step,
         Upload(c, slots, again, after)
  PROVE  AccessTypeOK'
<1>1. KeyAt(c) \in Key
  BY KeyAtType
<1>2. stored' \in [Key -> SUBSET Principal]
  BY <1>1 DEF Upload, AccessTypeOK
<1>3. /\ pc' \in [Ceremony -> {"idle", "done", "failed"} \cup Step]
      /\ at' \in [Ceremony -> Nat]
      /\ \A d \in Ceremony : at'[d] \in DOMAIN KeysOf[d]
  BY AdvanceType DEF Upload
<1> QED
  BY <1>2, <1>3 DEF Upload, AccessTypeOK

LEMMA TypeInit == AccessInit => AccessTypeOK
<1> SUFFICES ASSUME AccessInit PROVE AccessTypeOK
  OBVIOUS
<1>1. \A c \in Ceremony : 1 \in DOMAIN KeysOf[c]
  BY AccessAssumption
<1> QED
  BY <1>1, AccessAssumption DEF AccessInit, AccessTypeOK

LEMMA TypeStep == AccessTypeOK /\ [AccessNext]_accessVars => AccessTypeOK'
<1> SUFFICES ASSUME AccessTypeOK, [AccessNext]_accessVars PROVE AccessTypeOK'
  OBVIOUS
<1>1. ASSUME NEW c \in Ceremony, Start(c) PROVE AccessTypeOK'
  <2>1. pc' \in [Ceremony -> {"idle", "done", "failed"} \cup Step]
    BY <1>1 DEF Start, Step, AccessTypeOK
  <2>2. observed' \in [Ceremony -> Nat] /\ input' \in [Ceremony -> [Key -> SUBSET Principal]]
    BY <1>1, KeyAtType DEF Start, AccessTypeOK
  <2> QED
    BY <1>1, <2>1, <2>2 DEF Start, server, AccessTypeOK
<1>2. ASSUME NEW c \in Ceremony, Throw(c) PROVE AccessTypeOK'
  BY <1>2 DEF Throw, server, AccessTypeOK
<1>3. ASSUME NEW c \in Ceremony, Register(c) PROVE AccessTypeOK'
  <2>1. pc' \in [Ceremony -> {"idle", "done", "failed"} \cup Step]
    BY <1>3 DEF Register, Served, Step, AccessTypeOK
  <2> QED
    BY <1>3, <2>1, DroppedType DEF Register, AccessTypeOK
<1>4. ASSUME NEW c \in Ceremony, GrantRow(c) PROVE AccessTypeOK'
  <2>1. KeyAt(c) \in Key /\ SubjectOf[c] \in Principal
    BY KeyAtType, DroppedType
  <2>2. pc' \in [Ceremony -> {"idle", "done", "failed"} \cup Step]
    BY <1>4 DEF GrantRow, Served, Step, AccessTypeOK
  <2>3. row' \in [Key -> [Principal -> {"none", "active", "revoked"}]]
    BY <1>4, <2>1 DEF GrantRow, AccessTypeOK
  <2>4. generation' \in [Key -> Nat]
    BY <1>4, <2>1 DEF GrantRow, Bump, AccessTypeOK
  <2> QED
    BY <1>4, <2>2, <2>3, <2>4 DEF GrantRow, AccessTypeOK
<1>5. ASSUME NEW c \in Ceremony, UploadGrant(c) PROVE AccessTypeOK'
  <2>1. input[c][KeyAt(c)] \cup {SubjectOf[c]} \in SUBSET Principal
    BY KeyAtType, DroppedType DEF AccessTypeOK
  <2>2. "grantRow" \in Step /\ (IF c \in Rebind THEN "status" ELSE "done") \in {"done"} \cup Step
    BY DEF Step
  <2> QED
    BY <1>5, <2>1, <2>2, UploadType DEF UploadGrant
<1>6. ASSUME NEW c \in Ceremony, ReadStatus(c) PROVE AccessTypeOK'
  BY <1>6 DEF ReadStatus, server, Step, AccessTypeOK
<1>7. ASSUME NEW c \in Ceremony, RevokeRow(c) PROVE AccessTypeOK'
  <2>1. KeyAt(c) \in Key /\ Dropped(c) \in Principal
    BY KeyAtType, DroppedType
  <2>2. pc' \in [Ceremony -> {"idle", "done", "failed"} \cup Step]
    BY <1>7 DEF RevokeRow, Served, Step, AccessTypeOK
  <2>3. row' \in [Key -> [Principal -> {"none", "active", "revoked"}]]
    <3>1. row' = row \/ row' = [row EXCEPT ![KeyAt(c)][Dropped(c)] = "revoked"]
      BY <1>7 DEF RevokeRow
    <3>2. CASE row' = row
      BY <3>2 DEF AccessTypeOK
    <3>3. CASE row' = [row EXCEPT ![KeyAt(c)][Dropped(c)] = "revoked"]
      BY <2>1, <3>3 DEF AccessTypeOK
    <3> QED
      BY <3>1, <3>2, <3>3
  <2>4. generation' \in [Key -> Nat]
    <3>1. generation' = generation \/ Bump(c)
      BY <1>7 DEF RevokeRow
    <3>2. generation \in [Key -> Nat]
      BY DEF AccessTypeOK
    <3>3. CASE Bump(c)
      BY <2>1, <3>2, <3>3 DEF Bump
    <3> QED
      BY <3>1, <3>2, <3>3
  <2>5. UNCHANGED <<registered, stored, at, input, observed, alone>>
    BY <1>7 DEF RevokeRow
  <2> QED
    BY <2>2, <2>3, <2>4, <2>5 DEF AccessTypeOK
<1>8. ASSUME NEW c \in Ceremony, UploadRevoke(c) PROVE AccessTypeOK'
  <2>1. input[c][KeyAt(c)] \ {Dropped(c)} \in SUBSET Principal
    BY KeyAtType DEF AccessTypeOK
  <2>2. "status" \in Step /\ "done" \in {"done"} \cup Step
    BY DEF Step
  <2> QED
    BY <1>8, <2>1, <2>2, UploadType DEF UploadRevoke
<1>9. CASE UNCHANGED accessVars
  BY <1>9 DEF accessVars, server, AccessTypeOK
<1> QED
  BY <1>1, <1>2, <1>3, <1>4, <1>5, <1>6, <1>7, <1>8, <1>9 DEF AccessNext

\* Type correctness of the ceremonies and of the server they work on.
THEOREM AccessTypeCorrect == AccessSpec => []AccessTypeOK
BY TypeInit, TypeStep, PTL DEF AccessSpec

-----------------------------------------------------------------------------
(* A rebind grants before it revokes.  The invariant follows the ceremony: *)
(* how far its grants have come at each of its calls.                      *)

\* The rebinds the property is about: nobody else cuts off the principals
\* they replace and install.
Undivided(c) ==
  /\ OnlyDroppedBy(PreviousOf[c], c)
  /\ OnlyDroppedBy(SubjectOf[c], c)
  /\ PreviousOf[c] \in Holders

Installed(c, i) == row[KeysOf[c][i]][SubjectOf[c]] = "active"
Everywhere(c) == \A k \in Keys(c) : row[k][SubjectOf[c]] = "active"
CutOff(c) == \E k \in Keys(c) : row[k][PreviousOf[c]] = "revoked"

GrantsSoFar(c) ==
  /\ pc[c] \in {"idle", "register"} => at[c] = 1
  /\ pc[c] = "grantRow" => \A i \in 1 .. at[c] - 1 : Installed(c, i)
  /\ pc[c] = "uploadGrant" => \A i \in 1 .. at[c] : Installed(c, i)
  /\ pc[c] \in {"status", "revokeRow", "uploadRevoke"} => Everywhere(c)

\* Only these ceremonies get to their revoking half.
RevokingHalf ==
  \A d \in Ceremony :
    pc[d] \in {"status", "revokeRow", "uploadRevoke"} => d \in Revoke \cup Rebind

RebindInv ==
  /\ AccessTypeOK
  /\ RevokingHalf
  /\ \A c \in Rebind : Undivided(c) =>
       GrantsSoFar(c) /\ (CutOff(c) => Everywhere(c))

\* A ceremony moves itself only.
LEMMA CeremonyMovesItself ==
  ASSUME AccessTypeOK, NEW c \in Ceremony, NEW d \in Ceremony \ {c},
         \/ Start(c)
         \/ Throw(c)
         \/ Register(c)
         \/ GrantRow(c)
         \/ UploadGrant(c)
         \/ ReadStatus(c)
         \/ RevokeRow(c)
         \/ UploadRevoke(c)
  PROVE  pc'[d] = pc[d] /\ at'[d] = at[d]
<1>1. ASSUME NEW slots, NEW again, NEW after, Upload(c, slots, again, after)
      PROVE  pc'[d] = pc[d] /\ at'[d] = at[d]
  BY <1>1 DEF Upload, Advance, Served, server, AccessTypeOK
<1> QED
  BY <1>1 DEF Start, Throw, Register, GrantRow, UploadGrant, ReadStatus,
     RevokeRow, UploadRevoke, Served, server, AccessTypeOK

LEMMA RevokingHalfStep ==
  ASSUME AccessTypeOK, RevokingHalf, [AccessNext]_accessVars
  PROVE  RevokingHalf'
<1>1. CASE UNCHANGED accessVars
  BY <1>1 DEF accessVars, RevokingHalf
<1>2. CASE AccessNext
  <2> SUFFICES ASSUME NEW d \in Ceremony,
                      pc'[d] \in {"status", "revokeRow", "uploadRevoke"}
               PROVE  d \in Revoke \cup Rebind
    BY DEF RevokingHalf
  <2>1. PICK c \in Ceremony : \/ Start(c)
                              \/ Throw(c)
                              \/ Register(c)
                              \/ GrantRow(c)
                              \/ UploadGrant(c)
                              \/ ReadStatus(c)
                              \/ RevokeRow(c)
                              \/ UploadRevoke(c)
    BY <1>2 DEF AccessNext
  <2>2. ASSUME NEW slots, NEW again, NEW after, Upload(c, slots, again, after)
        PROVE  pc' = [pc EXCEPT ![c] = again] \/ pc' = [pc EXCEPT ![c] = after]
               \/ pc' = [pc EXCEPT ![c] = "failed"]
    BY <2>2 DEF Upload, Advance, Served
  <2>3. CASE UploadGrant(c)
    BY <2>2, <2>3 DEF UploadGrant, RevokingHalf, AccessTypeOK
  <2>4. CASE UploadRevoke(c)
    BY <2>2, <2>4 DEF UploadRevoke, RevokingHalf, AccessTypeOK
  <2>5. CASE Start(c) \/ Throw(c) \/ Register(c) \/ GrantRow(c)
    BY <2>5 DEF Start, Throw, Register, GrantRow, Served, RevokingHalf, AccessTypeOK
  <2>6. CASE ReadStatus(c) \/ RevokeRow(c)
    BY <2>6 DEF ReadStatus, RevokeRow, Served, RevokingHalf, AccessTypeOK
  <2> QED
    BY <2>1, <2>3, <2>4, <2>5, <2>6
<1> QED
  BY <1>1, <1>2

\* Only GrantRow and RevokeRow touch a row.
LEMMA RowsTouched ==
  ASSUME AccessNext
  PROVE  \/ row' = row
         \/ \E d \in Ceremony :
              /\ GrantRow(d)
              /\ row' = [row EXCEPT ![KeyAt(d)][SubjectOf[d]] = "active"]
         \/ \E d \in Ceremony :
              /\ pc[d] = "revokeRow"
              /\ row' = [row EXCEPT ![KeyAt(d)][Dropped(d)] = "revoked"]
BY DEF AccessNext, Start, Throw, Register, GrantRow, UploadGrant, ReadStatus, RevokeRow,
   UploadRevoke, Upload, server

\* The new principal's rows are never taken away again, and the old one's only
\* by the rebind itself.
LEMMA RowsKept ==
  ASSUME AccessTypeOK, RevokingHalf, AccessNext, NEW c \in Rebind, Undivided(c), NEW k \in Key
  PROVE  /\ row[k][SubjectOf[c]] = "active" => row'[k][SubjectOf[c]] = "active"
         /\ row'[k][PreviousOf[c]] = "revoked" =>
              row[k][PreviousOf[c]] = "revoked" \/ pc[c] = "revokeRow"
<1>1. /\ c \in Ceremony
      /\ SubjectOf[c] \in Principal /\ PreviousOf[c] \in Principal
      /\ Dropped(c) = PreviousOf[c]
      /\ SubjectOf[c] # PreviousOf[c]
  BY AccessAssumption, FreshCredentials DEF Undivided, Dropped, Ceremony
<1>2. CASE row' = row
  BY <1>2
<1>3. ASSUME NEW d \in Ceremony, GrantRow(d),
             row' = [row EXCEPT ![KeyAt(d)][SubjectOf[d]] = "active"]
      PROVE  /\ row[k][SubjectOf[c]] = "active" => row'[k][SubjectOf[c]] = "active"
             /\ row'[k][PreviousOf[c]] = "revoked" => row[k][PreviousOf[c]] = "revoked"
  <2>1. KeyAt(d) \in Key /\ SubjectOf[d] \in Principal
    BY KeyAtType, DroppedType
  <2> QED
    BY <1>1, <1>3, <2>1 DEF AccessTypeOK
<1>4. ASSUME NEW d \in Ceremony, pc[d] = "revokeRow",
             row' = [row EXCEPT ![KeyAt(d)][Dropped(d)] = "revoked"]
      PROVE  /\ row[k][SubjectOf[c]] = "active" => row'[k][SubjectOf[c]] = "active"
             /\ row'[k][PreviousOf[c]] = "revoked" =>
                  row[k][PreviousOf[c]] = "revoked" \/ pc[c] = "revokeRow"
  <2>1. KeyAt(d) \in Key /\ Dropped(d) \in Principal
    BY KeyAtType, DroppedType
  <2>2. d \in Revoke \cup Rebind
    BY <1>4 DEF RevokingHalf
  <2>3. Dropped(d) # SubjectOf[c] /\ (Dropped(d) = PreviousOf[c] => d = c)
    BY <1>1, <2>2 DEF Undivided, OnlyDroppedBy
  <2> QED
    BY <1>1, <1>4, <2>1, <2>3 DEF AccessTypeOK
<1> QED
  BY <1>2, <1>3, <1>4, RowsTouched

-----------------------------------------------------------------------------
LEMMA RebindInit == AccessInit => RebindInv
<1> SUFFICES ASSUME AccessInit PROVE RebindInv
  OBVIOUS
<1>1. AccessTypeOK
  BY TypeInit
<1>2. RevokingHalf
  BY DEF AccessInit, RevokingHalf
<1>3. ASSUME NEW c \in Rebind PROVE GrantsSoFar(c) /\ ~CutOff(c)
  <2>1. c \in Ceremony /\ PreviousOf[c] \in Principal /\ KeysOf[c] \in Seq(Key)
    BY AccessAssumption DEF Ceremony
  <2>2. Keys(c) \subseteq Key
    BY <2>1 DEF Keys
  <2> QED
    BY <2>1, <2>2 DEF AccessInit, GrantsSoFar, CutOff
<1> QED
  BY <1>1, <1>2, <1>3 DEF RebindInv

\* How far the grants of c have come after a step: the rows it had stay, and
\* each of its own calls adds what the next one presupposes.
LEMMA GrantsStep ==
  ASSUME RebindInv, AccessTypeOK', AccessNext, NEW c \in Rebind, Undivided(c)
  PROVE  GrantsSoFar(c)'
<1>1. /\ AccessTypeOK /\ RevokingHalf
      /\ GrantsSoFar(c)
      /\ c \in Ceremony
      /\ KeysOf[c] \in Seq(Key) /\ Len(KeysOf[c]) \in Nat \ {0}
      /\ at[c] \in 1 .. Len(KeysOf[c])
      /\ SubjectOf[c] \in Principal
      /\ c \notin Grant /\ c \notin Revoke
  BY KeyAtType, AccessAssumption DEF RebindInv, Ceremony
<1>2. /\ Keys(c) \subseteq Key
      /\ \A i \in 1 .. Len(KeysOf[c]) : KeysOf[c][i] \in Key
      /\ \A k \in Keys(c) : \E i \in 1 .. Len(KeysOf[c]) : k = KeysOf[c][i]
  BY <1>1 DEF Keys
<1>3. \A k \in Key : row[k][SubjectOf[c]] = "active" => row'[k][SubjectOf[c]] = "active"
  BY <1>1, RowsKept
<1>4. /\ \A i \in 1 .. Len(KeysOf[c]) : Installed(c, i) => Installed(c, i)'
      /\ Everywhere(c) => Everywhere(c)'
  BY <1>2, <1>3 DEF Installed, Everywhere
<1>5. CASE pc'[c] = pc[c] /\ at'[c] = at[c]
  BY <1>1, <1>4, <1>5 DEF GrantsSoFar
<1>6. CASE pc'[c] \in {"done", "failed"}
  BY <1>6 DEF GrantsSoFar
<1>7. CASE Start(c)
  <2>1. pc[c] = "idle" /\ pc'[c] = "register" /\ at'[c] = at[c]
    BY <1>1, <1>7 DEF Start, AccessTypeOK
  <2> QED
    BY <1>1, <2>1 DEF GrantsSoFar
<1>8. CASE Register(c) /\ pc'[c] = "grantRow"
  <2>1. at'[c] = 1
    BY <1>1, <1>8 DEF Register, GrantsSoFar
  <2> QED
    BY <1>8, <2>1 DEF GrantsSoFar
<1>9. CASE GrantRow(c) /\ pc'[c] = "uploadGrant"
  <2>1. /\ pc[c] = "grantRow" /\ at'[c] = at[c]
        /\ row' = [row EXCEPT ![KeyAt(c)][SubjectOf[c]] = "active"]
    BY <1>1, <1>9 DEF GrantRow, Bump, AccessTypeOK
  <2>2. Installed(c, at[c])'
    BY <1>1, <1>2, <2>1 DEF Installed, KeyAt, AccessTypeOK
  <2>3. \A i \in 1 .. at[c] - 1 : Installed(c, i)'
    BY <1>1, <1>4, <2>1 DEF GrantsSoFar
  <2>4. \A i \in 1 .. at'[c] : Installed(c, i)'
    BY <1>1, <2>1, <2>2, <2>3
  <2> QED
    BY <1>9, <2>4 DEF GrantsSoFar
<1>10. CASE UploadGrant(c) /\ pc'[c] \notin {"done", "failed"}
  <2>1. /\ pc[c] = "uploadGrant"
        /\ Advance(c, "grantRow", "status")
    BY <1>1, <1>10 DEF UploadGrant, Upload, AccessTypeOK
  <2>2. \A i \in 1 .. at[c] : Installed(c, i)'
    BY <1>1, <1>4, <2>1 DEF GrantsSoFar
  <2>3. CASE at[c] < Len(KeysOf[c])
    <3>1. pc'[c] = "grantRow" /\ at'[c] = at[c] + 1
      BY <1>1, <1>10, <2>1, <2>3 DEF Advance, Served, AccessTypeOK
    <3>2. \A i \in 1 .. at'[c] - 1 : Installed(c, i)'
      BY <1>1, <2>2, <3>1
    <3> QED
      BY <3>1, <3>2 DEF GrantsSoFar
  <2>4. CASE at[c] = Len(KeysOf[c])
    <3>1. pc'[c] = "status"
      BY <1>1, <1>10, <2>1, <2>4 DEF Advance, Served, AccessTypeOK
    <3>2. Everywhere(c)'
      BY <1>2, <2>2, <2>4 DEF Installed, Everywhere
    <3> QED
      BY <3>1, <3>2 DEF GrantsSoFar
  <2> QED
    BY <1>1, <2>3, <2>4
<1>11. CASE /\ ReadStatus(c) \/ RevokeRow(c) \/ UploadRevoke(c)
            /\ pc'[c] \notin {"done", "failed"}
  <2>1. pc[c] \in {"status", "revokeRow", "uploadRevoke"}
    BY <1>11 DEF ReadStatus, RevokeRow, UploadRevoke
  <2>2. pc'[c] \in {"status", "revokeRow", "uploadRevoke"}
    BY <1>1, <1>11 DEF ReadStatus, RevokeRow, UploadRevoke, Upload, Advance, Served,
       AccessTypeOK
  <2> QED
    BY <1>1, <1>4, <2>1, <2>2 DEF GrantsSoFar
<1> QED
  <2>1. PICK d \in Ceremony : \/ Start(d)
                              \/ Throw(d)
                              \/ Register(d)
                              \/ GrantRow(d)
                              \/ UploadGrant(d)
                              \/ ReadStatus(d)
                              \/ RevokeRow(d)
                              \/ UploadRevoke(d)
    BY DEF AccessNext
  <2>2. CASE d # c
    BY <1>1, <1>5, <2>1, <2>2, CeremonyMovesItself
  <2>3. CASE d = c
    <3>1. Throw(c) => pc'[c] = "failed"
      BY <1>1 DEF Throw, AccessTypeOK
    <3>2. Register(c) => pc'[c] \in {"grantRow", "failed"}
      BY <1>1 DEF Register, Served, AccessTypeOK
    <3>3. GrantRow(c) => pc'[c] \in {"uploadGrant", "failed"}
      BY <1>1 DEF GrantRow, Served, AccessTypeOK
    <3> QED
      BY <1>6, <1>7, <1>8, <1>9, <1>10, <1>11, <2>1, <2>3, <3>1, <3>2, <3>3
  <2> QED
    BY <2>2, <2>3

LEMMA RebindStep == RebindInv /\ [AccessNext]_accessVars => RebindInv'
<1> SUFFICES ASSUME RebindInv, [AccessNext]_accessVars PROVE RebindInv'
  OBVIOUS
<1>1. AccessTypeOK' /\ RevokingHalf'
  BY TypeStep, RevokingHalfStep DEF RebindInv
<1>2. CASE UNCHANGED accessVars
  BY <1>1, <1>2 DEF RebindInv, accessVars, server, GrantsSoFar, CutOff, Everywhere, Installed
<1>3. CASE AccessNext
  <2> SUFFICES ASSUME NEW c \in Rebind, Undivided(c)
               PROVE  GrantsSoFar(c)' /\ (CutOff(c)' => Everywhere(c)')
    BY <1>1 DEF RebindInv, Undivided, OnlyDroppedBy, Dropped
  <2>1. GrantsSoFar(c)'
    BY <1>1, <1>3, GrantsStep
  <2>2. Keys(c) \subseteq Key
    BY AccessAssumption DEF Keys, Ceremony
  <2>3. \A k \in Keys(c) :
          /\ row[k][SubjectOf[c]] = "active" => row'[k][SubjectOf[c]] = "active"
          /\ row'[k][PreviousOf[c]] = "revoked" =>
               row[k][PreviousOf[c]] = "revoked" \/ pc[c] = "revokeRow"
    BY <1>3, <2>2, RowsKept DEF RebindInv
  <2>4. ASSUME CutOff(c)' PROVE Everywhere(c)
    BY <2>3, <2>4 DEF RebindInv, GrantsSoFar, CutOff
  <2> QED
    BY <2>1, <2>3, <2>4 DEF Everywhere
<1> QED
  BY <1>2, <1>3

\* A rebind never cuts the replaced principal off one key before the new one
\* has its row on all of them (principalAccess.ts:376-426), wherever a call
\* fails and whatever other ceremonies do to the same rows.
THEOREM GrantsFirst == AccessSpec => []RebindGrantsFirst
<1>1. RebindInv => RebindGrantsFirst
  BY DEF RebindInv, RebindGrantsFirst, Undivided, CutOff, Everywhere
<1> QED
  BY <1>1, RebindInit, RebindStep, PTL DEF AccessSpec

-----------------------------------------------------------------------------
(* Slots follow rows.  A ceremony that runs alone still knows the envelopes *)
(* when it uploads: what it fetched differs from what is stored by the      *)
(* principals it works on only.  A row and a slot disagree at the one key   *)
(* it has changed the row of, or where a ceremony threw.                    *)

Other == {p \in Principal : \A c \in Rebind : p # SubjectOf[c]}

Granting(c) == pc[c] \in {"register", "grantRow", "uploadGrant"}
Revoking(c) == pc[c] \in {"status", "revokeRow", "uploadRevoke"}

\* What a running ceremony that is alone finds.
Knows(c) ==
  /\ Granting(c) =>
       /\ c \in Grant \cup Rebind
       /\ \A k \in Key : \A p \in Principal \ {SubjectOf[c]} :
            p \in input[c][k] <=> p \in stored[k]
  /\ Revoking(c) =>
       /\ c \in Revoke \cup Rebind
       /\ \A k \in Key : \A p \in Principal \ {SubjectOf[c], Dropped(c)} :
            p \in input[c][k] <=> p \in stored[k]
  /\ pc[c] = "uploadGrant" => row[KeyAt(c)][SubjectOf[c]] = "active"
  /\ pc[c] = "uploadRevoke" => row[KeyAt(c)][Dropped(c)] # "active"

\* A ceremony that accounts for a row without a slot, or a slot without a row.
Lacks(c, k, p) ==
  /\ k \in Keys(c)
  /\ \/ p \in {SubjectOf[c], Dropped(c)} /\ pc[c] = "failed"
     \/ p = SubjectOf[c] /\ pc[c] = "uploadGrant" /\ KeyAt(c) = k

Exceeds(c, k, p) ==
  /\ k \in Keys(c)
  /\ \/ p \in {SubjectOf[c], Dropped(c)} /\ pc[c] = "failed"
     \/ p = Dropped(c) /\ pc[c] = "uploadRevoke" /\ KeyAt(c) = k

Accounted(k, p) ==
  /\ row[k][p] = "active" /\ p \notin stored[k] => \E c \in Grant \cup Rebind : Lacks(c, k, p)
  /\ row[k][p] # "active" /\ p \in stored[k] => \E c \in Revoke \cup Rebind : Exceeds(c, k, p)

AloneInv ==
  /\ AccessTypeOK
  /\ alone =>
       /\ \A c, d \in Ceremony : Running(c) /\ Running(d) => c = d
       /\ \A c \in Ceremony : Running(c) => Knows(c)
       /\ \A k \in Key, p \in Other : Accounted(k, p)

LEMMA AloneInit == AccessInit => AloneInv
<1> SUFFICES ASSUME AccessInit PROVE AloneInv
  OBVIOUS
<1>1. \A c \in Ceremony : ~Running(c)
  BY DEF AccessInit, Running, Step
<1>2. \A k \in Key, p \in Other : row[k][p] = "active" <=> p \in stored[k]
  BY DEF AccessInit, Other
<1> QED
  BY <1>1, <1>2, TypeInit DEF AloneInv, Accounted

LEMMA KeyAtKeys ==
  ASSUME AccessTypeOK, NEW c \in Ceremony
  PROVE  KeyAt(c) \in Keys(c)
BY KeyAtType DEF AccessTypeOK, KeyAt, Keys

\* The steps of one ceremony that is alone before and after: it is enough to
\* look at that ceremony.
LEMMA AloneCeremony ==
  ASSUME AloneInv, AccessTypeOK', alone, alone' => alone, NEW c \in Ceremony,
         Running(c) \/ \A d \in Ceremony : ~Running(d),
         NEW s \in {"idle", "done", "failed"} \cup Step, pc' = [pc EXCEPT ![c] = s],
         s \in Step => Knows(c)',
         \A k \in Key, p \in Other : Accounted(k, p)'
  PROVE  AloneInv'
<1>1. pc'[c] = s /\ \A d \in Ceremony \ {c} : pc'[d] = pc[d]
  BY DEF AloneInv, AccessTypeOK
<1>2. \A d \in Ceremony \ {c} : ~Running(d) /\ ~Running(d)'
  BY <1>1 DEF AloneInv, Running
<1>3. Running(c)' => s \in Step
  BY <1>1 DEF Running
<1> QED
  BY <1>2, <1>3 DEF AloneInv

\* Rows and envelopes that did not change stay accounted for by every ceremony
\* that stays where it was, or fails.
LEMMA AccountedFrame ==
  ASSUME AloneInv, alone, NEW c \in Ceremony, NEW s \in {"idle", "done", "failed"} \cup Step,
         pc' = [pc EXCEPT ![c] = s],
         NEW k \in Key, NEW p \in Other,
         row'[k][p] = row[k][p], p \in stored'[k] <=> p \in stored[k],
         \A d \in Ceremony \ {c} : at'[d] = at[d],
         pc[c] # "failed",
         Lacks(c, k, p) => s = "failed",
         Exceeds(c, k, p) => s = "failed"
  PROVE  Accounted(k, p)'
<1>1. pc'[c] = s /\ \A d \in Ceremony \ {c} : pc'[d] = pc[d]
  BY DEF AloneInv, AccessTypeOK
<1>2. \A d \in Ceremony \ {c} : KeyAt(d)' = KeyAt(d)
  BY DEF KeyAt
<1>3. \A d \in Ceremony : Lacks(d, k, p) => Lacks(d, k, p)'
  <2> SUFFICES ASSUME NEW d \in Ceremony, Lacks(d, k, p) PROVE Lacks(d, k, p)'
    OBVIOUS
  <2>1. CASE d = c
    BY <1>1, <2>1 DEF Lacks, Keys, Dropped
  <2>2. CASE d # c
    BY <1>1, <1>2, <2>2 DEF Lacks, Keys, Dropped
  <2> QED
    BY <2>1, <2>2
<1>4. \A d \in Ceremony : Exceeds(d, k, p) => Exceeds(d, k, p)'
  <2> SUFFICES ASSUME NEW d \in Ceremony, Exceeds(d, k, p) PROVE Exceeds(d, k, p)'
    OBVIOUS
  <2>1. CASE d = c
    BY <1>1, <2>1 DEF Exceeds, Keys, Dropped
  <2>2. CASE d # c
    BY <1>1, <1>2, <2>2 DEF Exceeds, Keys, Dropped
  <2> QED
    BY <2>1, <2>2
<1>5. Accounted(k, p)
  BY DEF AloneInv
<1> QED
  BY <1>3, <1>4, <1>5 DEF Accounted, Ceremony

\* How a call ends, and where the ceremony goes on.
LEMMA ServedStep ==
  ASSUME AloneInv, NEW c \in Ceremony, NEW next \in {"done"} \cup Step, Served(c, next)
  PROVE  \E s \in {next, "failed"} :
           /\ s \in {"idle", "done", "failed"} \cup Step
           /\ pc' = [pc EXCEPT ![c] = s]
           /\ pc'[c] = s
BY DEF Served, AloneInv, AccessTypeOK

LEMMA AdvanceStep ==
  ASSUME AloneInv, NEW c \in Ceremony, NEW again \in Step, NEW after \in {"done"} \cup Step,
         Advance(c, again, after)
  PROVE  /\ \E s \in {again, after, "failed"} :
              /\ s \in {"idle", "done", "failed"} \cup Step
              /\ pc' = [pc EXCEPT ![c] = s]
              /\ pc'[c] = s
         /\ \A d \in Ceremony \ {c} : at'[d] = at[d]
BY DEF Advance, Served, AloneInv, AccessTypeOK

LEMMA AloneGrantRow ==
  ASSUME AloneInv, AccessTypeOK', NEW c \in Ceremony, GrantRow(c), alone
  PROVE  AloneInv'
<1> DEFINE k == KeyAt(c)
           q == SubjectOf[c]
<1>1. k \in Key /\ q \in Principal /\ k \in Keys(c)
  BY KeyAtType, KeyAtKeys, DroppedType DEF AloneInv
<1>2. Running(c) /\ pc[c] = "grantRow" /\ UNCHANGED <<stored, at, input, alone>>
  BY DEF GrantRow, Running, Step
<1>3. PICK s \in {"uploadGrant", "failed"} :
        /\ s \in {"idle", "done", "failed"} \cup Step
        /\ pc' = [pc EXCEPT ![c] = s] /\ pc'[c] = s
  <2>1. Served(c, "uploadGrant")
    BY DEF GrantRow
  <2> QED
    BY <2>1, ServedStep DEF Step
<1>4. /\ row'[k][q] = "active"
      /\ \A j \in Key, p \in Principal : j # k \/ p # q => row'[j][p] = row[j][p]
  BY <1>1 DEF GrantRow, AloneInv, AccessTypeOK
<1>5. Knows(c) /\ c \in Grant \cup Rebind
  BY <1>2 DEF AloneInv, Knows, Granting
<1>6. KeyAt(c)' = k
  BY <1>2 DEF KeyAt
<1>7. s \in Step => Knows(c)'
  <2> SUFFICES ASSUME s = "uploadGrant" PROVE Knows(c)'
    BY DEF Step
  <2> QED
    BY <1>2, <1>3, <1>4, <1>5, <1>6 DEF Knows, Granting, Revoking
<1>8. ASSUME NEW j \in Key, NEW p \in Other
      PROVE  Accounted(j, p)'
  <2>1. CASE j = k /\ p = q
    <3>1. Lacks(c, j, p)'
      BY <1>1, <1>3, <1>6, <2>1 DEF Lacks, Keys
    <3> QED
      BY <1>4, <1>5, <2>1, <3>1 DEF Accounted
  <2>2. CASE j # k \/ p # q
    <3>1. row'[j][p] = row[j][p]
      BY <1>4, <2>2 DEF Other
    <3>2. ~Lacks(c, j, p) /\ ~Exceeds(c, j, p)
      BY <1>2 DEF Lacks, Exceeds
    <3> QED
      BY <1>2, <1>3, <3>1, <3>2, AccountedFrame
  <2> QED
    BY <2>1, <2>2
<1> QED
  BY <1>2, <1>3, <1>7, <1>8, AloneCeremony

LEMMA AloneUploadGrant ==
  ASSUME AloneInv, AccessTypeOK', NEW c \in Ceremony, UploadGrant(c), alone
  PROVE  AloneInv'
<1> DEFINE k == KeyAt(c)
           q == SubjectOf[c]
           after == IF c \in Rebind THEN "status" ELSE "done"
<1>1. k \in Key /\ q \in Principal /\ k \in Keys(c)
  BY KeyAtType, KeyAtKeys, DroppedType DEF AloneInv
<1>2. /\ Running(c) /\ pc[c] = "uploadGrant" /\ UNCHANGED <<row, input, alone>>
      /\ Advance(c, "grantRow", after)
  BY DEF UploadGrant, Upload, Running, Step
<1>3. PICK s \in {"grantRow", after, "failed"} :
        /\ s \in {"idle", "done", "failed"} \cup Step
        /\ pc' = [pc EXCEPT ![c] = s] /\ pc'[c] = s
  BY <1>2, AdvanceStep DEF Step
<1>4. \A d \in Ceremony \ {c} : at'[d] = at[d]
  BY <1>2, AdvanceStep DEF Step
<1>5. /\ stored'[k] = input[c][k] \cup {q}
      /\ \A j \in Key \ {k} : stored'[j] = stored[j]
  BY <1>1 DEF UploadGrant, Upload, AloneInv, AccessTypeOK
<1>6. /\ c \in Grant \cup Rebind
      /\ row[k][q] = "active"
      /\ \A j \in Key : \A p \in Principal \ {q} : p \in input[c][j] <=> p \in stored[j]
  BY <1>2 DEF AloneInv, Knows, Granting
<1>7. \A j \in Key : \A p \in Principal \ {q} : p \in stored'[j] <=> p \in stored[j]
  BY <1>5, <1>6
<1>8. s \in Step => Knows(c)'
  <2> SUFFICES ASSUME s \in Step PROVE Knows(c)'
    OBVIOUS
  <2>1. s = "grantRow" \/ (s = "status" /\ c \in Rebind)
    BY DEF Step
  <2> QED
    BY <1>2, <1>3, <1>6, <1>7, <2>1 DEF Knows, Granting, Revoking
<1>9. ASSUME NEW j \in Key, NEW p \in Other
      PROVE  Accounted(j, p)'
  <2>1. CASE j = k /\ p = q
    BY <1>2, <1>5, <1>6, <2>1 DEF Accounted
  <2>2. CASE j # k \/ p # q
    <3>1. p \in stored'[j] <=> p \in stored[j]
      BY <1>5, <1>7, <2>2 DEF Other
    <3>2. ~Lacks(c, j, p) /\ ~Exceeds(c, j, p)
      BY <1>2, <2>2 DEF Lacks, Exceeds
    <3> QED
      BY <1>2, <1>3, <1>4, <3>1, <3>2, AccountedFrame
  <2> QED
    BY <2>1, <2>2
<1> QED
  BY <1>2, <1>3, <1>8, <1>9, AloneCeremony

LEMMA AloneRevokeRow ==
  ASSUME AloneInv, AccessTypeOK', NEW c \in Ceremony, RevokeRow(c), alone
  PROVE  AloneInv'
<1> DEFINE k == KeyAt(c)
           q == Dropped(c)
<1>1. k \in Key /\ q \in Principal /\ k \in Keys(c)
  BY KeyAtType, KeyAtKeys, DroppedType DEF AloneInv
<1>2. Running(c) /\ pc[c] = "revokeRow" /\ UNCHANGED <<stored, at, input, alone>>
  BY DEF RevokeRow, Running, Step
<1>3. PICK s \in {"uploadRevoke", "failed"} :
        /\ s \in {"idle", "done", "failed"} \cup Step
        /\ pc' = [pc EXCEPT ![c] = s] /\ pc'[c] = s
  <2>1. Served(c, "uploadRevoke")
    BY DEF RevokeRow
  <2> QED
    BY <2>1, ServedStep DEF Step
<1>4. /\ row'[k][q] # "active"
      /\ \A j \in Key, p \in Principal : j # k \/ p # q => row'[j][p] = row[j][p]
  BY <1>1 DEF RevokeRow, AloneInv, AccessTypeOK
<1>5. Knows(c) /\ c \in Revoke \cup Rebind
  BY <1>2 DEF AloneInv, Knows, Revoking
<1>6. KeyAt(c)' = k /\ Dropped(c)' = q
  BY <1>2 DEF KeyAt, Dropped
<1>7. s \in Step => Knows(c)'
  <2> SUFFICES ASSUME s = "uploadRevoke" PROVE Knows(c)'
    BY DEF Step
  <2> QED
    BY <1>2, <1>3, <1>4, <1>5, <1>6 DEF Knows, Granting, Revoking
<1>8. ASSUME NEW j \in Key, NEW p \in Other
      PROVE  Accounted(j, p)'
  <2>1. CASE j = k /\ p = q
    <3>1. Exceeds(c, j, p)'
      BY <1>1, <1>3, <1>6, <2>1 DEF Exceeds, Keys
    <3> QED
      BY <1>4, <1>5, <2>1, <3>1 DEF Accounted
  <2>2. CASE j # k \/ p # q
    <3>1. row'[j][p] = row[j][p]
      BY <1>4, <2>2 DEF Other
    <3>2. ~Lacks(c, j, p) /\ ~Exceeds(c, j, p)
      BY <1>2 DEF Lacks, Exceeds
    <3> QED
      BY <1>2, <1>3, <3>1, <3>2, AccountedFrame
  <2> QED
    BY <2>1, <2>2
<1> QED
  BY <1>2, <1>3, <1>7, <1>8, AloneCeremony

LEMMA AloneUploadRevoke ==
  ASSUME AloneInv, AccessTypeOK', NEW c \in Ceremony, UploadRevoke(c), alone
  PROVE  AloneInv'
<1> DEFINE k == KeyAt(c)
           q == Dropped(c)
<1>1. k \in Key /\ q \in Principal /\ k \in Keys(c)
  BY KeyAtType, KeyAtKeys, DroppedType DEF AloneInv
<1>2. /\ Running(c) /\ pc[c] = "uploadRevoke" /\ UNCHANGED <<row, input, alone>>
      /\ Advance(c, "status", "done")
  BY DEF UploadRevoke, Upload, Running, Step
<1>3. PICK s \in {"status", "done", "failed"} :
        /\ s \in {"idle", "done", "failed"} \cup Step
        /\ pc' = [pc EXCEPT ![c] = s] /\ pc'[c] = s
  BY <1>2, AdvanceStep DEF Step
<1>4. \A d \in Ceremony \ {c} : at'[d] = at[d]
  BY <1>2, AdvanceStep DEF Step
<1>5. /\ stored'[k] = input[c][k] \ {q}
      /\ \A j \in Key \ {k} : stored'[j] = stored[j]
  BY <1>1 DEF UploadRevoke, Upload, AloneInv, AccessTypeOK
<1>6. /\ c \in Revoke \cup Rebind
      /\ row[k][q] # "active"
      /\ \A j \in Key : \A p \in Principal \ {SubjectOf[c], q} :
           p \in input[c][j] <=> p \in stored[j]
  BY <1>2 DEF AloneInv, Knows, Revoking
<1>7. \A j \in Key : \A p \in Principal \ {SubjectOf[c], q} :
        p \in stored'[j] <=> p \in stored[j]
  BY <1>5, <1>6
<1>8. s \in Step => Knows(c)'
  <2> SUFFICES ASSUME s = "status" PROVE Knows(c)'
    BY DEF Step
  <2>1. Dropped(c)' = q
    BY DEF Dropped
  <2> QED
    BY <1>2, <1>3, <1>6, <1>7, <2>1 DEF Knows, Granting, Revoking
<1>9. ASSUME NEW j \in Key, NEW p \in Other
      PROVE  Accounted(j, p)'
  <2>0. p # SubjectOf[c] \/ p = q
    BY <1>6 DEF Other, Dropped
  <2>1. CASE j = k /\ p = q
    BY <1>2, <1>5, <1>6, <2>1 DEF Accounted
  <2>2. CASE j # k \/ p # q
    <3>1. p \in stored'[j] <=> p \in stored[j]
      BY <1>5, <1>7, <2>0, <2>2 DEF Other
    <3>2. ~Lacks(c, j, p) /\ ~Exceeds(c, j, p)
      BY <1>2, <2>2 DEF Lacks, Exceeds
    <3> QED
      BY <1>2, <1>3, <1>4, <3>1, <3>2, AccountedFrame
  <2> QED
    BY <2>1, <2>2
<1> QED
  BY <1>2, <1>3, <1>8, <1>9, AloneCeremony

\* The steps that leave rows and envelopes alone.
LEMMA AloneQuiet ==
  ASSUME AloneInv, AccessTypeOK', NEW c \in Ceremony, alone,
         Throw(c) \/ Register(c) \/ ReadStatus(c)
  PROVE  AloneInv'
<1>1. /\ Running(c) /\ UNCHANGED <<row, stored, at, input, alone>>
      /\ pc[c] # "failed"
  BY DEF Throw, Register, ReadStatus, server, Running, Step
<1>2. PICK s \in {"failed", "grantRow", "revokeRow"} :
        /\ s \in {"idle", "done", "failed"} \cup Step
        /\ pc' = [pc EXCEPT ![c] = s] /\ pc'[c] = s
        /\ s = "grantRow" => pc[c] = "register"
        /\ s = "revokeRow" => pc[c] = "status"
  <2>1. CASE Throw(c)
    BY <2>1 DEF Throw, AloneInv, AccessTypeOK
  <2>2. CASE Register(c)
    BY <2>2 DEF Register, Served, AloneInv, AccessTypeOK, Step
  <2>3. CASE ReadStatus(c)
    BY <2>3 DEF ReadStatus, AloneInv, AccessTypeOK, Step
  <2> QED
    BY <2>1, <2>2, <2>3
<1>3. Knows(c)
  BY <1>1 DEF AloneInv
<1>4. s \in Step => Knows(c)'
  BY <1>1, <1>2, <1>3 DEF Knows, Granting, Revoking, Step, Dropped
<1>5. ASSUME NEW k \in Key, NEW p \in Other
      PROVE  Accounted(k, p)'
  <2>1. /\ Lacks(c, k, p) => s = "failed"
        /\ Exceeds(c, k, p) => s = "failed"
    BY <1>1, <1>2 DEF Lacks, Exceeds
  <2> QED
    BY <1>1, <1>2, <2>1, AccountedFrame
<1> QED
  BY <1>1, <1>2, <1>4, <1>5, AloneCeremony

LEMMA AloneStart ==
  ASSUME AloneInv, AccessTypeOK', NEW c \in Ceremony, Start(c), alone'
  PROVE  AloneInv'
<1>1. /\ alone /\ \A d \in Ceremony : ~Running(d)
      /\ pc[c] = "idle" /\ UNCHANGED <<row, stored, at>>
  BY DEF Start, server, AloneInv, AccessTypeOK
<1>2. PICK s \in {"register", "grantRow", "status"} :
        /\ s \in {"idle", "done", "failed"} \cup Step
        /\ pc' = [pc EXCEPT ![c] = s] /\ pc'[c] = s
        /\ s \in {"register", "grantRow"} => c \in Grant \cup Rebind
        /\ s = "status" => c \in Revoke
  BY DEF Start, AloneInv, AccessTypeOK, Step
<1>3. input'[c] = stored
  BY DEF Start, AloneInv, AccessTypeOK
<1>4. Knows(c)'
  BY <1>1, <1>2, <1>3 DEF Knows, Granting, Revoking
<1>5. ASSUME NEW k \in Key, NEW p \in Other
      PROVE  Accounted(k, p)'
  <2>1. ~Lacks(c, k, p) /\ ~Exceeds(c, k, p)
    BY <1>1 DEF Lacks, Exceeds
  <2> QED
    BY <1>1, <1>2, <2>1, AccountedFrame
<1> QED
  BY <1>1, <1>2, <1>4, <1>5, AloneCeremony

LEMMA AloneStep == AloneInv /\ [AccessNext]_accessVars => AloneInv'
<1> SUFFICES ASSUME AloneInv, [AccessNext]_accessVars PROVE AloneInv'
  OBVIOUS
<1>1. AccessTypeOK'
  BY TypeStep DEF AloneInv
<1>2. CASE ~alone'
  BY <1>1, <1>2 DEF AloneInv
<1>3. CASE UNCHANGED accessVars
  BY <1>1, <1>3 DEF accessVars, server, AloneInv, Running, Knows, Granting, Revoking, KeyAt, Dropped,
       Accounted, Lacks, Exceeds, Keys
<1>4. ASSUME NEW c \in Ceremony, alone', Start(c) PROVE AloneInv'
  BY <1>1, <1>4, AloneStart
<1>5. ASSUME NEW c \in Ceremony, alone',
             \/ Throw(c) \/ Register(c) \/ GrantRow(c) \/ UploadGrant(c)
             \/ ReadStatus(c) \/ RevokeRow(c) \/ UploadRevoke(c)
      PROVE  AloneInv'
  <2>1. alone
    BY <1>5 DEF Throw, Register, GrantRow, UploadGrant, Upload, ReadStatus, RevokeRow, UploadRevoke
  <2> QED
    BY <1>1, <1>5, <2>1, AloneQuiet, AloneGrantRow, AloneUploadGrant, AloneRevokeRow,
       AloneUploadRevoke
<1> QED
  BY <1>2, <1>3, <1>4, <1>5 DEF AccessNext

\* Ceremonies that follow each other, each of which may throw at any of its
\* calls, leave no principal with a row and no slot, or a slot and no row, but
\* where one of them was interrupted (principalAccess.ts:284-530).
THEOREM SlotsFollow == AccessSpec => []SlotFollowsRow
<1>1. AloneInv => SlotFollowsRow
  <2> SUFFICES ASSUME AloneInv, alone, NEW k \in Key,
                      NEW p \in Principal \ {SubjectOf[c] : c \in Rebind}
               PROVE  /\ row[k][p] = "active" /\ p \notin stored[k] =>
                           Interrupted(k, p, Grant \cup Rebind)
                      /\ row[k][p] # "active" /\ p \in stored[k] =>
                           Interrupted(k, p, Revoke \cup Rebind)
    BY DEF SlotFollowsRow
  <2>1. Accounted(k, p)
    BY DEF AloneInv, Other
  <2> QED
    BY <2>1 DEF Accounted, Lacks, Exceeds, Interrupted
<1> QED
  BY <1>1, AloneInit, AloneStep, PTL DEF AccessSpec

-----------------------------------------------------------------------------
Phases == {"idle", "preflight", "prove", "issue", "answered", "fetching", "done", "failed"}
Accepted == {o \in Options : OptionsOf[o].lifetime \in 1..MaxLifetime}

\* What a call that has the server's answer holds.
AnswerState ==
  [phase : {"answered", "fetching"}, option : Accepted, session : Sessions,
   echo : BOOLEAN, record : issued, fresh : BOOLEAN]

CallSound(c) ==
  LET a == calls[c]
  IN  /\ a.phase \in Phases
      /\ a.phase \in {"preflight", "prove", "issue", "done"} => a.option \in Accepted
      /\ a.phase = "issue" =>
           /\ CheckVerifiable(OptionsOf[a.option].subject)
           /\ a.session \in Sessions /\ a.echo \in BOOLEAN
      /\ a.phase \in {"answered", "fetching"} =>
           /\ a \in AnswerState
           /\ CheckVerifiable(OptionsOf[a.option].subject)
           /\ a.fresh => a.record.option = a.option /\ a.record.session = a.session
      /\ a.phase = "done" => a.actionKey = RecordKey /\ a.record \in issued
      /\ a.phase = "failed" /\ a.own =>
           /\ a.code = "ISSUER_UNKNOWN"
           /\ rotated[KeyNetwork] > 0 \/ a.network # KeyNetwork

\* A record was signed with a key that was active by then.
RecordSound(r) == r \in Records /\ r.rotation <= rotated[KeyNetwork]

LoadSound ==
  load # None =>
    /\ load \in [network : Networks, pin : {None} \cup {Pin[n] : n \in Networks},
                 answer : {load.answer}]
    /\ load.pin \in {None, Pin[load.network]}
    /\ load.answer \in {None, Garbage(load.network)}
                         \cup {Doc(load.network, r) : r \in 0..rotated[load.network]}

CacheSound(n) ==
  cache[n] # None =>
    /\ \E r \in 0..rotated[n] : cache[n].doc = Doc(n, r)
    /\ cache[n].pinned \in BOOLEAN
    /\ cache[n].pinned => cache[n].doc = Pin[n]

LaneInv ==
  /\ now \in 0..MaxTime
  /\ rotated \in [Networks -> 0..MaxRotations]
  /\ DOMAIN cache = Networks /\ \A n \in Networks : CacheSound(n)
  /\ LoadSound
  /\ DOMAIN calls = Calls /\ \A c \in Calls : CallSound(c)
  /\ Cardinality(issued) <= 1 /\ \A r \in issued : RecordSound(r)

-----------------------------------------------------------------------------
(* The helpers.                                                            *)

\* A commitment is to the first final chunk of a position.
LEMMA FinalChunk ==
  CovenantWriteCommit(<<[final |-> FALSE, commit |-> "first"],
                        [final |-> TRUE, commit |-> "final"],
                        [final |-> FALSE, commit |-> "after"]>>) = "final"
<1> DEFINE chunks == <<[final |-> FALSE, commit |-> "first"],
                       [final |-> TRUE, commit |-> "final"],
                       [final |-> FALSE, commit |-> "after"]>>
           final == {i \in DOMAIN chunks : chunks[i].final}
           first == CHOOSE i \in final : \A j \in final : i <= j
<1>1. DOMAIN chunks = 1..3
  OBVIOUS
<1>2. final = {2}
  <2>1. chunks[1].final = FALSE /\ chunks[2].final = TRUE /\ chunks[3].final = FALSE
    OBVIOUS
  <2> HIDE DEF chunks
  <2> QED
    BY <1>1, <2>1
<1>3. first = 2
  <2> HIDE DEF final
  <2> QED
    BY <1>2
<1>4. CovenantWriteCommit(chunks) = IF final # {} THEN chunks[first].commit
        ELSE IF chunks # <<>> THEN chunks[Len(chunks)].commit ELSE "zero"
  BY DEF CovenantWriteCommit
<1>5. chunks[2].commit = "final"
  OBVIOUS
<1> QED
  <2> HIDE DEF final, first, chunks
  <2>1. CovenantWriteCommit(chunks) = "final"
    BY <1>2, <1>3, <1>4, <1>5
  <2> QED
    BY <2>1 DEF chunks

\* A subject the lane accepts has a last input.
LEMMA LastInput ==
  ASSUME NEW o \in Options, CheckVerifiable(OptionsOf[o].subject)
  PROVE  LET inputs == OptionsOf[o].subject.inputs
         IN  Len(inputs) \in DOMAIN inputs
<1> DEFINE inputs == OptionsOf[o].subject.inputs
           members == {inputs[i] : i \in DOMAIN inputs}
<1>1. inputs \in Seq(members) /\ inputs # <<>>
  BY LaneAssumption DEF CheckVerifiable
<1> HIDE DEF members
<1>2. Len(inputs) # 0
  <2> HIDE DEF inputs
  <2> QED
    BY <1>1, EmptySeq
<1> QED
  <2> HIDE DEF inputs
  <2>1. Len(inputs) \in DOMAIN inputs
    BY <1>1, <1>2
  <2> QED
    BY <2>1 DEF inputs

\* The aggregate of an export's own envelope is the export's commitment.
LEMMA OwnAggregate ==
  ASSUME NEW o \in Options, NEW session, CheckVerifiable(OptionsOf[o].subject)
  PROVE  LET s == OptionsOf[o].subject
         IN  PinAggregate(EnvelopeOf(s, session)) = Commitment(s, session)
<1> DEFINE s == OptionsOf[o].subject
           k == Len(s.inputs)
           p == Position(s, k, session)
<1>1. k \in DOMAIN s.inputs
  BY LastInput
<1>2. CompletingBundle(EnvelopeOf(s, session)) = p
  <2> HIDE DEF s
  <2> QED
    BY <1>1 DEF CompletingBundle, EnvelopeOf
<1>3. CovenantWriteCommit(p.chunks) = "final"
  BY FinalChunk DEF Position
<1>4. EnvelopeOf(s, session).session = session
  BY DEF EnvelopeOf
<1> QED
  BY <1>2, <1>3, <1>4 DEF PinAggregate, Commitment

\* The same of the pair that is burned at the completing position.
LEMMA OwnBurnPair ==
  ASSUME NEW o \in Options, NEW session, CheckVerifiable(OptionsOf[o].subject)
  PROVE  LET s == OptionsOf[o].subject
         IN  BurnPairOf(EnvelopeOf(s, session)) = BurnPair(session, Len(s.inputs))
<1> DEFINE s == OptionsOf[o].subject
           k == Len(s.inputs)
<1>1. k \in DOMAIN s.inputs
  BY LastInput
<1>2. CompletingBundle(EnvelopeOf(s, session)) = Position(s, k, session)
  <2> HIDE DEF s
  <2> QED
    BY <1>1 DEF CompletingBundle, EnvelopeOf
<1> QED
  BY <1>2 DEF BurnPairOf, Position

\* The cross-checks pass the answer to a call's own export.
LEMMA FreshPasses ==
  ASSUME NEW c \in Calls, CallSound(c), calls[c].phase \in {"answered", "fetching"},
         calls[c].fresh
  PROVE  CrossChecks(calls[c]) = "OK"
<1> DEFINE a == calls[c]
           s == OptionsOf[a.option].subject
           export == Export(a.option, a.session, a.echo)
           e == export.envelope
<1>1. /\ a.option \in Options /\ CheckVerifiable(s)
      /\ a.record.option = a.option /\ a.record.session = a.session
  BY DEF CallSound, AnswerState, Accepted
<1>2. /\ export.commitment = Commitment(s, a.session) /\ e = EnvelopeOf(s, a.session)
      /\ export.root = "root"
      /\ export.pair # <<>> => export.pair = BurnPair(a.session, Len(s.inputs))
  BY DEF Export
<1>3. /\ ArtifactOf(a.record).fields.subjectCommitment = export.commitment
      /\ ArtifactOf(a.record).fields.policyRoot = export.root
  BY <1>1, <1>2 DEF ArtifactOf
<1>4. PinAggregate(e) = export.commitment
  <2>1. PinAggregate(EnvelopeOf(s, a.session)) = Commitment(s, a.session)
    BY <1>1, OwnAggregate
  <2> QED
    BY <1>2, <2>1
<1>5. export.pair # <<>> => BurnPairOf(e) = export.pair
  BY <1>1, <1>2, OwnBurnPair
<1> QED
  BY <1>3, <1>4, <1>5 DEF CrossChecks

\* A key that was active at the time of a document is in it, and it is its
\* active key only if it still is.
LEMMA DocKeys ==
  ASSUME NEW n, NEW r \in Nat, NEW kid, NEW set, set.doc = Doc(n, r)
  PROVE  /\ \A key \in KeysForKid(set, kid) : key.publicKey = kid
         /\ kid = Kid(n, r + 1) => KeysForKid(set, kid) # {}
<1>1. /\ DOMAIN set.doc.keys = 1..(r + 1)
      /\ \A i \in 1..(r + 1) :
           set.doc.keys[i] = [kid |-> Kid(n, i), publicKey |-> Kid(n, i),
                              status |-> IF i = r + 1 THEN "active" ELSE "retired"]
  BY DEF Doc
<1> DEFINE active == {j \in DOMAIN set.doc.keys :
              set.doc.keys[j].kid = kid /\ set.doc.keys[j].status = "active"}
<1>2. KeysForKid(set, kid) = {set.doc.keys[i] : i \in active}
  BY DEF KeysForKid
<1>3. \A i \in 1..(r + 1) :
        /\ set.doc.keys[i].kid = Kid(n, i) /\ set.doc.keys[i].publicKey = Kid(n, i)
        /\ set.doc.keys[i].status = IF i = r + 1 THEN "active" ELSE "retired"
  <2> TAKE i \in 1..(r + 1)
  <2>1. set.doc.keys[i] = [kid |-> Kid(n, i), publicKey |-> Kid(n, i),
                           status |-> IF i = r + 1 THEN "active" ELSE "retired"]
    BY <1>1
  <2> HIDE DEF active
  <2> QED
    BY <2>1
<1>4. \A i \in active : set.doc.keys[i].publicKey = kid
  BY <1>1, <1>3
<1>5. kid = Kid(n, r + 1) => r + 1 \in active
  BY <1>1, <1>3
<1> HIDE DEF active
<1> QED
  BY <1>2, <1>4, <1>5

-----------------------------------------------------------------------------
(* The invariant.                                                          *)

LEMMA LaneInit == Init => LaneInv
<1> SUFFICES ASSUME Init PROVE LaneInv
  OBVIOUS
<1>1. \A c \in Calls : CallSound(c)
  BY DEF Init, Idle, CallSound, Phases
<1>2. Cardinality(issued) = 0
  BY FS_EmptySet DEF Init
<1> QED
  BY <1>1, <1>2, LaneAssumption DEF Init, LaneInv, LoadSound, CacheSound

\* A call that a step leaves alone stays sound while records are kept and
\* rotations only add up.
LEMMA CallKept ==
  ASSUME NEW d \in Calls, CallSound(d), calls'[d] = calls[d], issued \subseteq issued',
         rotated[KeyNetwork] \in Nat, rotated'[KeyNetwork] \in Nat,
         rotated[KeyNetwork] <= rotated'[KeyNetwork]
  PROVE  CallSound(d)'
<1>1. calls[d] \in AnswerState => calls'[d] \in AnswerState'
  BY DEF AnswerState
<1> QED
  BY <1>1 DEF CallSound, RecordKey

\* A step of one call that keeps the rest of the state.
LEMMA OneCall ==
  ASSUME LaneInv, NEW c \in Calls, NEW x, calls' = [calls EXCEPT ![c] = x],
         calls'[c] = x => CallSound(c)',
         UNCHANGED <<now, rotated, cache, load, issued>>
  PROVE  LaneInv'
<1>1. DOMAIN calls' = Calls /\ calls'[c] = x /\ \A d \in Calls \ {c} : calls'[d] = calls[d]
  BY DEF LaneInv
<1>2. rotated[KeyNetwork] \in Nat
  BY LaneAssumption DEF LaneInv
<1>3. \A d \in Calls \ {c} : CallSound(d)'
  BY <1>1, <1>2, CallKept DEF LaneInv
<1>4. LoadSound' /\ (\A n \in Networks : CacheSound(n)') /\ \A r \in issued' : RecordSound(r)'
  BY DEF LaneInv, LoadSound, CacheSound, RecordSound
<1> QED
  BY <1>1, <1>3, <1>4 DEF LaneInv

LEMMA OneCallActions ==
  ASSUME LaneInv, NEW c \in Calls,
         Begin(c) \/ Preflight(c) \/ Prove(c) \/ Replay(c) \/ Consumed(c) \/ LoseAnswer(c)
  PROVE  LaneInv'
<1>1. CallSound(c)
  BY DEF LaneInv
<1>2. ASSUME NEW o \in Accepted, NEW p \in {"preflight", "prove"},
             calls'[c] = [phase |-> p, option |-> o]
      PROVE  CallSound(c)'
  BY <1>2 DEF CallSound, Phases
<1>3. ASSUME NEW code, calls'[c] = Failed(c, code, FALSE)
      PROVE  CallSound(c)'
  BY <1>3 DEF CallSound, Phases, Failed
<1>4. CASE Begin(c)
  <2> PICK o \in Options :
         calls' = [calls EXCEPT ![c] =
           IF OptionsOf[o].lifetime \in 1..MaxLifetime
           THEN [phase |-> "preflight", option |-> o]
           ELSE Failed(c, "INVALID_LIFETIME", FALSE)]
    BY <1>4 DEF Begin
  <2> QED
    BY <1>2, <1>3, <1>4, OneCall DEF Begin, Accepted
<1>5. CASE Preflight(c)
  <2>1. calls[c].option \in Accepted
    BY <1>1, <1>5 DEF Preflight, CallSound
  <2>2. PICK x : /\ calls' = [calls EXCEPT ![c] = x]
                 /\ \/ \E code : x = Failed(c, code, FALSE)
                    \/ x = [phase |-> "prove", option |-> calls[c].option]
    BY <1>5 DEF Preflight
  <2> QED
    BY <1>2, <1>3, <1>5, <2>1, <2>2, OneCall DEF Preflight
<1>6. CASE Prove(c)
  <2>1. calls[c].option \in Accepted
    BY <1>1, <1>6 DEF Prove, CallSound
  <2>2. ASSUME NEW session \in Sessions, NEW echo \in BOOLEAN,
               CheckVerifiable(OptionsOf[calls[c].option].subject),
               calls'[c] = [phase |-> "issue", option |-> calls[c].option,
                            session |-> session, echo |-> echo]
        PROVE  CallSound(c)'
    BY <2>1, <2>2 DEF CallSound, Phases
  <2>3. CASE calls' = [calls EXCEPT ![c] = Failed(c, "POLICY_REJECTED", FALSE)]
    BY <1>3, <1>6, <2>3, OneCall DEF Prove
  <2>4. CASE /\ CheckVerifiable(OptionsOf[calls[c].option].subject)
             /\ \E session \in Sessions, echo \in BOOLEAN :
                  calls' = [calls EXCEPT ![c] =
                    [phase |-> "issue", option |-> calls[c].option,
                     session |-> session, echo |-> echo]]
    BY <1>6, <2>2, <2>4, OneCall DEF Prove
  <2> QED
    BY <1>6, <2>3, <2>4 DEF Prove
<1>7. CASE Replay(c)
  <2>1. PICK r \in issued : calls' = [calls EXCEPT ![c] = Answer(c, r, FALSE)]
    BY <1>7 DEF Replay
  <2>2. /\ calls[c].option \in Accepted /\ calls[c].session \in Sessions
        /\ calls[c].echo \in BOOLEAN /\ CheckVerifiable(OptionsOf[calls[c].option].subject)
    BY <1>1, <1>7 DEF Replay, CallSound
  <2>3. UNCHANGED <<now, rotated, cache, load, issued>>
    BY <1>7 DEF Replay
  <2>4. ASSUME calls'[c] = Answer(c, r, FALSE) PROVE CallSound(c)'
    <3>1. calls'[c] \in AnswerState'
      BY <2>2, <2>3, <2>4 DEF Answer, AnswerState
    <3> QED
      BY <2>2, <2>4, <3>1 DEF CallSound, Answer, Phases
  <2> QED
    BY <2>1, <2>3, <2>4, OneCall
<1>8. CASE Consumed(c)
  BY <1>3, <1>8, OneCall DEF Consumed
<1>9. CASE LoseAnswer(c)
  BY <1>3, <1>9, OneCall DEF LoseAnswer
<1> QED
  BY <1>4, <1>5, <1>6, <1>7, <1>8, <1>9

LEMMA IssueStep ==
  ASSUME LaneInv, NEW c \in Calls, Issue(c)
  PROVE  LaneInv'
<1> DEFINE record == [option |-> calls[c].option, session |-> calls[c].session,
                      rotation |-> rotated[KeyNetwork], at |-> now]
<1>1. /\ issued = {} /\ issued' = {record}
      /\ calls' = [calls EXCEPT ![c] = Answer(c, record, TRUE)]
      /\ UNCHANGED <<now, rotated, cache, load>>
  BY DEF Issue
<1>2. /\ calls[c].option \in Accepted /\ calls[c].session \in Sessions
      /\ calls[c].echo \in BOOLEAN /\ CheckVerifiable(OptionsOf[calls[c].option].subject)
  BY DEF LaneInv, Issue, CallSound
<1>3. rotated[KeyNetwork] \in Nat
  BY LaneAssumption DEF LaneInv
<1>4. \A r \in issued' : RecordSound(r)'
  <2>1. now \in 0..MaxTime /\ rotated[KeyNetwork] \in 0..MaxRotations
    BY LaneAssumption DEF LaneInv
  <2>2. record \in Records
    BY <1>2, <2>1 DEF Records, Accepted
  <2>3. record.rotation <= rotated'[KeyNetwork]
    BY <1>1, <1>3
  <2> HIDE DEF record
  <2> QED  BY <1>1, <2>2, <2>3 DEF RecordSound
<1>5. Cardinality(issued') <= 1
  <2> HIDE DEF record
  <2> QED
    BY <1>1, FS_Singleton
<1>6. \A d \in Calls : CallSound(d)'
  <2>1. CallSound(c)'
    <3>1. calls'[c] = Answer(c, record, TRUE)
      BY <1>1 DEF LaneInv
    <3>2. record.option = calls[c].option /\ record.session = calls[c].session
      OBVIOUS
    <3> HIDE DEF record
    <3>3. record \in issued'
      BY <1>1
    <3>4. calls'[c] \in AnswerState'
      BY <1>2, <3>1, <3>3 DEF Answer, AnswerState
    <3> QED
      BY <1>2, <3>1, <3>2, <3>4 DEF CallSound, Answer, Phases
  <2>2. ASSUME NEW d \in Calls \ {c} PROVE CallSound(d)'
    <3>1. calls'[d] = calls[d] /\ CallSound(d)
      BY <1>1 DEF LaneInv
    <3>2. issued \subseteq issued' /\ rotated'[KeyNetwork] = rotated[KeyNetwork]
      BY <1>1
    <3> QED
      BY <1>3, <3>1, <3>2, CallKept
  <2> QED
    BY <2>1, <2>2
<1>7. LoadSound' /\ \A n \in Networks : CacheSound(n)'
  BY <1>1 DEF LaneInv, LoadSound, CacheSound
<1> QED
  BY <1>1, <1>4, <1>5, <1>6, <1>7 DEF LaneInv

\* A call with an answer ends in a sound state.
LEMMA EndedSound ==
  ASSUME LaneInv, NEW c \in Calls, calls[c].phase \in {"answered", "fetching"},
         calls'[c] = Ended(c), UNCHANGED <<rotated, issued>>
  PROVE  CallSound(c)'
<1> DEFINE a == calls[c]
<1>1. CallSound(c) /\ a \in AnswerState
  BY DEF LaneInv, CallSound
<1>2. CASE CrossChecks(a) # "OK"
  <2>1. ~a.fresh
    BY <1>1, <1>2, FreshPasses
  <2>2. calls'[c] = Failed(c, CrossChecks(a), FALSE)
    BY <1>1, <1>2, <2>1 DEF Ended, AnswerState
  <2> QED
    BY <2>2 DEF CallSound, Phases, Failed
<1>3. CASE CrossChecks(a) = "OK"
  <2>1. ASSUME ~a.fresh PROVE ActionKey(Export(a.option, a.session, a.echo).pair) = RecordKey
    <3>1. Export(a.option, a.session, a.echo).pair # <<>>
      BY <1>3, <2>1 DEF CrossChecks
    <3>2. \E session, k : Export(a.option, a.session, a.echo).pair = BurnPair(session, k)
      BY <3>1 DEF Export
    <3> QED
      BY <3>2 DEF BurnPair, ActionKey, RecordKey
  <2>2. calls'[c] = [phase |-> "done", option |-> a.option, session |-> a.session,
                     record |-> a.record, actionKey |-> RecordKey]
    BY <1>1, <1>3, <2>1 DEF Ended, AnswerState
  <2> QED
    BY <1>1, <2>2 DEF CallSound, Phases, AnswerState, RecordKey
<1> QED
  BY <1>2, <1>3

\* With the documents of before the first rotation, and ever for what was just
\* signed, the issuer's key is there and its signature verifies.
LEMMA SignedByKnown ==
  ASSUME LaneInv, NEW r \in issued, NEW n \in Networks, cache[n] # None
  PROVE  LET kid == Kid(KeyNetwork, r.rotation + 1)
             keys == KeysForKid(cache[n], kid)
         IN  /\ keys # {} => SignatureVerifies(cache[n], ArtifactOf(r), SignatureOf(r))
             /\ keys = {} => rotated[KeyNetwork] > 0 \/ n # KeyNetwork
<1> DEFINE kid == Kid(KeyNetwork, r.rotation + 1)
           keys == KeysForKid(cache[n], kid)
<1>1. PICK k \in 0..rotated[n] : cache[n].doc = Doc(n, k)
  BY DEF LaneInv, CacheSound
<1>2. rotated[n] \in Nat /\ rotated[KeyNetwork] \in Nat /\ r.rotation \in 0..rotated[KeyNetwork]
  <2>1. r \in Records /\ r.rotation <= rotated[KeyNetwork]
    BY DEF LaneInv, RecordSound
  <2>2. r.rotation \in Nat
    BY <2>1, LaneAssumption DEF Records
  <2>3. \A m \in Networks : rotated[m] \in Nat
    BY LaneAssumption DEF LaneInv
  <2> QED  BY <2>1, <2>2, <2>3, LaneAssumption
<1>3. \A key \in keys : key.publicKey = kid
  BY <1>1, <1>2, DocKeys
<1>4. ASSUME keys # {} PROVE SignatureVerifies(cache[n], ArtifactOf(r), SignatureOf(r))
  <2>1. ArtifactOf(r).fields.issuerKid = kid
    BY DEF ArtifactOf
  <2>2. SignatureOf(r) = [by |-> kid, over |-> ArtifactOf(r)]
    BY DEF SignatureOf
  <2> QED
    BY <1>3, <1>4, <2>1, <2>2 DEF SignatureVerifies
<1>5. ASSUME n = KeyNetwork, rotated[KeyNetwork] = 0 PROVE keys # {}
  BY <1>1, <1>2, <1>5, DocKeys
<1> QED
  BY <1>2, <1>4, <1>5

LEMMA ReceiveStep ==
  ASSUME LaneInv, NEW c \in Calls, Receive(c)
  PROVE  LaneInv'
<1> DEFINE a == calls[c]
           n == OptionsOf[a.option].network
           set == cache[n]
<1>1. /\ CallSound(c) /\ a.phase = "answered" /\ a \in AnswerState
      /\ UNCHANGED <<now, rotated, cache, load, issued>>
  BY DEF LaneInv, CallSound, Receive
<1>2. n \in Networks /\ a.record \in issued
  BY <1>1, LaneAssumption DEF AnswerState, Accepted
<1>3. CASE set = None
  <2>1. calls' = [calls EXCEPT ![c] = [a EXCEPT !.phase = "fetching"]]
    BY <1>3 DEF Receive
  <2>2. ASSUME calls'[c] = [a EXCEPT !.phase = "fetching"] PROVE CallSound(c)'
    <3>1. calls'[c] \in AnswerState'
      BY <1>1, <2>2 DEF AnswerState
    <3>2. /\ calls'[c].phase = "fetching" /\ calls'[c].option = a.option
          /\ calls'[c].fresh = a.fresh /\ calls'[c].record = a.record
          /\ calls'[c].session = a.session
      BY <1>1, <2>2 DEF AnswerState
    <3> QED
      BY <1>1, <3>1, <3>2 DEF CallSound, Phases
  <2> QED
    BY <1>1, <2>1, <2>2, OneCall
<1>4. CASE set # None /\ KeysForKid(set, ArtifactOf(a.record).fields.issuerKid) = {}
  <2>1. ArtifactOf(a.record).fields.issuerKid = Kid(KeyNetwork, a.record.rotation + 1)
    BY DEF ArtifactOf
  <2>2. rotated[KeyNetwork] > 0 \/ n # KeyNetwork
    BY <1>2, <1>4, <2>1, SignedByKnown
  <2>3. calls' = [calls EXCEPT ![c] = Failed(c, "ISSUER_UNKNOWN", a.fresh)]
    BY <1>4 DEF Receive
  <2>4. ASSUME calls'[c] = Failed(c, "ISSUER_UNKNOWN", a.fresh) PROVE CallSound(c)'
    BY <1>1, <2>2, <2>4 DEF CallSound, Failed, Phases
  <2> QED
    BY <1>1, <2>3, <2>4, OneCall
<1>5. CASE set # None /\ KeysForKid(set, ArtifactOf(a.record).fields.issuerKid) # {}
  <2>1. ArtifactOf(a.record).fields.issuerKid = Kid(KeyNetwork, a.record.rotation + 1)
    BY DEF ArtifactOf
  <2>2. SignatureVerifies(set, ArtifactOf(a.record), SignatureOf(a.record))
    BY <1>2, <1>5, <2>1, SignedByKnown
  <2>3. calls' = [calls EXCEPT ![c] = Ended(c)]
    BY <1>5, <2>2 DEF Receive
  <2> QED
    BY <1>1, <2>3, OneCall, EndedSound
<1> QED
  BY <1>3, <1>4, <1>5

\* What a load of a published document leaves in the cache is that document,
\* and a pinned set the pinned document.
LEMMA CacheWithSound ==
  ASSUME LaneInv, NEW n \in Networks, NEW doc, NEW pin,
         doc \in {Garbage(n)} \cup {Doc(n, r) : r \in 0..rotated[n]},
         pin \in {None, Pin[n]}, cache' = CacheWith(n, doc, pin), UNCHANGED rotated
  PROVE  DOMAIN cache' = Networks /\ \A m \in Networks : CacheSound(m)'
<1> DEFINE set == Loaded(doc, n, pin)
<1>1. CASE set = Refused
  BY <1>1 DEF CacheWith, LaneInv, CacheSound
<1>2. CASE set # Refused
  <2>1. /\ pin \in {None, doc} /\ DocParses(doc, n)
        /\ set = [doc |-> doc, pinned |-> pin # None]
    BY <1>2 DEF Loaded
  <2>2. Garbage(n).wellFormed = FALSE
    BY DEF Garbage, Doc
  <2>3. \E r \in 0..rotated[n] : doc = Doc(n, r)
    BY <2>1, <2>2 DEF DocParses
  <2>4. cache' = [cache EXCEPT ![n] = set]
    BY <1>2 DEF CacheWith
  <2>5. set.doc = doc /\ set.pinned = (pin # None)
    BY <2>1
  <2> HIDE DEF set
  <2>6. DOMAIN cache' = Networks /\ cache'[n] = set
    BY <2>4 DEF LaneInv
  <2>7. \A m \in Networks \ {n} : cache'[m] = cache[m]
    BY <2>4 DEF LaneInv
  <2>8. CacheSound(n)'
    BY <2>1, <2>3, <2>5, <2>6 DEF CacheSound
  <2>9. \A m \in Networks \ {n} : CacheSound(m)'
    BY <2>7 DEF LaneInv, CacheSound
  <2> QED
    BY <2>6, <2>8, <2>9
<1> QED
  BY <1>1, <1>2

LEMMA FetchStep ==
  ASSUME LaneInv, NEW c \in Calls, FetchInCall(c)
  PROVE  LaneInv'
<1> DEFINE n == OptionsOf[calls[c].option].network
<1>1. /\ calls[c].phase = "fetching" /\ calls' = [calls EXCEPT ![c] = Ended(c)]
      /\ cache' \in {cache, CacheWith(n, Doc(n, rotated[n]), None)}
      /\ UNCHANGED <<now, rotated, load, issued>>
  BY DEF FetchInCall
<1>2. n \in Networks
  BY <1>1, LaneAssumption DEF LaneInv, CallSound, AnswerState, Accepted
<1>3. rotated[n] \in Nat /\ rotated[KeyNetwork] \in Nat
  BY <1>2, LaneAssumption DEF LaneInv
<1>4. DOMAIN cache' = Networks /\ \A m \in Networks : CacheSound(m)'
  <2>1. CASE cache' = cache
    BY <1>1, <2>1 DEF LaneInv, CacheSound
  <2>2. CASE cache' = CacheWith(n, Doc(n, rotated[n]), None)
    <3>1. Doc(n, rotated[n]) \in {Garbage(n)} \cup {Doc(n, r) : r \in 0..rotated[n]}
      BY <1>3
    <3>2. rotated' = rotated /\ None \in {None, Pin[n]}
      BY <1>1
    <3> QED
      BY <1>2, <2>2, <3>1, <3>2, CacheWithSound
  <2> QED
    BY <1>1, <2>1, <2>2
<1>5. calls'[c] = Ended(c) /\ DOMAIN calls' = Calls
  BY <1>1 DEF LaneInv
<1>6. CallSound(c)'
  BY <1>1, <1>5, EndedSound
<1>7. ASSUME NEW d \in Calls \ {c} PROVE CallSound(d)'
  <2>1. calls'[d] = calls[d] /\ CallSound(d)
    BY <1>1 DEF LaneInv
  <2> QED
    BY <1>1, <1>3, <2>1, CallKept
<1>8. LoadSound' /\ \A r \in issued' : RecordSound(r)'
  BY <1>1 DEF LaneInv, LoadSound, RecordSound
<1> QED
  BY <1>1, <1>4, <1>5, <1>6, <1>7, <1>8 DEF LaneInv

\* Calls, records and the cache do not depend on a load.
LEMMA LoadOnly ==
  ASSUME LaneInv, UNCHANGED <<now, rotated, calls, issued>>, LoadSound',
         DOMAIN cache' = Networks /\ \A n \in Networks : CacheSound(n)'
  PROVE  LaneInv'
<1>1. \A c \in Calls : CallSound(c)'
  BY LaneAssumption, CallKept DEF LaneInv
<1>2. \A r \in issued' : RecordSound(r)'
  BY DEF LaneInv, RecordSound
<1> QED
  BY <1>1, <1>2 DEF LaneInv

LEMMA LoadSteps ==
  ASSUME LaneInv, (\E n \in Networks : BeginLoad(n)) \/ ServeLoad \/ FinishLoad
  PROVE  LaneInv'
<1>1. CASE \E n \in Networks : BeginLoad(n)
  <2> PICK n \in Networks : BeginLoad(n)
    BY <1>1
  <2>1. PICK pin \in {None, Pin[n]} : load' = [network |-> n, pin |-> pin, answer |-> None]
    BY DEF BeginLoad
  <2>2. LoadSound'
    BY <2>1 DEF LoadSound
  <2>3. DOMAIN cache' = Networks /\ \A m \in Networks : CacheSound(m)'
    BY DEF BeginLoad, LaneInv, CacheSound
  <2> QED
    BY <2>2, <2>3, LoadOnly DEF BeginLoad
<1>2. CASE ServeLoad
  <2>1. PICK doc \in {Doc(load.network, rotated[load.network]), Garbage(load.network)} :
          load' = [load EXCEPT !.answer = doc]
    BY <1>2 DEF ServeLoad
  <2>2. rotated' = rotated /\ rotated[load.network] \in Nat
    BY <1>2 DEF ServeLoad, LaneInv, LoadSound
  <2>3. /\ load \in [network : Networks, pin : {None} \cup {Pin[n] : n \in Networks},
                     answer : {load.answer}]
        /\ load.pin \in {None, Pin[load.network]}
    BY <1>2 DEF ServeLoad, LaneInv, LoadSound
  <2>4. /\ load'.network = load.network /\ load'.pin = load.pin /\ load'.answer = doc
        /\ load' \in [network : Networks, pin : {None} \cup {Pin[n] : n \in Networks},
                      answer : {doc}]
    BY <2>1, <2>3
  <2>5. LoadSound'
    BY <2>2, <2>3, <2>4 DEF LoadSound
  <2>6. DOMAIN cache' = Networks /\ \A m \in Networks : CacheSound(m)'
    BY <1>2 DEF ServeLoad, LaneInv, CacheSound
  <2> QED
    BY <1>2, <2>5, <2>6, LoadOnly DEF ServeLoad
<1>3. CASE FinishLoad
  <2>1. /\ load # None /\ load.answer # None /\ load' = None
        /\ cache' = CacheWith(load.network, load.answer, load.pin)
        /\ UNCHANGED <<now, rotated, calls, issued>>
    BY <1>3 DEF FinishLoad
  <2>2. /\ load.network \in Networks /\ load.pin \in {None, Pin[load.network]}
        /\ load.answer \in {Garbage(load.network)}
                             \cup {Doc(load.network, r) : r \in 0..rotated[load.network]}
    BY <2>1 DEF LaneInv, LoadSound
  <2>3. DOMAIN cache' = Networks /\ \A m \in Networks : CacheSound(m)'
    BY <2>1, <2>2, CacheWithSound
  <2>4. LoadSound'
    BY <2>1 DEF LoadSound
  <2> QED
    BY <2>1, <2>3, <2>4, LoadOnly
<1> QED
  BY <1>1, <1>2, <1>3

\* Documents stay published when the server rotates.
LEMMA RotateStep ==
  ASSUME LaneInv, Rotate
  PROVE  LaneInv'
<1>1. /\ rotated[KeyNetwork] < MaxRotations
      /\ rotated' = [rotated EXCEPT ![KeyNetwork] = @ + 1]
      /\ UNCHANGED <<now, cache, load, calls, issued>>
  BY DEF Rotate
<1>2. rotated' \in [Networks -> 0..MaxRotations]
  BY <1>1, LaneAssumption DEF LaneInv
<1>3. \A n \in Networks : rotated[n] \in Nat /\ rotated'[n] \in Nat /\ rotated[n] <= rotated'[n]
  BY <1>1, LaneAssumption DEF LaneInv
<1>4. \A n \in Networks : 0..rotated[n] \subseteq 0..rotated'[n]
  BY <1>3
<1>5. \A n \in Networks : CacheSound(n)'
  BY <1>1, <1>4 DEF LaneInv, CacheSound
<1>6. LoadSound'
  BY <1>1, <1>4 DEF LaneInv, LoadSound
<1>7. \A c \in Calls : CallSound(c)'
  BY <1>1, <1>3, LaneAssumption, CallKept DEF LaneInv
<1>8. \A r \in issued' : RecordSound(r)'
  <2> SUFFICES ASSUME NEW r \in issued'  PROVE RecordSound(r)'
    OBVIOUS
  <2>1. r \in Records /\ r.rotation <= rotated[KeyNetwork]
    BY <1>1 DEF LaneInv, RecordSound
  <2>2. r.rotation \in Nat
    BY <2>1, LaneAssumption DEF Records
  <2> QED  BY <1>3, <2>1, <2>2, LaneAssumption DEF RecordSound
<1> QED
  BY <1>1, <1>2, <1>5, <1>6, <1>7, <1>8 DEF LaneInv

LEMMA LaneStep == LaneInv /\ [Next]_vars => LaneInv'
<1> SUFFICES ASSUME LaneInv, [Next]_vars PROVE LaneInv'
  OBVIOUS
<1>1. ASSUME UNCHANGED <<rotated, cache, load, calls, issued>>, now' \in 0..MaxTime
      PROVE  LaneInv'
  <2>1. LoadSound' /\ DOMAIN cache' = Networks /\ \A n \in Networks : CacheSound(n)'
    BY <1>1 DEF LaneInv, LoadSound, CacheSound
  <2>2. \A c \in Calls : CallSound(c)'
    BY <1>1, LaneAssumption, CallKept DEF LaneInv
  <2>3. \A r \in issued' : RecordSound(r)'
    BY <1>1 DEF LaneInv, RecordSound
  <2> QED
    BY <1>1, <2>1, <2>2, <2>3 DEF LaneInv
<1>2. CASE UNCHANGED vars
  BY <1>1, <1>2 DEF vars, LaneInv
<1>3. CASE Tick
  BY <1>1, <1>3, LaneAssumption DEF Tick, LaneInv
<1>4. CASE \E c \in Calls :
        Begin(c) \/ Preflight(c) \/ Prove(c) \/ Issue(c) \/ Replay(c) \/ Consumed(c)
          \/ LoseAnswer(c) \/ Receive(c) \/ FetchInCall(c)
  BY <1>4, OneCallActions, IssueStep, ReceiveStep, FetchStep
<1>5. CASE (\E n \in Networks : BeginLoad(n)) \/ ServeLoad \/ FinishLoad
  BY <1>5, LoadSteps
<1>6. CASE Rotate
  BY <1>6, RotateStep
<1> QED
  BY <1>2, <1>3, <1>4, <1>5, <1>6 DEF Next

LEMMA LaneInvariant == Spec => []LaneInv
  BY LaneInit, LaneStep, PTL DEF Spec

-----------------------------------------------------------------------------
(* The theorems.                                                           *)

\* The state has its type, no call with an unaccepted lifetime gets past the
\* client (SigbashClient.ts:2378), and one record is all an allowance yields.
THEOREM TypeCorrect == Spec => []TypeOK
<1>1. LaneInv => TypeOK
  <2> SUFFICES ASSUME LaneInv PROVE TypeOK
    OBVIOUS
  <2>1. \A c \in Calls :
          calls[c].phase \in {"preflight", "prove", "issue", "answered", "fetching", "done"}
            => OptionsOf[calls[c].option].lifetime \in 1..MaxLifetime
    BY DEF LaneInv, CallSound, AnswerState, Accepted
  <2>2. \A n \in Networks : cache[n] = None \/ cache[n].pinned \in BOOLEAN
    BY DEF LaneInv, CacheSound
  <2>3. load = None \/ load.network \in Networks
    BY DEF LaneInv, LoadSound
  <2> QED
    BY <2>1, <2>2, <2>3 DEF LaneInv, TypeOK
<1> QED
  BY <1>1, LaneInvariant, PTL

\* Whatever loads race with each other and with rotations, a cached key set is
\* a document its network published and a pinned set the pinned document
\* (issuerKeySet.ts:145-164).
THEOREM CachePublished == Spec => []CacheHolds
<1>1. LaneInv => CacheHolds
  BY DEF LaneInv, CacheSound, CacheHolds
<1> QED
  BY <1>1, LaneInvariant, PTL

\* The action key a call returns, the server's or the one the client derived
\* from the echoed burn pair, is that of a record the server keeps
\* (SigbashClient.ts:2609).
THEOREM ActionKeyFound == Spec => []ActionKeyFinds
<1>1. LaneInv => ActionKeyFinds
  BY DEF LaneInv, CallSound, ActionKeyFinds
<1> QED
  BY <1>1, LaneInvariant, PTL

\* No cross-check of the client refuses an authorization that was just issued
\* for its own export; only an unknown issuer key does, and only after a
\* rotation or for another network (SigbashClient.ts:2571-2607).
THEOREM BurnKept == Spec => []BurnLostOnlyToRotation
<1>1. LaneInv => BurnLostOnlyToRotation
  BY DEF LaneInv, CallSound, BurnLostOnlyToRotation
<1> QED
  BY <1>1, LaneInvariant, PTL

-----------------------------------------------------------------------------
(* What a result verifies as.                                              *)

\* Of the keys of a document only its last one is found.
LEMMA OnlyActiveKey ==
  ASSUME NEW n, NEW k \in Nat, NEW j \in Nat, NEW set, set.doc = Doc(n, k), j # k
  PROVE  KeysForKid(set, Kid(n, j + 1)) = {}
<1> DEFINE kid == Kid(n, j + 1)
<1>1. /\ DOMAIN set.doc.keys = 1..(k + 1)
      /\ \A i \in 1..(k + 1) :
           set.doc.keys[i] = [kid |-> Kid(n, i), publicKey |-> Kid(n, i),
                              status |-> IF i = k + 1 THEN "active" ELSE "retired"]
  BY DEF Doc
<1>2. ASSUME NEW i \in 1..(k + 1), set.doc.keys[i].status = "active", set.doc.keys[i].kid = kid
      PROVE  FALSE
  <2>1. set.doc.keys[i] = [kid |-> Kid(n, i), publicKey |-> Kid(n, i),
                           status |-> IF i = k + 1 THEN "active" ELSE "retired"]
    BY <1>1
  <2>2. i = k + 1
    BY <1>2, <2>1
  <2>3. Kid(n, k + 1) = Kid(n, j + 1)
    BY <1>2, <2>1, <2>2
  <2> QED
    BY <2>3 DEF Kid
<1> QED
  BY <1>1, <1>2 DEF KeysForKid

\* The challenge of an accepted subject is derived again from its own
\* envelope.
LEMMA OwnChallenge ==
  ASSUME NEW o \in Options, NEW session, CheckVerifiable(OptionsOf[o].subject)
  PROVE  LET s == OptionsOf[o].subject
             e == EnvelopeOf(s, session)
         IN  RederiveEHat(s, e, Salt) = CompletingBundle(e).challengeE
<1> DEFINE s == OptionsOf[o].subject
           k == Len(s.inputs)
           txin == s.inputs[k]
           e == EnvelopeOf(s, session)
           acp == txin.posture = "acp"
           posture == CompletingBundle(e).posture
<1>1. k \in DOMAIN s.inputs
  BY LastInput
<1>2. CompletingBundle(e) = Position(s, k, session) /\ e.completing = k /\ e.session = session
  <2> HIDE DEF s
  <2> QED
    BY <1>1 DEF CompletingBundle, EnvelopeOf
<1>3. /\ posture.hashType = txin.posture /\ posture.isAcp = acp
      /\ posture.leaf = txin.leaf
      /\ posture.branch = IF txin.leaf = NoLeaf THEN "keypath" ELSE "tapscript"
  <2>1. Position(s, k, session).posture
          = [hashType |-> txin.posture, isAcp |-> acp, leaf |-> txin.leaf,
             branch |-> IF txin.leaf = NoLeaf THEN "keypath" ELSE "tapscript"]
    BY DEF Position
  <2>2. posture = Position(s, k, session).posture
    BY <1>2
  <2> HIDE DEF posture, txin, acp
  <2> QED
    BY <2>1, <2>2
<1>4. /\ \A i \in DOMAIN s.inputs : Resolvable(s.inputs[i])
      /\ acp => Is34Bytes(txin.prevout)
  BY <1>1 DEF CheckVerifiable, IsP2TR, Is34Bytes
<1>5. LeafAgrees(txin, posture) /\ LeafOf(txin, posture) = txin.leaf
  BY <1>3 DEF LeafAgrees, LeafOf
<1>6. RederiveEHat(s, e, Salt)
        = EHat(Salt, session, txin.prevout, Preimage(s, k, acp, txin.leaf))
  BY <1>1, <1>2, <1>3, <1>4, <1>5 DEF RederiveEHat
<1>7. CompletingBundle(e).challengeE
        = EHat(Salt, session, txin.prevout, Preimage(s, k, acp, txin.leaf))
  BY <1>2 DEF Position
<1> QED
  BY <1>6, <1>7

\* The verdict on an artifact that commits to what its envelope and subject
\* say: the first of the remaining checks that fails.
Expected(r, k, o, time) ==
  LET fields == ArtifactOf(r).fields
  IN  IF r.rotation # k THEN "ISSUER_UNKNOWN"
      ELSE IF time < r.at THEN "AUTHORIZATION_NOT_YET_VALID"
      ELSE IF time > r.at + OptionsOf[r.option].lifetime THEN "AUTHORIZATION_EXPIRED"
      ELSE IF o.network # KeyNetwork THEN "NETWORK_MISMATCH"
      ELSE IF ~ScopeAccepted(o, fields) THEN "SCOPE_MISMATCH"
      ELSE IF o.expectedPolicyRoot \notin {AnyRoot, "root"} THEN "POLICY_ROOT_MISMATCH"
      ELSE IF SoftwareEnforced \notin o.acceptedStrengths THEN "STRENGTH_REJECTED"
      ELSE "VALID"

LEMMA RecordVerdict ==
  ASSUME NEW r, r.rotation \in Nat, r.at \in Nat, r.option \in Options,
         NEW option \in Options, NEW session,
         CheckVerifiable(OptionsOf[option].subject),
         ArtifactOf(r).fields.subjectCommitment
           = Commitment(OptionsOf[option].subject, session),
         NEW k \in Nat, NEW time \in Int, NEW o
  PROVE  VerdictOf(r, option, session, k, o, time) = Expected(r, k, o, time)
<1> DEFINE s == OptionsOf[option].subject
           e == EnvelopeOf(s, session)
           last == r.at + OptionsOf[r.option].lifetime
           set == [doc |-> Doc(KeyNetwork, k), pinned |-> FALSE]
           artifact == ArtifactOf(r)
           fields == artifact.fields
           v == [keySet |-> set, artifact |-> artifact, signature |-> SignatureOf(r),
                 envelope |-> e, subject |-> s, salt |-> Salt, now |-> time,
                 network |-> o.network, expectedScope |-> o.expectedScope,
                 credential |-> o.credential, expectedPolicyRoot |-> o.expectedPolicyRoot,
                 acceptedStrengths |-> o.acceptedStrengths]
<1>1. VerdictOf(r, option, session, k, o, time) = Verdict(v)
  BY DEF VerdictOf
<1>2. /\ artifact.canonical = TRUE /\ fields.version = 1 /\ fields.protocol = Bitcoin
      /\ fields.issuerKid = Kid(KeyNetwork, r.rotation + 1)
      /\ fields.issuedAt = r.at /\ fields.expiresAt = last
      /\ fields.network = KeyNetwork /\ fields.subjectKind = BitcoinPsbt
      /\ fields.policyRoot = "root" /\ fields.strength = SoftwareEnforced
  BY DEF ArtifactOf
<1>3. set # None /\ e # None
  <2>1. DOMAIN set = {"doc", "pinned"} /\ DOMAIN None = {"none"}
    BY DEF None
  <2>2. DOMAIN e = {"version", "session", "completing", "positions"}
    BY DEF EnvelopeOf
  <2> QED
    BY <2>1, <2>2
<1>4. last \in Nat /\ r.at <= last
  <2>1. OptionsOf[r.option].lifetime \in Nat
    BY LaneAssumption
  <2> QED
    BY <2>1
<1>5. Decoding(artifact) = "OK"
  BY <1>2 DEF Decoding
<1>6. /\ r.rotation # k => KeysForKid(set, fields.issuerKid) = {}
      /\ r.rotation = k => KeysForKid(set, fields.issuerKid) # {}
  BY <1>2, OnlyActiveKey, DocKeys
<1>7. r.rotation = k => SignatureVerifies(set, artifact, SignatureOf(r))
  <2>1. \A key \in KeysForKid(set, fields.issuerKid) : key.publicKey = fields.issuerKid
    BY DocKeys
  <2>2. SignatureOf(r) = [by |-> fields.issuerKid, over |-> artifact]
    BY <1>2 DEF SignatureOf
  <2> QED
    BY <1>6, <2>1, <2>2 DEF SignatureVerifies
<1>8. SubjectVerdict(v, fields) = "VALID"
  <2>1. PinAggregate(e) = fields.subjectCommitment
    BY OwnAggregate
  <2>2. RederiveEHat(s, e, Salt) = CompletingBundle(e).challengeE
    BY OwnChallenge
  <2>3. s # None /\ Salt # NoSalt
    BY LaneAssumption
  <2>4. v.envelope = e /\ v.subject = s /\ v.salt = Salt
    OBVIOUS
  <2> HIDE DEF v, e, s
  <2> QED
    BY <1>2, <1>3, <2>1, <2>2, <2>3, <2>4 DEF SubjectVerdict, s
<1>9. /\ v.expectedScope = o.expectedScope /\ v.credential = o.credential
      /\ v.keySet = set /\ v.artifact = artifact /\ v.signature = SignatureOf(r)
      /\ v.now = time /\ v.network = o.network
      /\ v.expectedPolicyRoot = o.expectedPolicyRoot
      /\ v.acceptedStrengths = o.acceptedStrengths
  OBVIOUS
<1> HIDE DEF v, set, e, s, last
<1>10. ScopeAccepted(v, fields) <=> ScopeAccepted(o, fields)
  BY <1>9 DEF ScopeAccepted
<1>11. /\ time < fields.issuedAt <=> time < r.at
       /\ ~(time < r.at) => (InWindow(fields, time) <=> ~(time > last))
  BY <1>2, <1>4 DEF InWindow
<1>12. Expected(r, k, o, time)
         = IF r.rotation # k THEN "ISSUER_UNKNOWN"
           ELSE IF time < r.at THEN "AUTHORIZATION_NOT_YET_VALID"
           ELSE IF time > last THEN "AUTHORIZATION_EXPIRED"
           ELSE IF o.network # KeyNetwork THEN "NETWORK_MISMATCH"
           ELSE IF ~ScopeAccepted(o, fields) THEN "SCOPE_MISMATCH"
           ELSE IF o.expectedPolicyRoot \notin {AnyRoot, "root"} THEN "POLICY_ROOT_MISMATCH"
           ELSE IF SoftwareEnforced \notin o.acceptedStrengths THEN "STRENGTH_REJECTED"
           ELSE "VALID"
  BY DEF Expected, last
<1> HIDE DEF artifact
<1>13. Verdict(v) = Expected(r, k, o, time)
  BY <1>2, <1>3, <1>5, <1>6, <1>7, <1>8, <1>9, <1>10, <1>11, <1>12 DEF Verdict
<1> QED
  BY <1>1, <1>13

\* What a credential of this key makes of an artifact's scope.
KeyScope == Scope(Credential.identifier, Credential.kmcIndex)

\* The options that fit pass the checks on scope, root and strength, and the
\* others fail one of them, or the network's.
LEMMA FittingPasses ==
  ASSUME NEW r, NEW o \in Fitting
  PROVE  /\ o.network = KeyNetwork /\ ScopeAccepted(o, ArtifactOf(r).fields)
         /\ o.expectedPolicyRoot \in {AnyRoot, "root"}
         /\ SoftwareEnforced \in o.acceptedStrengths
<1> DEFINE fields == ArtifactOf(r).fields
<1>1. fields.scope = KeyScope
  BY DEF ArtifactOf, KeyScope
<1>2. KeyScope # None /\ Credential # None
  <2>1. /\ DOMAIN KeyScope = {"credential", "index"} /\ DOMAIN None = {"none"}
        /\ DOMAIN Credential = {"identifier", "keyIndex", "kmcIndex"}
    BY LaneAssumption DEF KeyScope, Scope, None
  <2> QED  BY <2>1
<1>3. /\ Credential.keyIndex = NoIndex /\ Credential.kmcIndex \in Nat
      /\ Credential.kmcIndex # NoIndex
  BY LaneAssumption DEF NoIndex
<1>4. ScopeIndex(Credential) = Credential.kmcIndex
  BY <1>3 DEF ScopeIndex
<1> HIDE DEF fields
<1>5. CASE o = Right
  <2>1. /\ o.expectedScope = None /\ o.credential = Credential /\ o.network = KeyNetwork
        /\ o.expectedPolicyRoot = "root" /\ o.acceptedStrengths = {SoftwareEnforced}
    BY <1>5 DEF Right
  <2>2. ScopeAccepted(o, fields)
    BY <1>1, <1>2, <1>3, <1>4, <2>1 DEF ScopeAccepted, KeyScope
  <2> QED  BY <2>1, <2>2 DEF fields
<1>6. CASE o = [Right EXCEPT !.credential = None]
  <2>1. /\ o.expectedScope = None /\ o.credential = None /\ o.network = KeyNetwork
        /\ o.expectedPolicyRoot = "root" /\ o.acceptedStrengths = {SoftwareEnforced}
    BY <1>6 DEF Right
  <2>2. ScopeAccepted(o, fields)
    BY <2>1 DEF ScopeAccepted
  <2> QED  BY <2>1, <2>2 DEF fields
<1>7. CASE o = [Right EXCEPT !.expectedPolicyRoot = AnyRoot]
  <2>1. /\ o.expectedScope = None /\ o.credential = Credential /\ o.network = KeyNetwork
        /\ o.expectedPolicyRoot = AnyRoot /\ o.acceptedStrengths = {SoftwareEnforced}
    BY <1>7 DEF Right
  <2>2. ScopeAccepted(o, fields)
    BY <1>1, <1>2, <1>3, <1>4, <2>1 DEF ScopeAccepted, KeyScope
  <2> QED  BY <2>1, <2>2 DEF fields
<1>8. CASE o = [Right EXCEPT !.expectedScope = KeyScope, !.credential.identifier = "other"]
  <2>1. PICK x : x = [Right EXCEPT !.expectedScope = KeyScope]
    OBVIOUS
  <2>2. o = [x EXCEPT !.credential.identifier = "other"]
    BY <1>8, <2>1
  <2>3. /\ x.expectedScope = KeyScope /\ x.network = KeyNetwork
        /\ x.expectedPolicyRoot = "root" /\ x.acceptedStrengths = {SoftwareEnforced}
        /\ DOMAIN x = DOMAIN Right
    BY <2>1 DEF Right
  <2>4. /\ o.expectedScope = KeyScope /\ o.network = KeyNetwork
        /\ o.expectedPolicyRoot = "root" /\ o.acceptedStrengths = {SoftwareEnforced}
    BY <2>2, <2>3 DEF Right
  <2>5. ScopeAccepted(o, fields)
    BY <1>1, <1>2, <2>4 DEF ScopeAccepted
  <2> QED  BY <2>4, <2>5 DEF fields
<1> QED
  BY <1>5, <1>6, <1>7, <1>8 DEF Fitting, KeyScope

\* Options are a record of these fields.
Fields == {"expectedScope", "credential", "expectedPolicyRoot", "acceptedStrengths", "network"}

LEMMA FittingFields ==
  ASSUME NEW o \in Fitting
  PROVE  DOMAIN o = Fields
  BY DEF Fitting, Right, Fields

LEMMA UnfittingFails ==
  ASSUME NEW r, NEW o \in Unfitting
  PROVE  \/ o.network # KeyNetwork
         \/ ~ScopeAccepted(o, ArtifactOf(r).fields)
         \/ o.expectedPolicyRoot \notin {AnyRoot, "root"}
         \/ SoftwareEnforced \notin o.acceptedStrengths
<1> DEFINE fields == ArtifactOf(r).fields
<1>1. fields.scope = KeyScope
  BY DEF ArtifactOf, KeyScope
<1>2. /\ Credential.identifier # "other" /\ Credential.keyIndex = NoIndex
      /\ Credential.kmcIndex \in Nat /\ NoIndex \notin Nat
      /\ DOMAIN Credential = {"identifier", "keyIndex", "kmcIndex"}
  BY LaneAssumption DEF NoIndex
<1> HIDE DEF fields
<1>3. ASSUME NEW p \in Fitting, o = [p EXCEPT !.expectedScope = Scope("other", 1)]
      PROVE  ~ScopeAccepted(o, fields)
  <2>1. o.expectedScope = Scope("other", 1)
    BY <1>3, FittingFields DEF Fields
  <2>2. /\ Scope("other", 1).credential = "other"
        /\ KeyScope.credential = Credential.identifier
        /\ DOMAIN Scope("other", 1) = {"credential", "index"} /\ DOMAIN None = {"none"}
    BY DEF Scope, KeyScope, None
  <2>3. Scope("other", 1) # KeyScope /\ Scope("other", 1) # None
    BY <1>2, <2>2
  <2> QED  BY <1>1, <2>1, <2>3 DEF ScopeAccepted
<1>4. ASSUME NEW p \in Fitting, o = [p EXCEPT !.expectedPolicyRoot = "other"]
      PROVE  o.expectedPolicyRoot \notin {AnyRoot, "root"}
  BY <1>4, FittingFields DEF Fields, AnyRoot
<1>5. ASSUME NEW p \in Fitting, o = [p EXCEPT !.acceptedStrengths = {}]
      PROVE  SoftwareEnforced \notin o.acceptedStrengths
  BY <1>5, FittingFields DEF Fields
<1>6. ASSUME NEW p \in Fitting, NEW n \in Networks \ {KeyNetwork},
             o = [p EXCEPT !.network = n]
      PROVE  o.network # KeyNetwork
  BY <1>6, FittingFields DEF Fields
<1>7. ASSUME NEW p \in Fitting,
             NEW x \in OtherCredentials,
             o = [p EXCEPT !.expectedScope = None, !.credential = x]
      PROVE  ~ScopeAccepted(o, fields)
  <2>1. PICK q : q = [p EXCEPT !.expectedScope = None]
    OBVIOUS
  <2>2. o = [q EXCEPT !.credential = x]
    BY <1>7, <2>1
  <2>3. o.expectedScope = None /\ o.credential = x
    BY <2>1, <2>2, FittingFields DEF Fields
  <2>4. DOMAIN x = {"identifier", "keyIndex", "kmcIndex"} /\ DOMAIN None = {"none"}
    BY <1>2 DEF None, OtherCredentials
  <2>5. x # None
    BY <2>4
  <2>6. \/ ScopeIndex(x) = NoIndex
        \/ x.identifier # Credential.identifier
        \/ ScopeIndex(x) # Credential.kmcIndex
    <3>1. CASE x = [Credential EXCEPT !.kmcIndex = NoIndex]
      <4>1. x.keyIndex = NoIndex /\ x.kmcIndex = NoIndex
        BY <1>2, <3>1
      <4> QED  BY <4>1 DEF ScopeIndex
    <3>2. CASE x = [Credential EXCEPT !.identifier = "other"]
      BY <1>2, <3>2
    <3>3. CASE x = [Credential EXCEPT !.keyIndex = Credential.kmcIndex + 1]
      <4>1. x.keyIndex = Credential.kmcIndex + 1
        BY <1>2, <3>3
      <4>2. x.keyIndex # NoIndex /\ x.keyIndex # Credential.kmcIndex
        BY <1>2, <4>1
      <4> QED  BY <4>2 DEF ScopeIndex
    <3> QED  BY <1>7, <3>1, <3>2, <3>3 DEF OtherCredentials
  <2>7. Scope(x.identifier, ScopeIndex(x)) = KeyScope =>
          x.identifier = Credential.identifier /\ ScopeIndex(x) = Credential.kmcIndex
    <3>1. \A a, i : Scope(a, i).credential = a /\ Scope(a, i).index = i
      BY DEF Scope
    <3> QED  BY <3>1 DEF KeyScope
  <2> QED  BY <1>1, <2>3, <2>5, <2>6, <2>7 DEF ScopeAccepted
<1>8. PICK p \in Fitting : o \in Spoiled(p)
  BY DEF Unfitting
<1>9. \/ o = [p EXCEPT !.expectedScope = Scope("other", 1)]
      \/ o = [p EXCEPT !.expectedPolicyRoot = "other"]
      \/ o = [p EXCEPT !.acceptedStrengths = {}]
      \/ \E n \in Networks \ {KeyNetwork} : o = [p EXCEPT !.network = n]
      \/ \E x \in OtherCredentials : o = [p EXCEPT !.expectedScope = None, !.credential = x]
  BY <1>8, Zenon DEF Spoiled
<1> QED
  BY <1>3, <1>4, <1>5, <1>6, <1>7, <1>9 DEF fields

\* A call ends in Ended alone, of an answer that passed the cross-checks.
LEMMA DoneByEnded ==
  ASSUME LaneInv, [Next]_vars, NEW c \in Calls,
         calls'[c].phase = "done", calls[c].phase # "done"
  PROVE  /\ calls[c].phase \in {"answered", "fetching"}
         /\ calls'[c] = Ended(c) /\ CrossChecks(calls[c]) = "OK"
<1>1. DOMAIN calls = Calls
  BY DEF LaneInv
<1>2. calls'[c] # calls[c]
  OBVIOUS
<1>3. PICK d \in Calls :
        Begin(d) \/ Preflight(d) \/ Prove(d) \/ Issue(d) \/ Replay(d) \/ Consumed(d)
          \/ LoseAnswer(d) \/ Receive(d) \/ FetchInCall(d)
  BY <1>2 DEF Next, vars, BeginLoad, ServeLoad, FinishLoad, Rotate, Tick
<1>4. d = c
  BY <1>1, <1>2, <1>3 DEF Begin, Preflight, Prove, Issue, Replay, Consumed, LoseAnswer,
       Receive, FetchInCall
<1>5. \A code, own : Failed(c, code, own).phase = "failed"
  BY DEF Failed
<1>6. CASE Receive(c)
  <2>1. calls[c].phase = "answered" /\ calls[c] \in AnswerState
    BY <1>6 DEF LaneInv, CallSound, Receive
  <2>2. [calls[c] EXCEPT !.phase = "fetching"].phase = "fetching"
    BY <2>1 DEF AnswerState
  <2>3. calls'[c] = Ended(c)
    BY <1>1, <1>5, <1>6, <2>2 DEF Receive
  <2> QED
    BY <1>5, <2>1, <2>3 DEF Ended
<1>7. CASE FetchInCall(c)
  <2>1. calls'[c] = Ended(c) /\ calls[c].phase = "fetching"
    BY <1>1, <1>7 DEF FetchInCall
  <2> QED
    BY <1>5, <2>1 DEF Ended
<1>8. CASE Begin(c) \/ Preflight(c) \/ Prove(c) \/ Consumed(c) \/ LoseAnswer(c)
  <2>1. CASE Begin(c)
    <3>1. PICK o, x : /\ calls' = [calls EXCEPT ![c] = x]
                      /\ \/ x = [phase |-> "preflight", option |-> o]
                         \/ x = Failed(c, "INVALID_LIFETIME", FALSE)
      BY <2>1 DEF Begin
    <3>2. x.phase # "done"
      <4>1. CASE x = [phase |-> "preflight", option |-> o]
        BY <4>1
      <4>2. CASE x = Failed(c, "INVALID_LIFETIME", FALSE)
        BY <4>2 DEF Failed
      <4> QED
        BY <3>1, <4>1, <4>2
    <3>3. calls'[c] = x
      BY <1>1, <3>1
    <3> QED
      BY <3>2, <3>3
  <2>2. CASE Preflight(c)
    <3>1. PICK code, x : /\ calls' = [calls EXCEPT ![c] = x]
                         /\ \/ x = [phase |-> "prove", option |-> calls[c].option]
                            \/ x = Failed(c, code, FALSE)
      BY <2>2 DEF Preflight
    <3>2. x.phase # "done"
      <4>1. CASE x = [phase |-> "prove", option |-> calls[c].option]
        BY <4>1
      <4>2. CASE x = Failed(c, code, FALSE)
        BY <4>2 DEF Failed
      <4> QED
        BY <3>1, <4>1, <4>2
    <3>3. calls'[c] = x
      BY <1>1, <3>1
    <3> QED
      BY <3>2, <3>3
  <2>3. CASE Prove(c)
    <3>1. ASSUME calls' = [calls EXCEPT ![c] = Failed(c, "POLICY_REJECTED", FALSE)]
          PROVE  FALSE
      BY <1>1, <1>5, <3>1
    <3>2. ASSUME NEW session, NEW echo,
                 calls' = [calls EXCEPT ![c] =
                   [phase |-> "issue", option |-> calls[c].option,
                    session |-> session, echo |-> echo]]
          PROVE  FALSE
      <4>1. calls'[c] = [phase |-> "issue", option |-> calls[c].option,
                         session |-> session, echo |-> echo]
        BY <1>1, <3>2
      <4> QED
        BY <4>1
    <3> QED
      BY <2>3, <3>1, <3>2 DEF Prove
  <2>4. CASE Consumed(c) \/ LoseAnswer(c)
    BY <1>1, <1>5, <2>4 DEF Consumed, LoseAnswer
  <2> QED
    BY <1>8, <2>1, <2>2, <2>3, <2>4
<1>9. CASE Issue(c) \/ Replay(c)
  BY <1>1, <1>9 DEF Issue, Replay, Answer
<1> QED
  BY <1>3, <1>4, <1>6, <1>7, <1>8, <1>9

\* The verdict on a result for a network, and what it should be for its own.
VerdictFor(r, option, session, k, net, time) ==
  VerdictOf(r, option, session, k, [Right EXCEPT !.network = net], time)

ResultVerdict(r, k, time) ==
  IF r.rotation # k THEN "ISSUER_UNKNOWN"
  ELSE IF time > r.at + OptionsOf[r.option].lifetime
       THEN "AUTHORIZATION_EXPIRED" ELSE "VALID"

\* What authorizePSBT returns verifies with its own envelope and subject, in
\* its window, under a document in which its issuer's key is active, and under
\* no other and for no other network (SigbashClient.ts:2564-2612), whether it
\* was issued to this call or replayed, checked at once or never.
THEOREM ResultVerified == Spec => ResultVerifies
<1>1. ASSUME LaneInv, [Next]_vars, NEW c \in Calls,
             calls'[c].phase = "done", calls[c].phase # "done",
             NEW k \in 0..MaxRotations, NEW net,
             NEW time \in Edges(calls'[c].record) \ {calls'[c].record.at - 1}
      PROVE  LET x == calls'[c]
                 verdict == VerdictFor(x.record, x.option, x.session, k, net, time)
             IN  /\ net = KeyNetwork => verdict = ResultVerdict(x.record, k, time)
                 /\ net # KeyNetwork => verdict # "VALID"
  <2> DEFINE a == calls[c]
             r == a.record
             s == OptionsOf[a.option].subject
             o == [Right EXCEPT !.network = net]
             last == r.at + OptionsOf[r.option].lifetime
  <2>1. /\ a.phase \in {"answered", "fetching"}
        /\ calls'[c] = Ended(c) /\ CrossChecks(a) = "OK"
    BY <1>1, DoneByEnded
  <2>2. a \in AnswerState /\ CheckVerifiable(s)
    BY <1>1, <2>1 DEF LaneInv, CallSound
  <2>3. a.option \in Options /\ r \in issued
    BY <2>2 DEF AnswerState, Accepted
  <2>4. RecordSound(r) /\ r.option \in Options /\ r.at \in Nat /\ r.rotation \in Nat
    BY <1>1, <2>3, LaneAssumption DEF LaneInv, RecordSound, Records
  <2>5. ArtifactOf(r).fields.subjectCommitment = Commitment(s, a.session)
    BY <2>1 DEF CrossChecks, Export
  <2>6. /\ calls'[c].record = r /\ calls'[c].option = a.option
        /\ calls'[c].session = a.session
    BY <2>1 DEF Ended
  <2>7. k \in Nat
    BY <1>1, LaneAssumption
  <2>8. time \in Int /\ r.at <= time
    <3>1. OptionsOf[r.option].lifetime \in Nat
      BY <2>4, LaneAssumption
    <3>2. time \in {r.at, last, last + 1}
      BY <1>1, <2>6 DEF Edges
    <3> QED  BY <2>4, <3>1, <3>2
  <2>9. /\ o.network = net /\ ScopeAccepted(o, ArtifactOf(r).fields)
        /\ o.expectedPolicyRoot = "root" /\ SoftwareEnforced \in o.acceptedStrengths
    <3>1. /\ o.network = net /\ o.expectedScope = Right.expectedScope
          /\ o.credential = Right.credential
          /\ o.expectedPolicyRoot = "root" /\ o.acceptedStrengths = {SoftwareEnforced}
      BY DEF Right
    <3>2. Right \in Fitting
      BY DEF Fitting
    <3>3. ScopeAccepted(Right, ArtifactOf(r).fields)
      BY <3>2, FittingPasses
    <3> HIDE DEF o
    <3> QED  BY <3>1, <3>3 DEF ScopeAccepted
  <2> HIDE DEF a, r, o
  <2>10. VerdictOf(r, a.option, a.session, k, o, time) = Expected(r, k, o, time)
    BY <2>2, <2>3, <2>4, <2>5, <2>7, <2>8, RecordVerdict
  <2>11. /\ net = KeyNetwork =>
              Expected(r, k, o, time) = ResultVerdict(r, k, time)
         /\ net # KeyNetwork => Expected(r, k, o, time) # "VALID"
    <3>1. ~(time < r.at)
      BY <2>4, <2>8
    <3> QED  BY <2>9, <3>1 DEF Expected, ResultVerdict
  <2> QED
    BY <2>6, <2>10, <2>11 DEF o, VerdictFor
<1>2. ASSUME LaneInv, [Next]_vars, NEW c \in Calls,
             calls'[c].phase = "done", calls[c].phase # "done",
             NEW k \in 0..MaxRotations,
             NEW time \in Edges(calls'[c].record) \ {calls'[c].record.at - 1}
      PROVE  LET r == calls'[c].record
                 network == OptionsOf[calls'[c].option].network
                 verdict(net) == VerdictOf(r, calls'[c].option, calls'[c].session, k,
                                           [Right EXCEPT !.network = net], time)
             IN  /\ verdict(KeyNetwork) =
                      IF r.rotation # k THEN "ISSUER_UNKNOWN"
                      ELSE IF time > r.at + OptionsOf[r.option].lifetime
                           THEN "AUTHORIZATION_EXPIRED" ELSE "VALID"
                 /\ network # KeyNetwork => verdict(network) # "VALID"
  <2> DEFINE x == calls'[c]
             n == OptionsOf[x.option].network
             verdict(net) == VerdictFor(x.record, x.option, x.session, k, net, time)
  <2>1. verdict(KeyNetwork) = ResultVerdict(x.record, k, time)
    BY <1>1, <1>2
  <2>2. n # KeyNetwork => verdict(n) # "VALID"
    BY <1>1, <1>2
  <2>3. \A net : verdict(net) = VerdictOf(x.record, x.option, x.session, k,
                                         [Right EXCEPT !.network = net], time)
    BY Zenon DEF VerdictFor
  <2> QED  BY <2>1, <2>2, <2>3, Zenon DEF ResultVerdict
<1>3. LaneInv /\ [Next]_vars => ResultJudged
  BY <1>2, Zenon DEF ResultJudged
<1> QED
  BY <1>3, LaneInvariant, PTL DEF Spec, ResultVerifies

-----------------------------------------------------------------------------
(* What an artifact is accepted with.                                      *)

\* A position's challenge is no refusal.
LEMMA ChallengeIsOne ==
  ASSUME NEW salt, NEW session, NEW prevout, NEW preimage
  PROVE  EHat(salt, session, prevout, preimage) # Refused
<1>1. /\ DOMAIN EHat(salt, session, prevout, preimage) = {"rX", "qX", "sighash"}
      /\ DOMAIN Refused = {"refused"}
  BY DEF EHat, Refused
<1> QED  BY <1>1

\* Two challenges are equal only if all that is hashed is.
LEMMA ChallengeBinds ==
  ASSUME NEW salt, NEW session, NEW prevout, NEW preimage,
         NEW salt2, NEW session2, NEW prevout2, NEW preimage2,
         EHat(salt, session, prevout, preimage) = EHat(salt2, session2, prevout2, preimage2)
  PROVE  salt = salt2 /\ session = session2 /\ preimage = preimage2
<1>1. \A a, b, c, d : EHat(a, b, c, d).rX = <<a, b>> /\ EHat(a, b, c, d).sighash = d
  BY DEF EHat
<1>2. <<salt, session>> = <<salt2, session2>> /\ preimage = preimage2
  BY <1>1
<1> QED  BY <1>2

\* Whatever envelope goes with it, a subject that passes against a commitment
\* agrees with the committed one.
LEMMA PassingAgrees ==
  ASSUME NEW proved \in Provable, NEW session, NEW e, NEW s \in Subjects, NEW salt,
         SubjectVerdict([envelope |-> e, subject |-> s, salt |-> salt],
                        [subjectCommitment |-> Commitment(proved, session),
                         subjectKind |-> BitcoinPsbt]) = "VALID"
  PROVE  salt = Salt /\ Agrees(s, e.completing, proved)
<1> DEFINE bundle == CompletingBundle(e)
           posture == bundle.posture
           acp == posture.hashType = "acp"
           k == e.completing
           txin == s.inputs[k]
           last == Len(proved.inputs)
           own == proved.inputs[last]
           leaf == LeafOf(txin, posture)
           shown == Preimage(s, k, acp, leaf)
           signed == Preimage(proved, last, own.posture = "acp", own.leaf)
<1>1. /\ PinAggregate(e) = Commitment(proved, session)
      /\ CheckVerifiable(s) /\ RederiveEHat(s, e, salt) = bundle.challengeE
  <2> DEFINE o == [envelope |-> e, subject |-> s, salt |-> salt]
             fields == [subjectCommitment |-> Commitment(proved, session),
                        subjectKind |-> BitcoinPsbt]
  <2>1. /\ o.envelope = e /\ o.subject = s /\ o.salt = salt
        /\ fields.subjectCommitment = Commitment(proved, session)
    OBVIOUS
  <2>2. SubjectVerdict(o, fields) = "VALID"
    OBVIOUS
  <2> HIDE DEF o, fields
  <2> QED  BY <2>1, <2>2 DEF SubjectVerdict
<1>2. bundle.challengeE = EHat(Salt, session, own.prevout, signed)
  <2>1. PinAggregate(e).eHat = bundle.challengeE
    BY DEF PinAggregate
  <2>2. Commitment(proved, session).eHat = Position(proved, last, session).challengeE
    BY DEF Commitment
  <2>3. Position(proved, last, session).challengeE = EHat(Salt, session, own.prevout, signed)
    BY DEF Position
  <2> QED  BY <1>1, <2>1, <2>2, <2>3
<1>3. /\ RederiveEHat(s, e, salt) = EHat(salt, e.session, txin.prevout, shown)
      /\ k \in DOMAIN s.inputs /\ LeafAgrees(txin, posture)
  BY <1>1, <1>2, ChallengeIsOne DEF RederiveEHat
<1>4. salt = Salt /\ shown = signed
  BY <1>1, <1>2, <1>3, ChallengeBinds
<1>5. /\ shown.acp = acp /\ shown.leaf = leaf /\ shown.outputs = s.outputs
      /\ shown.inputs = IF acp THEN <<Spend(txin)>>
                        ELSE [i \in DOMAIN s.inputs |-> Spend(s.inputs[i])]
      /\ shown.position = IF acp THEN 0 ELSE k
  BY DEF Preimage
<1>6. /\ signed.acp = (own.posture = "acp") /\ signed.leaf = own.leaf
      /\ signed.outputs = proved.outputs
      /\ signed.inputs = IF own.posture = "acp" THEN <<Spend(own)>>
                         ELSE [i \in DOMAIN proved.inputs |-> Spend(proved.inputs[i])]
      /\ signed.position = IF own.posture = "acp" THEN 0 ELSE last
  BY DEF Preimage
<1> HIDE DEF shown, signed
<1>7. s.outputs = proved.outputs /\ leaf = own.leaf /\ acp = (own.posture = "acp")
  BY <1>4, <1>5, <1>6
<1>8. txin.leaf \in {own.leaf, NoLeaf}
  <2> HIDE DEF posture, txin
  <2> QED  BY <1>3, <1>7 DEF LeafAgrees, LeafOf
<1>9. CASE own.posture = "acp"
  <2>1. <<Spend(txin)>> = <<Spend(own)>>
    BY <1>4, <1>5, <1>6, <1>7, <1>9
  <2>2. Spend(txin) = Spend(own)
    BY <2>1
  <2> QED  BY <1>4, <1>7, <1>8, <1>9, <2>2 DEF Agrees
<1>10. CASE own.posture # "acp"
  <2>1. [i \in DOMAIN s.inputs |-> Spend(s.inputs[i])]
          = [i \in DOMAIN proved.inputs |-> Spend(proved.inputs[i])]
        /\ k = last
    BY <1>4, <1>5, <1>6, <1>7, <1>10
  <2>2. /\ DOMAIN s.inputs = DOMAIN proved.inputs
        /\ \A i \in DOMAIN s.inputs : Spend(s.inputs[i]) = Spend(proved.inputs[i])
    BY <2>1
  <2>3. \A x \in Subjects : CheckVerifiable(x) =>
          Len(x.inputs) \in Nat /\ DOMAIN x.inputs = 1..Len(x.inputs)
    BY LaneAssumption, LenProperties DEF CheckVerifiable
  <2>4. /\ Len(s.inputs) \in Nat /\ DOMAIN s.inputs = 1..Len(s.inputs)
        /\ last \in Nat /\ DOMAIN proved.inputs = 1..last
    BY <1>1, <2>3 DEF Provable
  <2>5. Len(s.inputs) = last
    <3>1. \A m, n \in Nat : 1..m = 1..n => m = n
      OBVIOUS
    <3>2. 1..Len(s.inputs) = 1..last
      BY <2>2, <2>4
    <3> HIDE DEF last
    <3> QED  BY <2>4, <3>1, <3>2
  <2>6. Spend(s.inputs[k]) = Spend(proved.inputs[k])
    BY <1>3, <2>2
  <2>7. \A i \in 1..last : Spend(s.inputs[i]) = Spend(proved.inputs[i])
    BY <2>2, <2>4
  <2> QED  BY <1>4, <1>7, <1>8, <1>10, <2>1, <2>5, <2>6, <2>7 DEF Agrees
<1> QED  BY <1>9, <1>10

LEMMA AllBind == CommitmentsBind
  BY PassingAgrees DEF CommitmentsBind

\* The verdict on a record's artifact under any options and document.
LEMMA VerdictIsExact ==
  ASSUME NEW r \in Records, NEW k \in 0..MaxRotations,
         NEW o \in Fitting \union Unfitting, NEW time \in Edges(r)
  PROVE  VerdictOf(r, r.option, r.session, k, o, time) = "VALID" <=>
           /\ o \in Fitting /\ r.rotation = k
           /\ time \in r.at .. r.at + OptionsOf[r.option].lifetime
<1> DEFINE s == OptionsOf[r.option].subject
           last == r.at + OptionsOf[r.option].lifetime
<1>1. /\ r.rotation \in Nat /\ r.at \in Nat /\ r.option \in Options
      /\ k \in Nat /\ CheckVerifiable(s) /\ OptionsOf[r.option].lifetime \in Nat
  BY LaneAssumption DEF Records
<1>2. time \in Int
  BY <1>1 DEF Edges
<1>3. ArtifactOf(r).fields.subjectCommitment = Commitment(s, r.session)
  BY DEF ArtifactOf
<1>4. VerdictOf(r, r.option, r.session, k, o, time) = Expected(r, k, o, time)
  BY <1>1, <1>2, <1>3, RecordVerdict
<1>5. o \in Fitting <=>
        /\ o.network = KeyNetwork /\ ScopeAccepted(o, ArtifactOf(r).fields)
        /\ o.expectedPolicyRoot \in {AnyRoot, "root"}
        /\ SoftwareEnforced \in o.acceptedStrengths
  BY FittingPasses, UnfittingFails
<1>6. time \in r.at .. last <=> ~(time < r.at) /\ ~(time > last)
  BY <1>1, <1>2
<1>7. Expected(r, k, o, time) = "VALID" <=>
        o \in Fitting /\ r.rotation = k /\ ~(time < r.at) /\ ~(time > last)
  BY <1>5 DEF Expected
<1> QED  BY <1>4, <1>6, <1>7

\* An artifact says what was proved and no more: what is shown with it passes
\* for the proved transaction alone, and it is accepted exactly in its window,
\* under the document in which its key is active, and with options that fit
\* the key (verify.ts:98-235).
THEOREM ArtifactIsExact == Spec => []ArtifactExact
<1>1. VerdictsExact
  BY VerdictIsExact DEF VerdictsExact
<1>2. LaneInv => ArtifactExact
  <2>1. ASSUME LaneInv, NEW r \in issued
        PROVE  r \in Records /\ OptionsOf[r.option].subject \in Provable
    BY <2>1, LaneAssumption DEF LaneInv, RecordSound, Records, Provable
  <2> QED
    BY <1>1, <2>1, AllBind DEF ArtifactExact, AcceptedBinds, VerdictExact
<1> QED
  BY <1>2, LaneInvariant, PTL

=============================================================================
