---------------------------- MODULE PrincipalAccess ----------------------------
(***************************************************************************)
(* The principal access ceremonies (src/principalAccess.ts): grant,        *)
(* revoke and rebind, each a chain of awaited server calls on the access   *)
(* rows and the stored key envelope of one or several keys.                *)
(*                                                                         *)
(* A ceremony works on the envelopes its caller fetched before it started  *)
(* and computes each replacement locally; other ceremonies may run between *)
(* its calls.  Every call may be refused, or take effect and have its      *)
(* response lost: either way the ceremony throws.  The server is external; *)
(* it keeps the rows, a generation per key that each change of a row bumps *)
(* (contracts/policyKeyAccess.ts), and the last envelope uploaded.  An     *)
(* envelope is the set of principals that have a slot in it.               *)
(***************************************************************************)
EXTENDS Naturals, Sequences, FiniteSets

CONSTANTS
  Key,           \* policy keys
  Principal,     \* principal credentials
  Holders,       \* principals that have a row and a slot on every key at first
  Grant, Revoke, Rebind,  \* the ceremonies of each kind, run at most once each
  KeysOf,        \* the keys of a ceremony, in options order
  SubjectOf,     \* grant, rebind: the fresh principal; revoke: who is revoked
  PreviousOf,    \* rebind: the principal it replaces
  Guarded,       \* ceremonies called with observedAccessGeneration
  MaxConcurrent  \* bound: ceremonies under way at once

Ceremony == Grant \cup Revoke \cup Rebind

ASSUME AccessAssumption ==
  /\ Holders \subseteq Principal
  /\ Grant \cap Revoke = {} /\ Grant \cap Rebind = {} /\ Revoke \cap Rebind = {}
  /\ KeysOf \in [Ceremony -> Seq(Key) \ {<<>>}]
  /\ SubjectOf \in [Ceremony -> Principal]
  /\ PreviousOf \in [Rebind -> Principal]
  /\ Guarded \subseteq Ceremony
  /\ MaxConcurrent \in Nat \ {0}

\* A credential is generated afresh by the ceremony that grants it.
ASSUME FreshCredentials ==
  \A c \in Grant \cup Rebind :
    /\ SubjectOf[c] \notin Holders
    /\ \A d \in Grant \cup Rebind : SubjectOf[d] = SubjectOf[c] => d = c

VARIABLES
  registered,  \* server: principals with a proof-of-possession row
  row,         \* server: the access row of a principal on a key
  generation,  \* server: access generation of each key
  stored,      \* server: the envelope of each key
  pc,          \* the next call of each ceremony
  at,          \* position in its keys
  input,       \* the envelopes the caller passed in
  observed,    \* the observedAccessGeneration the caller passed in
  alone        \* history: no ceremony was started beside another one

server == <<registered, row, generation, stored>>
accessVars == <<server, pc, at, input, observed, alone>>

Step == {"register", "grantRow", "uploadGrant", "status", "revokeRow", "uploadRevoke"}

AccessTypeOK ==
  /\ registered \subseteq Principal
  /\ row \in [Key -> [Principal -> {"none", "active", "revoked"}]]
  /\ generation \in [Key -> Nat]
  /\ stored \in [Key -> SUBSET Principal]
  /\ pc \in [Ceremony -> {"idle", "done", "failed"} \cup Step]
  /\ at \in [Ceremony -> Nat]
  /\ \A c \in Ceremony : at[c] \in DOMAIN KeysOf[c]
  /\ input \in [Ceremony -> [Key -> SUBSET Principal]]
  /\ observed \in [Ceremony -> Nat]
  /\ alone \in BOOLEAN

AccessInit ==
  /\ registered = Holders
  /\ row = [k \in Key |-> [p \in Principal |->
                             IF p \in Holders THEN "active" ELSE "none"]]
  /\ generation = [k \in Key |-> 0]
  /\ stored = [k \in Key |-> Holders]
  /\ pc = [c \in Ceremony |-> "idle"]
  /\ at = [c \in Ceremony |-> 1]
  /\ input = [c \in Ceremony |-> [k \in Key |-> {}]]
  /\ observed = [c \in Ceremony |-> 0]
  /\ alone = TRUE

-----------------------------------------------------------------------------
KeyAt(c) == KeysOf[c][at[c]]
Running(c) == pc[c] \in Step

\* Whom the revoking half of a ceremony cuts off.
Dropped(c) == IF c \in Rebind THEN PreviousOf[c] ELSE SubjectOf[c]

\* The caller fetches the envelopes and the generation and calls the ceremony.
Start(c) ==
  /\ pc[c] = "idle"
  /\ Cardinality({d \in Ceremony : Running(d)}) < MaxConcurrent
  /\ \E first \in {"register", "grantRow", "status"} :
       /\ first = "register" => c \in Grant \cup Rebind
       /\ first = "grantRow" => c \in Grant      \* register: false
       /\ first = "status" => c \in Revoke
       /\ pc' = [pc EXCEPT ![c] = first]
  /\ input' = [input EXCEPT ![c] = stored]
  /\ observed' = [observed EXCEPT ![c] = generation[KeyAt(c)]]
  /\ alone' = (alone /\ \A d \in Ceremony : ~Running(d))
  /\ UNCHANGED <<server, at>>

\* A call is refused, never arrives, or a ceremony of the WASM module throws.
Throw(c) ==
  /\ Running(c)
  /\ pc' = [pc EXCEPT ![c] = "failed"]
  /\ UNCHANGED <<server, at, input, observed, alone>>

\* The call took effect; its response arrives or is lost.
Served(c, next) == \E s \in {next, "failed"} : pc' = [pc EXCEPT ![c] = s]

\* The generation a guarded call carries is the one its caller observed.
Fresh(c) == c \in Guarded => observed[c] = generation[KeyAt(c)]

Bump(c) == generation' = [generation EXCEPT ![KeyAt(c)] = @ + 1]

\* _registerPrincipal.
Register(c) ==
  /\ pc[c] = "register"
  /\ registered' = registered \cup {SubjectOf[c]}
  /\ Served(c, "grantRow")
  /\ UNCHANGED <<row, generation, stored, at, input, observed, alone>>

\* _grantOnKey up to the access row; a stale generation is refused (Throw).
GrantRow(c) ==
  /\ pc[c] = "grantRow"
  /\ Fresh(c)
  /\ row' = [row EXCEPT ![KeyAt(c)][SubjectOf[c]] = "active"]
  /\ Bump(c)
  /\ Served(c, "uploadGrant")
  /\ UNCHANGED <<registered, stored, at, input, observed, alone>>

\* The end of the work on one key: the next key, the next half, or the result.
Advance(c, again, after) ==
  IF at[c] < Len(KeysOf[c])
  THEN Served(c, again) /\ at' = [at EXCEPT ![c] = @ + 1]
  ELSE Served(c, after) /\ at' = [at EXCEPT ![c] = 1]

\* _uploadEnvelope: it carries the generation too, which the row change before
\* it has moved; whether the server looks at it is left open (Throw).
Upload(c, slots, again, after) ==
  /\ stored' = [stored EXCEPT ![KeyAt(c)] = slots]
  /\ Advance(c, again, after)
  /\ UNCHANGED <<registered, row, generation, input, observed, alone>>

\* Mutant of UploadGrant: a rebind revokes on each key as soon as it has
\* granted there.
UploadThenRevoke(c) ==
  /\ pc[c] = "uploadGrant"
  /\ stored' = [stored EXCEPT ![KeyAt(c)] = input[c][KeyAt(c)] \cup {SubjectOf[c]}]
  /\ Served(c, IF c \in Rebind THEN "status" ELSE "done")
  /\ UNCHANGED <<registered, row, generation, at, input, observed, alone>>

\* The rest of _grantOnKey: upload the envelope with the new slot.
UploadGrant(c) ==
  /\ pc[c] = "uploadGrant"
  /\ Upload(c, input[c][KeyAt(c)] \cup {SubjectOf[c]}, "grantRow",
            IF c \in Rebind THEN "status" ELSE "done")

\* revoke() reads the row first.
ReadStatus(c) ==
  /\ pc[c] = "status"
  /\ row[KeyAt(c)][Dropped(c)] # "none"
  /\ pc' = [pc EXCEPT ![c] = "revokeRow"]
  /\ UNCHANGED <<server, at, input, observed, alone>>

\* DELETE of the row; it carries no generation, and repeating it is no error.
RevokeRow(c) ==
  /\ pc[c] = "revokeRow"
  /\ IF row[KeyAt(c)][Dropped(c)] = "active"
     THEN /\ row' = [row EXCEPT ![KeyAt(c)][Dropped(c)] = "revoked"]
          /\ Bump(c)
     ELSE UNCHANGED <<row, generation>>
  /\ Served(c, "uploadRevoke")
  /\ UNCHANGED <<registered, stored, at, input, observed, alone>>

\* Mutant of UploadRevoke: the envelope is uploaded with every slot it had.
UploadRevokeWhole(c) ==
  /\ pc[c] = "uploadRevoke"
  /\ Upload(c, input[c][KeyAt(c)], "status", "done")

\* The re-wrap of the caller's envelope without the slot, and its upload.
UploadRevoke(c) ==
  /\ pc[c] = "uploadRevoke"
  /\ Upload(c, input[c][KeyAt(c)] \ {Dropped(c)}, "status", "done")

AccessNext ==
  \E c \in Ceremony :
    \/ Start(c)
    \/ Throw(c)
    \/ Register(c)
    \/ GrantRow(c)
    \/ UploadGrant(c)
    \/ ReadStatus(c)
    \/ RevokeRow(c)
    \/ UploadRevoke(c)

AccessSpec == AccessInit /\ [][AccessNext]_accessVars

-----------------------------------------------------------------------------
(* Properties.                                                             *)

\* Keys of a ceremony.
Keys(c) == {KeysOf[c][i] : i \in DOMAIN KeysOf[c]}

\* Principals no ceremony but c cuts off.
OnlyDroppedBy(p, c) == \A d \in Revoke \cup Rebind : Dropped(d) = p => d = c

\* "grants first, so the organization never loses a working principal"
\* (principalAccess.ts:378), at the access rows: once a rebind has revoked the
\* replaced principal on one key, its successor has a row on all of them,
\* wherever the ceremony stopped and whatever ran in between.
RebindGrantsFirst ==
  \A c \in Rebind :
    /\ OnlyDroppedBy(PreviousOf[c], c)
    /\ OnlyDroppedBy(SubjectOf[c], c)
    /\ PreviousOf[c] \in Holders
    /\ \E k \in Keys(c) : row[k][PreviousOf[c]] = "revoked"
    => \A k \in Keys(c) : row[k][SubjectOf[c]] = "active"

\* The same at the envelopes: a rebind that succeeded leaves its new principal
\* a slot to open each key with.
RebindLeavesWorking ==
  \A c \in Rebind :
    pc[c] = "done" /\ (\A d \in Ceremony \ {c} : pc[d] = "idle") =>
      \A k \in Keys(c) : SubjectOf[c] \in stored[k] /\ row[k][SubjectOf[c]] = "active"

\* Rows and slots agree, except where a ceremony on that principal and key is
\* between its row and its upload, or threw there: ceremonies that follow each
\* other lose no slot and bring none back.  The successor of a rebind is left to
\* RebindLeavesWorking.
Interrupted(k, p, C) ==
  \E c \in C :
    /\ k \in Keys(c)
    /\ p \in {SubjectOf[c], Dropped(c)}
    /\ pc[c] \in {"uploadGrant", "uploadRevoke", "failed"}

SlotFollowsRow ==
  alone =>
    \A k \in Key, p \in Principal \ {SubjectOf[c] : c \in Rebind} :
      /\ row[k][p] = "active" /\ p \notin stored[k] => Interrupted(k, p, Grant \cup Rebind)
      /\ row[k][p] # "active" /\ p \in stored[k] => Interrupted(k, p, Revoke \cup Rebind)

=============================================================================
