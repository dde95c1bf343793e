------------------------------ MODULE ClientKeys ------------------------------
(***************************************************************************)
(* The life of keys on one client (src/SigbashClient.ts): createKey on     *)
(* both of its paths, getKey, exportRecoveryKit, recoverFromKit,           *)
(* updatePolicy, getAuthorizationStatus and dispose, with the envelopes of *)
(* src/crypto.ts.  Calls of one client overlap: each is a chain of awaits, *)
(* and what it reads of the client after an await is what the client holds *)
(* by then - its credentials, its PoP key, its sockets, its MuSig2 key.    *)
(*                                                                         *)
(* A step is what runs between two awaits.  A key the credential triplet   *)
(* yields (KEK, salt, PoP seed) stands for the secret it is derived from:  *)
(* "right" is the one the user registered with, "lost" the one of a client *)
(* built with another userSecretKey, "blank" the empty strings dispose()   *)
(* leaves.  The server stores the last accepted upload and accepts what    *)
(* the registered PoP key signed.                                          *)
(***************************************************************************)
EXTENDS Naturals, FiniteSets

CONSTANTS
  Call,          \* calls on the client
  KindsOf,       \* what a call may be
  Key, Stored,   \* key indices; those created in earlier sessions
  Old,           \* stands for those sessions where calls stand for versions
  MaxConcurrent  \* bound: calls under way at once

Kinds == {"create", "createAuth", "get", "export", "recover", "update", "status"}
Secrets == {"right", "lost", "blank"}

ASSUME KeysAssumption ==
  /\ Stored \subseteq Key /\ "none" \notin Key
  /\ Old \notin Call
  /\ KindsOf \in [Call -> SUBSET Kinds]
  /\ MaxConcurrent \in Nat \ {0}

\* Who generated a MuSig2 private key: this client, or the session that
\* created a stored key; a disposed client's is random bytes.
ClientKey == Key \cup {"fresh", "scrambled", "none"}
Version == Call \cup {Old}

VARIABLES
  secret,     \* the userSecretKey the client was built with
  cred,       \* what the credential fields hold: secret, or blank
  popKey,     \* _popKey
  sdk, musig, \* _socket, _musig2Socket
  priv, h1,   \* #musig2PrivateKey, #commitmentH1 (with #keyHash)
  disposed,
  at, job,    \* the await a call is in, and its locals
  why,        \* how a call failed
  kits,       \* recovery kits handed out
  server,     \* the stored keys
  registered, \* the user's PoP public key at the server
  asked,      \* key requests the server has not answered
  mixed, cut, crossed, raced
              \* history: a recovery overlapped another call; dispose() did;
              \* two key requests were open at once; keys on which two
              \* updates overlapped

client == <<cred, popKey, sdk, musig, priv, h1, disposed>>
history == <<mixed, cut, crossed, raced>>
vars == <<secret, client, at, job, why, kits, server, registered, asked, history>>

NoSocket == [pop |-> "none", up |-> FALSE]
Socket == [pop : {"right", "lost"}, up : BOOLEAN]
NoKey == [policy |-> "none"]

NoJob == [kind |-> "none", key |-> "none", priv |-> "none", share |-> "none",
          salt |-> "none", kek |-> "none", slot |-> "none", h1 |-> "none", pop |-> "none",
          live |-> FALSE, orig |-> "none", got |-> NoKey, kit |-> Old,
          bare |-> FALSE]

Stages == {"ready", "hashed", "requested", "answered", "salting", "connecting",
           "fetching", "deriving", "sealing", "registering", "waiting", "opening",
           "posting", "patching", "done", "failed"}

\* A stored key: the network of the server share it was built with, the policy
\* in its container and the one registered as root, the client key inside and
\* the registered commitment, the secrets its salt, auth slot and enc_kek2 come
\* from, and the version of its CEK.
StoredKey ==
  [policy : Version, root : Version, share : Key, client : ClientKey, h1 : ClientKey,
   salt : Secrets, slot : Secrets, kek : Secrets, cek : Version]

Kit == [key : Key, kek : Secrets, cek : Version, pop : {"right", "lost", "none"}, api : Secrets]

TypeOK ==
  /\ secret \in {"right", "lost"}
  /\ cred \in {secret, "blank"}
  /\ popKey \in {"right", "lost"}
  /\ {sdk, musig} \subseteq Socket \cup {NoSocket}
  /\ {priv, h1} \subseteq ClientKey
  /\ disposed \in BOOLEAN
  /\ at \in [Call -> Stages]
  /\ \A c \in Call : DOMAIN job[c] = DOMAIN NoJob /\ job[c].kind \in Kinds \cup {"none"}
  /\ why \in [Call -> {"none", "disposed", "timeout", "refused", "server", "sealed"}]
  /\ kits \subseteq Kit
  /\ \A k \in Key : server[k] \in StoredKey \cup {NoKey}
  /\ registered \in {"none", "right", "lost"}
  /\ asked \subseteq Call \X Key
  /\ {mixed, cut, crossed} \subseteq BOOLEAN /\ raced \subseteq Key

OldKey(k) ==
  [policy |-> Old, root |-> Old, share |-> k, client |-> k, h1 |-> k,
   salt |-> "right", slot |-> "right", kek |-> "right", cek |-> Old]

\* The user is registered, with keys of earlier sessions and a kit for each, or
\* is the first of a fresh organisation.  Kits of older versions have no PoP seed.
Init ==
  /\ secret \in {"right", "lost"}
  /\ cred = secret /\ popKey = secret
  /\ sdk = NoSocket /\ musig = NoSocket
  /\ priv = "none" /\ h1 = "none"
  /\ disposed = FALSE
  /\ at = [c \in Call |-> "ready"]
  /\ job = [c \in Call |-> NoJob]
  /\ why = [c \in Call |-> "none"]
  /\ \/ /\ registered = "right"
        /\ server = [k \in Key |-> IF k \in Stored THEN OldKey(k) ELSE NoKey]
        /\ \E pop \in {"right", "none"} :
             kits = {[key |-> k, kek |-> "right", cek |-> Old, pop |-> pop, api |-> "right"] :
                       k \in Stored}
     \/ /\ registered = "none" /\ secret = "right"
        /\ server = [k \in Key |-> NoKey]
        /\ kits = {}
  /\ asked = {}
  /\ mixed = FALSE /\ cut = FALSE /\ crossed = FALSE /\ raced = {}

-----------------------------------------------------------------------------
Running(c) == at[c] \notin {"ready", "done", "failed"}

\* A recovery that has rebound _popKey and not restored it.
Rebound(c) == job[c].orig # "none"

To(c, stage, locals) ==
  /\ at' = [at EXCEPT ![c] = stage]
  /\ job' = [job EXCEPT ![c] = locals]
  /\ UNCHANGED why

\* The promise of a call settles; its locals go, its identity stays.
Settled(c, j) == [j EXCEPT ![c] = [NoJob EXCEPT !.kind = job[c].kind, !.key = job[c].key]]

Resolve(c) ==
  /\ at' = [at EXCEPT ![c] = "done"]
  /\ job' = Settled(c, job)
  /\ UNCHANGED why

Reject(c, reason) ==
  /\ at' = [at EXCEPT ![c] = "failed"]
  /\ job' = Settled(c, job)
  /\ why' = [why EXCEPT ![c] = reason]

\* _requireSocket: the one in place, or a new one whose emits are signed with
\* the PoP key of this moment.
RequireSocket == sdk' = IF sdk = NoSocket THEN [pop |-> popKey, up |-> FALSE] ELSE sdk

\* Disconnecting a socket leaves the requests made on it without an answer.
Orphaned(j, stages) == [c \in Call |-> IF at[c] \in stages THEN [j[c] EXCEPT !.live = FALSE] ELSE j[c]]
OnSdk == {"hashed", "waiting", "registering", "connecting"}

Begun(c, kind, k) == [NoJob EXCEPT !.kind = kind, !.key = k]

\* _ensureClientKeypair: a fresh pair unless the client has a commitment.
EnsureKeypair == IF h1 = "none" THEN priv' = "fresh" /\ h1' = "fresh" ELSE UNCHANGED <<priv, h1>>

\* Mutant of Begin: without the disposed check.
BeginUnchecked(c, kind, k) ==
  /\ at[c] = "ready" /\ kind \in KindsOf[c] \ {"status"}
  /\ Cardinality({d \in Call : Running(d)}) < MaxConcurrent
  /\ kind = "recover" => \E kit \in kits : kit.key = k
  /\ To(c, "hashed", Begun(c, kind, k))
  /\ IF kind = "create" THEN EnsureKeypair ELSE UNCHANGED <<priv, h1>>
  /\ mixed' = (mixed \/ \E d \in Call : Rebound(d))
  /\ UNCHANGED <<secret, cred, popKey, sdk, musig, disposed, kits, server,
                 registered, asked, cut, crossed, raced>>

\* A method up to its first await, the credentials' hash.
Begin(c, kind, k) ==
  /\ at[c] = "ready" /\ kind \in KindsOf[c] \ {"status"}
  /\ Cardinality({d \in Call : Running(d)}) < MaxConcurrent
  /\ ~disposed
  /\ kind = "recover" => \E kit \in kits : kit.key = k
  /\ To(c, "hashed", Begun(c, kind, k))
  /\ IF kind = "create" THEN EnsureKeypair ELSE UNCHANGED <<priv, h1>>
  /\ mixed' = (mixed \/ \E d \in Call : Rebound(d))
  /\ UNCHANGED <<secret, cred, popKey, sdk, musig, disposed, kits, server,
                 registered, asked, cut, crossed, raced>>

\* A method called on a disposed client throws.
BeginDisposed(c, kind, k) ==
  /\ at[c] = "ready" /\ kind \in KindsOf[c] \ {"status"}
  /\ disposed
  /\ at' = [at EXCEPT ![c] = "failed"]
  /\ job' = [job EXCEPT ![c] = Begun(c, kind, k)]
  /\ why' = [why EXCEPT ![c] = "disposed"]
  /\ UNCHANGED <<secret, client, kits, server, registered, asked, history>>

-----------------------------------------------------------------------------
\* createKey asks the server for its share: a listener on the musig2 socket for
\* the next key_request_response, whoever's it is.
RequestShare(c) ==
  /\ at[c] = "hashed" /\ job[c].kind = "create"
  /\ musig' = IF musig = NoSocket THEN [pop |-> popKey, up |-> TRUE] ELSE musig
  /\ To(c, "requested", [job[c] EXCEPT !.priv = priv, !.live = TRUE])
  /\ asked' = asked \cup {<<c, job[c].key>>}
  /\ crossed' = (crossed \/ asked # {})
  /\ UNCHANGED <<secret, cred, popKey, sdk, priv, h1, disposed, kits, server,
                 registered, mixed, cut, raced>>

Listening == {c \in Call : at[c] = "requested" /\ job[c].live}

\* The server answers one key request; every listener takes the answer.
ShareArrives ==
  /\ musig.pop = registered
  /\ \E q \in asked :
       /\ asked' = asked \ {q}
       /\ at' = [c \in Call |-> IF c \in Listening THEN "answered" ELSE at[c]]
       /\ job' = [c \in Call |-> IF c \in Listening
                                 THEN [job[c] EXCEPT !.share = q[2], !.live = FALSE]
                                 ELSE job[c]]
  /\ UNCHANGED <<secret, client, why, kits, server, registered, history>>

\* _compilePoetPolicy starts to derive the policy salt: in createKey with the
\* share, in its authorization path as soon as there is a key pair.
DeriveSalt(c) ==
  \/ /\ at[c] = "answered"
     /\ To(c, "salting", [job[c] EXCEPT !.salt = cred])
     /\ UNCHANGED <<secret, client, kits, server, registered, asked, history>>
  \/ /\ at[c] = "hashed" /\ job[c].kind = "createAuth"
     /\ EnsureKeypair
     /\ To(c, "salting", [job[c] EXCEPT !.salt = cred, !.priv = priv'])
     /\ UNCHANGED <<secret, cred, popKey, sdk, musig, disposed, kits, server,
                    registered, asked, history>>

\* The policy is compiled and the container built around the client key; the
\* commitment follows it.  Then the recovery KEK is derived.
Aggregate(c) ==
  /\ at[c] = "salting" /\ job[c].kind = "create"
  /\ h1' = job[c].priv
  /\ To(c, "deriving", [job[c] EXCEPT !.kek = cred])
  /\ UNCHANGED <<secret, cred, popKey, sdk, musig, priv, disposed, kits, server,
                 registered, asked, history>>

\* Mutant of AwaitHandshake: the server's key information is fetched at once.
FetchAtOnce(c) ==
  /\ at[c] = "salting" /\ job[c].kind = "createAuth"
  /\ RequireSocket
  /\ To(c, "fetching", [job[c] EXCEPT !.pop = popKey])
  /\ UNCHANGED <<secret, cred, popKey, musig, priv, h1, disposed, kits, server,
                 registered, asked, history>>

\* The authorization path waits for the handshake that registers the PoP key.
AwaitHandshake(c) ==
  /\ at[c] = "salting" /\ job[c].kind = "createAuth"
  /\ RequireSocket
  /\ To(c, "connecting", [job[c] EXCEPT !.live = TRUE])
  /\ UNCHANGED <<secret, cred, popKey, musig, priv, h1, disposed, kits, server,
                 registered, asked, history>>

\* The handshake is signed with the PoP key the client has when it takes place.
\* A fresh organisation registers it with its first user.
Connect ==
  /\ sdk # NoSocket /\ ~sdk.up
  /\ registered \in {"none", popKey}
  /\ registered' = popKey
  /\ sdk' = [sdk EXCEPT !.up = TRUE]
  /\ UNCHANGED <<secret, cred, popKey, musig, priv, h1, disposed, at, job, why,
                 kits, server, asked, history>>

\* Then a REST call, signed with the PoP key of this moment, fetches the
\* server's public key information.
FetchKeyInfo(c) ==
  /\ at[c] = "connecting" /\ job[c].live /\ sdk.up
  /\ To(c, "fetching", [job[c] EXCEPT !.pop = popKey, !.live = FALSE])
  /\ UNCHANGED <<secret, client, kits, server, registered, asked, history>>

\* REST calls whose PoP signature the server does not know are refused.
Verified(c) == job[c].pop = registered

KeyInfoArrives(c) ==
  /\ at[c] = "fetching"
  /\ IF Verified(c)
     THEN To(c, "deriving", [job[c] EXCEPT !.share = job[c].key, !.kek = cred])
     ELSE Reject(c, "refused")
  /\ UNCHANGED <<secret, client, kits, server, registered, asked, history>>

\* buildKMCEnvelope takes the credentials of this moment for the auth slot.
Seal(c) ==
  /\ at[c] = "deriving" /\ job[c].kind \in {"create", "createAuth", "update"}
  /\ To(c, "sealing", [job[c] EXCEPT !.slot = cred])
  /\ UNCHANGED <<secret, client, kits, server, registered, asked, history>>

\* The registration is a request on the SDK socket, made anew if there is none.
Register(c) ==
  /\ at[c] = "sealing" /\ job[c].kind \in {"create", "createAuth"}
  /\ RequireSocket
  /\ To(c, "registering", [job[c] EXCEPT !.live = TRUE, !.pop = sdk'.pop,
                             !.h1 = IF job[c].kind = "create" THEN h1 ELSE job[c].priv])
  /\ UNCHANGED <<secret, cred, popKey, musig, priv, h1, disposed, kits, server,
                 registered, asked, history>>

\* A request on the SDK socket reaches the server: the handshake went through
\* and the signature is the user's.
Served(c) == job[c].live /\ sdk.up /\ job[c].pop = registered

Sealed(c) ==
  [policy |-> c, root |-> c, share |-> job[c].share, client |-> job[c].priv,
   h1 |-> job[c].h1, salt |-> job[c].salt, slot |-> job[c].slot,
   kek |-> job[c].kek, cek |-> c]

\* The server stores a key under a free index.  Its answer may be lost.
Registered(c) ==
  /\ at[c] = "registering" /\ Served(c)
  /\ IF server[job[c].key] = NoKey
     THEN /\ server' = [server EXCEPT ![job[c].key] = Sealed(c)]
          /\ Resolve(c) \/ Reject(c, "timeout")
     ELSE /\ Reject(c, "server")
          /\ UNCHANGED server
  /\ UNCHANGED <<secret, client, kits, registered, asked, history>>

-----------------------------------------------------------------------------
\* get_encrypted_kmc, the start of getKey, exportRecoveryKit and updatePolicy.
RequestKmc(c) ==
  /\ at[c] = "hashed" /\ job[c].kind \in {"get", "export", "update"}
  /\ RequireSocket
  /\ To(c, "waiting", [job[c] EXCEPT !.live = TRUE, !.pop = sdk'.pop])
  /\ UNCHANGED <<secret, cred, popKey, musig, priv, h1, disposed, kits, server,
                 registered, asked, history>>

\* The answer is decrypted with the credentials of this moment; an export
\* derives the recovery KEK from them.
KmcArrives(c) ==
  /\ at[c] = "waiting" /\ Served(c) /\ job[c].kind \in {"get", "export", "update"}
  /\ IF server[job[c].key] = NoKey
     THEN Reject(c, "server")
     ELSE To(c, "opening", [job[c] EXCEPT !.got = server[job[c].key], !.kek = cred, !.live = FALSE])
  /\ UNCHANGED <<secret, client, kits, server, registered, asked, history>>

\* decryptKMCEnvelope: the KEK of these credentials unwraps the auth slot's CEK.
OpensAuthSlot(got, credentials) == got.slot = credentials

\* A client without a MuSig2 key takes the one in the container; an update
\* goes on to the policy salt.
Open(c) ==
  /\ at[c] = "opening" /\ job[c].kind \in {"get", "update"}
  /\ IF ~OpensAuthSlot(job[c].got, job[c].kek)
     THEN Reject(c, "sealed") /\ UNCHANGED <<priv, h1>>
     ELSE /\ IF h1 = "none"
             THEN priv' = job[c].got.client /\ h1' = job[c].got.client
             ELSE UNCHANGED <<priv, h1>>
          /\ IF job[c].kind = "get" THEN Resolve(c)
             ELSE To(c, "salting", [job[c] EXCEPT !.salt = cred,
                       !.share = job[c].got.share, !.priv = job[c].got.client])
  /\ UNCHANGED <<secret, cred, popKey, sdk, musig, disposed, kits, server,
                 registered, asked, history>>

\* exportRecoveryKit returns the KEK with the PoP seed and the fields of this
\* moment.
Export(c) ==
  /\ at[c] = "opening" /\ job[c].kind = "export"
  /\ kits' = kits \cup {[key |-> job[c].key, kek |-> job[c].kek, cek |-> job[c].got.cek,
                         pop |-> popKey, api |-> cred]}
  /\ Resolve(c)
  /\ UNCHANGED <<secret, client, server, registered, asked, history>>

\* The WASM puts the new policy into the container; its salt is the one derived.
Recompile(c) ==
  /\ at[c] = "salting" /\ job[c].kind = "update"
  /\ To(c, "deriving", [job[c] EXCEPT !.kek = cred])
  /\ UNCHANGED <<secret, client, kits, server, registered, asked, history>>

UpdatesOf(k) == {c \in Call : job[c].kind = "update" /\ job[c].key = k /\ at[c] \in {"posting", "patching"}}

\* The container goes up first, with the commitment of the client's key.
PostContainer(c) ==
  /\ at[c] = "sealing" /\ job[c].kind = "update"
  /\ To(c, "posting", [job[c] EXCEPT !.pop = popKey, !.h1 = h1])
  /\ raced' = IF UpdatesOf(job[c].key) = {} THEN raced ELSE raced \cup {job[c].key}
  /\ UNCHANGED <<secret, client, kits, server, registered, asked, mixed, cut, crossed>>

\* Mutant of ContainerStored: the root goes up first.
RootFirst(c) ==
  /\ at[c] = "posting"
  /\ IF Verified(c)
     THEN /\ server' = [server EXCEPT ![job[c].key].root = c]
          /\ \/ To(c, "patching", [job[c] EXCEPT !.pop = popKey])
             \/ Reject(c, "timeout")
     ELSE Reject(c, "refused") /\ UNCHANGED server
  /\ UNCHANGED <<secret, client, kits, registered, asked, history>>

\* The server stores the container; its answer may be lost.
ContainerStored(c) ==
  /\ at[c] = "posting"
  /\ IF Verified(c)
     THEN /\ server' = [server EXCEPT ![job[c].key] =
                          [Sealed(c) EXCEPT !.root = server[job[c].key].root]]
          /\ \/ To(c, "patching", [job[c] EXCEPT !.pop = popKey])
             \/ Reject(c, "timeout")
     ELSE Reject(c, "refused") /\ UNCHANGED server
  /\ UNCHANGED <<secret, client, kits, registered, asked, history>>

\* Then the root of the new policy.
RootPatched(c) ==
  /\ at[c] = "patching"
  /\ IF Verified(c)
     THEN /\ server' = [server EXCEPT ![job[c].key].root = c]
          /\ Resolve(c) \/ Reject(c, "timeout")
     ELSE Reject(c, "refused") /\ UNCHANGED server
  /\ UNCHANGED <<secret, client, kits, registered, asked, history>>

-----------------------------------------------------------------------------
\* recoverFromKit with a kit that has a PoP seed signs with it for as long as it
\* runs, on a socket of its own.
Rebind(c, kit) ==
  /\ popKey' = kit.pop
  /\ sdk' = [pop |-> kit.pop, up |-> FALSE]
  /\ job' = [Orphaned(job, OnSdk) EXCEPT
               ![c] = [job[c] EXCEPT !.kit = kit, !.orig = popKey, !.pop = kit.pop, !.live = TRUE]]
  /\ mixed' = (mixed \/ \E d \in Call \ {c} : Running(d))

KeepPop(c, kit) ==
  /\ RequireSocket
  /\ job' = [job EXCEPT ![c] = [job[c] EXCEPT !.kit = kit, !.pop = sdk'.pop, !.live = TRUE]]
  /\ UNCHANGED <<popKey, mixed>>

RecoverFromKit(c) ==
  /\ at[c] = "hashed" /\ job[c].kind = "recover"
  /\ \E kit \in kits :
       /\ kit.key = job[c].key
       /\ IF kit.pop = "none" THEN KeepPop(c, kit) ELSE Rebind(c, kit)
  /\ at' = [at EXCEPT ![c] = "waiting"]
  /\ UNCHANGED <<secret, cred, musig, priv, h1, disposed, why, kits, server,
                 registered, asked, cut, crossed, raced>>

\* The CEK is unwrapped from the server's enc_kek2, or from the kit's copy when
\* the server returns none.
Unwrapped(got, kit, bare) ==
  IF bare THEN kit.cek = got.cek /\ kit.kek = "right" ELSE kit.kek = got.kek

RecoveryArrives(c) ==
  /\ at[c] = "waiting" /\ job[c].kind = "recover" /\ Served(c)
  /\ server[job[c].key] # NoKey
  /\ \E bare \in BOOLEAN :
       To(c, "opening", [job[c] EXCEPT !.got = server[job[c].key], !.live = FALSE, !.bare = bare])
  /\ UNCHANGED <<secret, client, kits, server, registered, asked, history>>

Opens(c) == Unwrapped(job[c].got, job[c].kit, job[c].bare)

\* Mutant of RestorePop: the recovery's socket stays.
RestoreKeyOnly(c) ==
  /\ popKey' = IF Rebound(c) THEN job[c].orig ELSE popKey
  /\ UNCHANGED sdk
  /\ job' = Settled(c, job)

\* The finally block: the PoP key that was there at the start comes back, and
\* whatever socket there is by now goes.
RestorePop(c) ==
  IF Rebound(c)
  THEN /\ popKey' = job[c].orig
       /\ sdk' = NoSocket
       /\ job' = Settled(c, Orphaned(job, OnSdk))
  ELSE job' = Settled(c, job) /\ UNCHANGED <<popKey, sdk>>

EndRecovery(c) ==
  /\ job[c].kind = "recover"
  /\ \/ /\ at[c] = "opening" /\ Opens(c)
        /\ at' = [at EXCEPT ![c] = "done"]
        /\ UNCHANGED why
     \/ /\ at[c] = "opening" /\ ~Opens(c)
        /\ at' = [at EXCEPT ![c] = "failed"]
        /\ why' = [why EXCEPT ![c] = "sealed"]
     \/ /\ at[c] = "waiting"
        /\ at' = [at EXCEPT ![c] = "failed"]
        /\ why' = [why EXCEPT ![c] = "timeout"]
  /\ RestorePop(c)
  /\ UNCHANGED <<secret, cred, musig, priv, h1, disposed, kits, server,
                 registered, asked, history>>

-----------------------------------------------------------------------------
\* getAuthorizationStatus takes the socket before its first await and does not
\* look whether the client is disposed.
BeginStatus(c, k) ==
  /\ at[c] = "ready" /\ "status" \in KindsOf[c]
  /\ Cardinality({d \in Call : Running(d)}) < MaxConcurrent
  /\ RequireSocket
  /\ To(c, "hashed", [Begun(c, "status", k) EXCEPT !.live = TRUE, !.pop = sdk'.pop])
  /\ mixed' = (mixed \/ \E d \in Call : Rebound(d))
  /\ UNCHANGED <<secret, cred, popKey, musig, priv, h1, disposed, kits, server,
                 registered, asked, cut, crossed, raced>>

RequestStatus(c) ==
  /\ at[c] = "hashed" /\ job[c].kind = "status"
  /\ To(c, "waiting", job[c])
  /\ UNCHANGED <<secret, client, kits, server, registered, asked, history>>

StatusArrives(c) ==
  /\ at[c] = "waiting" /\ job[c].kind = "status" /\ Served(c)
  /\ Resolve(c)
  /\ UNCHANGED <<secret, client, kits, server, registered, asked, history>>

\* A timer runs out, the server answers with an error or the network fails.
GiveUp(c) ==
  /\ at[c] \in {"requested", "connecting", "fetching", "registering", "waiting", "posting", "patching"}
  /\ job[c].kind # "recover"
  /\ Reject(c, "timeout")
  /\ UNCHANGED <<secret, client, kits, server, registered, asked, history>>

\* disconnect(): both sockets go, and with them every answer.
DropSockets ==
  /\ sdk' = NoSocket /\ musig' = NoSocket
  /\ job' = Orphaned(job, OnSdk \cup {"requested"})
  /\ asked' = {}

Disconnect ==
  /\ {sdk, musig} # {NoSocket}
  /\ DropSockets
  /\ UNCHANGED <<secret, cred, popKey, priv, h1, disposed, at, why, kits, server,
                 registered, history>>

\* Mutant of Dispose: the sockets stay.
DisposeSecrets ==
  /\ ~disposed
  /\ priv' = "scrambled"
  /\ cred' = "blank"
  /\ disposed' = TRUE
  /\ cut' = (cut \/ \E c \in Call : Running(c))
  /\ UNCHANGED <<secret, popKey, sdk, musig, h1, at, job, asked, why, kits, server,
                 registered, mixed, crossed, raced>>

Dispose ==
  /\ ~disposed
  /\ DropSockets
  /\ priv' = "scrambled"
  /\ cred' = "blank"
  /\ disposed' = TRUE
  /\ cut' = (cut \/ \E c \in Call : Running(c))
  /\ UNCHANGED <<secret, popKey, h1, at, why, kits, server, registered, mixed, crossed, raced>>

-----------------------------------------------------------------------------
Next ==
  \/ \E c \in Call, k \in Key :
       \/ \E kind \in Kinds : Begin(c, kind, k) \/ BeginDisposed(c, kind, k)
       \/ BeginStatus(c, k)
  \/ ShareArrives \/ Connect \/ Disconnect \/ Dispose
  \/ \E c \in Call :
       \/ RequestShare(c) \/ DeriveSalt(c) \/ Aggregate(c) \/ AwaitHandshake(c)
       \/ FetchKeyInfo(c) \/ KeyInfoArrives(c) \/ Seal(c) \/ Register(c) \/ Registered(c)
       \/ RequestKmc(c) \/ KmcArrives(c) \/ Open(c) \/ Export(c) \/ Recompile(c)
       \/ PostContainer(c) \/ ContainerStored(c) \/ RootPatched(c)
       \/ RecoverFromKit(c) \/ RecoveryArrives(c) \/ EndRecovery(c)
       \/ RequestStatus(c) \/ StatusArrives(c) \/ GiveUp(c)

Spec == Init /\ [][Next]_vars

-----------------------------------------------------------------------------
(* What must hold                                                          *)

\* Once no recovery runs, the client and its sockets sign with its own PoP key,
\* provided no recovery ran beside another call.
PopRestored ==
  ~mixed /\ (\A c \in Call : ~Rebound(c)) =>
    /\ popKey = secret
    /\ sdk.pop \in {secret, "none"} /\ musig.pop \in {secret, "none"}

\* The same without that provision, as docs/recovery.md:124 has it ("so
\* subsequent calls on the same client revert to the user's own credentials").
OwnPopAfterRecovery == (\A c \in Call : ~Rebound(c)) => popKey = secret

\* The user can open every stored key, by its auth slot and by enc_kek2, and
\* derive its salt, unless dispose() or a recovery overtook the call that
\* sealed it.
SealedForOwner ==
  ~mixed /\ ~cut =>
    \A k \in Key : server[k] # NoKey =>
      server[k].slot = "right" /\ server[k].kek = "right" /\ server[k].salt = "right"

\* A key is built from the server share of its own network, unless two key
\* requests were open at once: key_request_response says for neither.
ShareOfOwnNetwork ==
  ~crossed => \A k \in Key : server[k] # NoKey => server[k].share = k

\* The registered root is behind the stored container only while an update is
\* between its two calls or failed there, or updates of the key overlapped.
RootFollowsContainer ==
  \A k \in Key \ raced :
    server[k] # NoKey /\ server[k].root # server[k].policy =>
      server[k].policy \in Call /\ at[server[k].policy] \in {"patching", "failed"}

\* The registered commitment is the container's client key, or the key the
\* client loaded before: an update uploads what the client holds.
CommitmentIsLoaded ==
  ~cut => \A k \in Key : server[k] # NoKey => server[k].h1 \in {server[k].client, h1}

\* A recovery to which the server returned enc_kek2 opens the container, however
\* often the key was updated since the kit was exported.
KitSurvivesUpdates ==
  ~mixed /\ ~cut => \A c \in Call :
    job[c].kind = "recover" /\ at[c] = "opening" /\ ~job[c].bare => Opens(c)

\* What a user can open: every stored container by the credentials, and the one
\* a recovery fetched by any kit.
OwnerOpens == SealedForOwner /\ KitSurvivesUpdates

\* What the server stores under a key belongs together: the share of the key's
\* network, the root of the container's policy and the commitment of a client
\* key the client holds.
StoredCoherent == ShareOfOwnNetwork /\ RootFollowsContainer /\ CommitmentIsLoaded

\* The client makes no call whose PoP key the server does not know yet.
NoEarlyCall == ~mixed => \A c \in Call : why[c] # "refused"

\* A client disposed of between calls holds no key and no socket, and no call
\* brings them back but getAuthorizationStatus.
DisposedIsQuiet ==
  disposed /\ ~cut /\ (\A c \in Call : job[c].kind # "status") =>
    sdk = NoSocket /\ musig = NoSocket /\ priv = "scrambled"

=============================================================================
