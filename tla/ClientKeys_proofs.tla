--------------------------- MODULE ClientKeys_proofs ---------------------------
(***************************************************************************)
(* Proofs about ClientKeys.  The type of a call's locals depends on the    *)
(* await it is in (StageSound); the other invariants are proved on top of  *)
(* that one, each for what it relates: the PoP key and the sockets         *)
(* (PopSound), a disposed client (QuietSound), the PoP key a call signs    *)
(* with and the one the server knows (KnownSound), who can open what is    *)
(* sealed (SealSound), the network of a share (ShareSound), the root and   *)
(* its container (RootSound), the commitment and its key (CommitSound).    *)
(***************************************************************************)
EXTENDS ClientKeys, TLAPS

Pop == {"right", "lost"}
SecretOrNone == Secrets \cup {"none"}

JobType ==
  [kind : Kinds \cup {"none"}, key : Key \cup {"none"}, priv : ClientKey,
   share : Key \cup {"none"}, salt : SecretOrNone, kek : SecretOrNone,
   slot : SecretOrNone, h1 : ClientKey, pop : Pop \cup {"none"}, live : BOOLEAN,
   orig : Pop \cup {"none"}, got : StoredKey \cup {NoKey}, kit : Kit \cup {Old},
   bare : BOOLEAN]

\* What the locals of a call hold at each await.
StageSound(c) ==
  LET j == job[c]
      s == at[c]
  IN  /\ s = "ready" => j.kind = "none"
      /\ s # "ready" => j.kind \in Kinds /\ j.key \in Key
      /\ j.orig # "none" => j.kind = "recover" /\ s \in {"waiting", "opening"}
      /\ s \in {"requested", "answered"} => j.kind = "create"
      /\ s \in {"connecting", "fetching"} => j.kind = "createAuth"
      /\ s = "registering" => j.kind \in {"create", "createAuth"}
      /\ s \in {"posting", "patching"} => j.kind = "update"
      /\ s \in {"salting", "deriving", "sealing"} => j.kind \in {"create", "createAuth", "update"}
      /\ s = "waiting" => j.kind \in {"get", "export", "update", "recover", "status"}
      /\ s = "opening" => j.kind \in {"get", "export", "update", "recover"} /\ j.got \in StoredKey
      /\ s = "opening" /\ j.kind # "recover" => j.kek \in Secrets
      /\ s \in {"waiting", "opening"} /\ j.kind = "recover" => j.kit \in Kit
      /\ s \in {"salting", "connecting", "fetching", "deriving", "sealing", "registering", "posting"}
           => j.salt \in Secrets
      /\ s = "answered" \/ (s = "salting" /\ j.kind # "createAuth") => j.share \in Key
      /\ s \in {"deriving", "sealing", "registering", "posting"} => j.share \in Key /\ j.kek \in Secrets
      /\ s \in {"sealing", "registering", "posting"} => j.slot \in Secrets
      /\ j.kind = "update"
           /\ s \in {"opening", "salting", "deriving", "sealing", "posting", "patching"}
           => server[j.key] # NoKey

JobsSound ==
  /\ at \in [Call -> Stages]
  /\ job \in [Call -> JobType]
  /\ \A c \in Call : StageSound(c)

StateSound ==
  /\ secret \in Pop
  /\ cred \in {secret, "blank"}
  /\ popKey \in Pop
  /\ sdk \in Socket \cup {NoSocket} /\ musig \in Socket \cup {NoSocket}
  /\ priv \in ClientKey /\ h1 \in ClientKey
  /\ disposed \in BOOLEAN
  /\ why \in [Call -> {"none", "disposed", "timeout", "refused", "server", "sealed"}]
  /\ kits \subseteq Kit
  /\ server \in [Key -> StoredKey \cup {NoKey}]
  /\ registered \in {"none", "right", "lost"}
  /\ asked \subseteq Call \X Key
  /\ mixed \in BOOLEAN /\ cut \in BOOLEAN /\ crossed \in BOOLEAN /\ raced \subseteq Key

TypeSound == JobsSound /\ StateSound

-----------------------------------------------------------------------------
(* Types.                                                                  *)

LEMMA StoredIsKey == NoKey \notin StoredKey
<1> SUFFICES ASSUME NoKey \in StoredKey PROVE FALSE
  OBVIOUS
<1>1. DOMAIN NoKey = {"policy"}
  BY DEF NoKey
<1>2. "root" \in DOMAIN NoKey
  BY DEF StoredKey
<1> QED
  BY <1>1, <1>2

LEMMA NoJobTyped == NoJob \in JobType
  BY DEF NoJob, JobType, SecretOrNone, ClientKey

LEMMA TypeInit == Init => TypeSound
<1> SUFFICES ASSUME Init PROVE TypeSound
  OBVIOUS
<1>1. \A k \in Key : OldKey(k) \in StoredKey
  BY DEF OldKey, StoredKey, Version, ClientKey, Secrets
<1>2. server \in [Key -> StoredKey \cup {NoKey}]
  <2>1. CASE server = [k \in Key |-> NoKey]
    BY <2>1
  <2>2. CASE server = [k \in Key |-> IF k \in Stored THEN OldKey(k) ELSE NoKey]
    BY <1>1, <2>2
  <2> QED
    BY <2>1, <2>2 DEF Init
<1>3. kits \subseteq Kit
  <2>1. \A k \in Key, pop \in {"right", "none"} :
          [key |-> k, kek |-> "right", cek |-> Old, pop |-> pop, api |-> "right"] \in Kit
    BY DEF Kit, Version, Secrets
  <2>2. CASE kits = {}
    BY <2>2
  <2>3. CASE \E pop \in {"right", "none"} :
          kits = {[key |-> k, kek |-> "right", cek |-> Old, pop |-> pop, api |-> "right"] :
                    k \in Stored}
    <3>1. Stored \subseteq Key
      BY KeysAssumption
    <3> QED
      BY <2>1, <2>3, <3>1
  <2> QED
    BY <2>2, <2>3 DEF Init
<1>4. JobsSound
  <2>1. job \in [Call -> JobType] /\ at \in [Call -> Stages]
    BY NoJobTyped DEF Init, Stages
  <2>2. \A c \in Call : at[c] = "ready" /\ job[c].kind = "none" /\ job[c].orig = "none"
    BY DEF Init, NoJob
  <2> QED
    BY <2>1, <2>2 DEF JobsSound, StageSound
<1> QED
  BY <1>2, <1>3, <1>4 DEF Init, TypeSound, StateSound, Pop, ClientKey, NoSocket

\* Keys are stored and never removed.
Kept == \A k \in Key : server[k] # NoKey => server'[k] # NoKey

\* The locals of the calls before one of them moves: a socket may have gone.
Bases == {job} \cup {Orphaned(job, S) : S \in SUBSET Stages}

LEMMA LiveTyped ==
  ASSUME NEW j \in JobType, NEW b \in BOOLEAN
  PROVE  [j EXCEPT !.live = b] \in JobType
  BY DEF JobType

LEMMA BaseSound ==
  ASSUME TypeSound, NEW base \in Bases
  PROVE  /\ base \in [Call -> JobType]
         /\ \A d \in Call : base[d] \in {job[d], [job[d] EXCEPT !.live = FALSE]}
<1>1. CASE base = job
  BY <1>1 DEF TypeSound, JobsSound
<1>2. CASE \E S \in SUBSET Stages : base = Orphaned(job, S)
  <2>1. PICK S \in SUBSET Stages : base = Orphaned(job, S)
    BY <1>2
  <2>2. \A d \in Call : job[d] \in JobType /\ [job[d] EXCEPT !.live = FALSE] \in JobType
    <3>1. \A d \in Call : job[d] \in JobType
      BY DEF TypeSound, JobsSound
    <3> QED
      BY <3>1, LiveTyped
  <2> QED
    BY <2>1, <2>2 DEF Orphaned
<1> QED
  BY <1>1, <1>2 DEF Bases

\* A call that stays is as sound as before.
LEMMA CallStays ==
  ASSUME TypeSound, NEW d \in Call, Kept, at'[d] = at[d],
         job'[d] \in {job[d], [job[d] EXCEPT !.live = FALSE]}
  PROVE  StageSound(d)'
<1>1. StageSound(d) /\ job[d] \in JobType
  BY DEF TypeSound, JobsSound
<1>2. /\ job'[d].kind = job[d].kind /\ job'[d].key = job[d].key /\ job'[d].orig = job[d].orig
      /\ job'[d].got = job[d].got /\ job'[d].kek = job[d].kek /\ job'[d].kit = job[d].kit
      /\ job'[d].salt = job[d].salt /\ job'[d].share = job[d].share
      /\ job'[d].slot = job[d].slot
  BY <1>1 DEF JobType
<1> QED
  BY <1>1, <1>2 DEF StageSound, Kept

\* A call moves; the others stay.
LEMMA OneJob ==
  ASSUME TypeSound, NEW c \in Call, NEW s \in Stages, NEW j \in JobType, Kept,
         NEW base \in Bases,
         at' = [at EXCEPT ![c] = s], job' = [base EXCEPT ![c] = j],
         at'[c] = s /\ job'[c] = j => StageSound(c)'
  PROVE  JobsSound'
<1>1. /\ base \in [Call -> JobType]
      /\ \A d \in Call : base[d] \in {job[d], [job[d] EXCEPT !.live = FALSE]}
  BY BaseSound
<1>2. at' \in [Call -> Stages] /\ job' \in [Call -> JobType]
  BY <1>1 DEF TypeSound, JobsSound
<1>3. StageSound(c)'
  BY <1>1 DEF TypeSound, JobsSound
<1>4. ASSUME NEW d \in Call \ {c} PROVE StageSound(d)'
  <2>1. at'[d] = at[d] /\ job'[d] = base[d]
    BY <1>1 DEF TypeSound, JobsSound
  <2> QED
    BY <1>1, <2>1, CallStays
<1> QED
  BY <1>2, <1>3, <1>4 DEF JobsSound

\* A socket goes and no call moves.
LEMMA NoneMoves ==
  ASSUME TypeSound, UNCHANGED at, Kept, job' \in Bases
  PROVE  JobsSound'
<1>1. /\ job' \in [Call -> JobType]
      /\ \A d \in Call : job'[d] \in {job[d], [job[d] EXCEPT !.live = FALSE]}
  BY BaseSound
<1>2. \A d \in Call : StageSound(d)'
  BY <1>1, CallStays
<1> QED
  BY <1>1, <1>2 DEF TypeSound, JobsSound

\* A promise settles.
LEMMA OneSettles ==
  ASSUME TypeSound, NEW c \in Call, NEW s \in {"done", "failed"}, Kept, at[c] # "ready",
         NEW base \in Bases, at' = [at EXCEPT ![c] = s], job' = Settled(c, base)
  PROVE  JobsSound'
<1> DEFINE j == [NoJob EXCEPT !.kind = job[c].kind, !.key = job[c].key]
<1>1. job[c].kind \in Kinds /\ job[c].key \in Key /\ job[c] \in JobType
  BY DEF TypeSound, JobsSound, StageSound
<1>2. /\ j \in JobType /\ j.kind = job[c].kind /\ j.key = job[c].key /\ j.orig = "none"
  <2>1. j \in JobType
    <3>1. \A kind \in Kinds, k \in Key :
            [NoJob EXCEPT !.kind = kind, !.key = k] \in JobType
      BY DEF NoJob, JobType, SecretOrNone, ClientKey
    <3> QED
      BY <1>1, <3>1
  <2>2. j.kind = job[c].kind /\ j.key = job[c].key /\ j.orig = "none"
    BY DEF NoJob
  <2> QED
    BY <2>1, <2>2
<1>3. job' = [base EXCEPT ![c] = j]
  BY DEF Settled
<1> HIDE DEF j
<1>4. ASSUME at'[c] = s, job'[c] = j PROVE StageSound(c)'
  BY <1>1, <1>2, <1>4 DEF StageSound
<1>5. s \in Stages
  BY DEF Stages
<1> QED
  BY <1>2, <1>3, <1>4, <1>5, OneJob

Reasons == {"none", "disposed", "timeout", "refused", "server", "sealed"}

\* The three ways in which an action moves its call.
LEMMA ToStep ==
  ASSUME TypeSound, NEW c \in Call, NEW s \in Stages, NEW j \in JobType, Kept,
         To(c, s, j), at'[c] = s /\ job'[c] = j => StageSound(c)'
  PROVE  JobsSound' /\ why' = why
  BY OneJob DEF To, Bases

LEMMA RejectStep ==
  ASSUME TypeSound, NEW c \in Call, NEW reason \in Reasons, Kept, at[c] # "ready",
         Reject(c, reason)
  PROVE  JobsSound' /\ why' \in [Call -> Reasons]
<1>1. JobsSound'
  BY OneSettles DEF Reject, Bases
<1> QED
  BY <1>1 DEF Reject, Reasons, TypeSound, StateSound

LEMMA ResolveStep ==
  ASSUME TypeSound, NEW c \in Call, Kept, at[c] # "ready", Resolve(c)
  PROVE  JobsSound' /\ why' = why
<1>1. JobsSound'
  BY OneSettles DEF Resolve, Bases
<1> QED
  BY <1>1 DEF Resolve

\* A step that keeps the client and the server.
LEMMA StateKept ==
  ASSUME TypeSound, UNCHANGED <<secret, client, kits, server, registered, asked>>,
         mixed' = mixed, cut' = cut, crossed' = crossed, raced' \subseteq Key,
         why' \in [Call -> Reasons]
  PROVE  StateSound' /\ Kept
  BY DEF TypeSound, StateSound, client, Kept, Reasons

LEMMA WhyTyped == TypeSound => why \in [Call -> Reasons]
  BY DEF TypeSound, StateSound, Reasons

LEMMA CallFacts ==
  ASSUME TypeSound, NEW c \in Call
  PROVE  /\ at[c] \in Stages /\ job[c] \in JobType /\ StageSound(c)
         /\ cred \in Secrets /\ popKey \in Pop /\ priv \in ClientKey /\ h1 \in ClientKey
         /\ server \in [Key -> StoredKey \cup {NoKey}]
         /\ sdk \in Socket \cup {NoSocket}
  BY DEF TypeSound, StateSound, JobsSound, Secrets, Pop

LEMMA FetchKeyInfoType ==
  ASSUME TypeSound, NEW c \in Call, FetchKeyInfo(c)
  PROVE  TypeSound'
<1> DEFINE j == [job[c] EXCEPT !.pop = popKey, !.live = FALSE]
<1>1. /\ job[c] \in JobType /\ StageSound(c) /\ cred \in Secrets /\ popKey \in Pop
      /\ priv \in ClientKey /\ h1 \in ClientKey
  BY CallFacts
<1>2. j \in JobType
  BY <1>1 DEF FetchKeyInfo, JobType, SecretOrNone, StageSound
<1>3. StateSound' /\ Kept
  BY StateKept, WhyTyped DEF FetchKeyInfo, To, history, TypeSound, StateSound
<1>4. To(c, "fetching", j)
  BY DEF FetchKeyInfo
<1>5. ASSUME at'[c] = "fetching", job'[c] = j PROVE StageSound(c)'
  BY <1>1, <1>3, <1>5 DEF FetchKeyInfo, StageSound, JobType, Kept
<1>6. "fetching" \in Stages
  BY DEF Stages
<1> HIDE DEF j
<1> QED
  BY <1>2, <1>3, <1>4, <1>5, <1>6, ToStep DEF TypeSound

LEMMA SealType ==
  ASSUME TypeSound, NEW c \in Call, Seal(c)
  PROVE  TypeSound'
<1> DEFINE j == [job[c] EXCEPT !.slot = cred]
<1>1. /\ job[c] \in JobType /\ StageSound(c) /\ cred \in Secrets /\ popKey \in Pop
      /\ priv \in ClientKey /\ h1 \in ClientKey
  BY CallFacts
<1>2. j \in JobType
  BY <1>1 DEF Seal, JobType, SecretOrNone, StageSound
<1>3. StateSound' /\ Kept
  BY StateKept, WhyTyped DEF Seal, To, history, TypeSound, StateSound
<1>4. To(c, "sealing", j)
  BY DEF Seal
<1>5. ASSUME at'[c] = "sealing", job'[c] = j PROVE StageSound(c)'
  BY <1>1, <1>3, <1>5 DEF Seal, StageSound, JobType, Kept
<1>6. "sealing" \in Stages
  BY DEF Stages
<1> HIDE DEF j
<1> QED
  BY <1>2, <1>3, <1>4, <1>5, <1>6, ToStep DEF TypeSound

LEMMA RecompileType ==
  ASSUME TypeSound, NEW c \in Call, Recompile(c)
  PROVE  TypeSound'
<1> DEFINE j == [job[c] EXCEPT !.kek = cred]
<1>1. /\ job[c] \in JobType /\ StageSound(c) /\ cred \in Secrets /\ popKey \in Pop
      /\ priv \in ClientKey /\ h1 \in ClientKey
  BY CallFacts
<1>2. j \in JobType
  BY <1>1 DEF Recompile, JobType, SecretOrNone, StageSound
<1>3. StateSound' /\ Kept
  BY StateKept, WhyTyped DEF Recompile, To, history, TypeSound, StateSound
<1>4. To(c, "deriving", j)
  BY DEF Recompile
<1>5. ASSUME at'[c] = "deriving", job'[c] = j PROVE StageSound(c)'
  BY <1>1, <1>3, <1>5 DEF Recompile, StageSound, JobType, Kept
<1>6. "deriving" \in Stages
  BY DEF Stages
<1> HIDE DEF j
<1> QED
  BY <1>2, <1>3, <1>4, <1>5, <1>6, ToStep DEF TypeSound

LEMMA PostContainerType ==
  ASSUME TypeSound, NEW c \in Call, PostContainer(c)
  PROVE  TypeSound'
<1> DEFINE j == [job[c] EXCEPT !.pop = popKey, !.h1 = h1]
<1>1. /\ job[c] \in JobType /\ StageSound(c) /\ cred \in Secrets /\ popKey \in Pop
      /\ priv \in ClientKey /\ h1 \in ClientKey
  BY CallFacts
<1>2. j \in JobType
  BY <1>1 DEF PostContainer, JobType, SecretOrNone, StageSound
<1>3. StateSound' /\ Kept
  BY CallFacts, StateKept, WhyTyped DEF PostContainer, To, StageSound, TypeSound, StateSound, TypeSound, StateSound
<1>4. To(c, "posting", j)
  BY DEF PostContainer
<1>5. ASSUME at'[c] = "posting", job'[c] = j PROVE StageSound(c)'
  BY <1>1, <1>3, <1>5 DEF PostContainer, StageSound, JobType, Kept
<1>6. "posting" \in Stages
  BY DEF Stages
<1> HIDE DEF j
<1> QED
  BY <1>2, <1>3, <1>4, <1>5, <1>6, ToStep DEF TypeSound

LEMMA RequestStatusType ==
  ASSUME TypeSound, NEW c \in Call, RequestStatus(c)
  PROVE  TypeSound'
<1> DEFINE j == job[c]
<1>1. /\ job[c] \in JobType /\ StageSound(c) /\ cred \in Secrets /\ popKey \in Pop
      /\ priv \in ClientKey /\ h1 \in ClientKey
  BY CallFacts
<1>2. j \in JobType
  BY <1>1 DEF RequestStatus, JobType, SecretOrNone, StageSound
<1>3. StateSound' /\ Kept
  BY StateKept, WhyTyped DEF RequestStatus, To, history, TypeSound, StateSound
<1>4. To(c, "waiting", j)
  BY DEF RequestStatus
<1>5. ASSUME at'[c] = "waiting", job'[c] = j PROVE StageSound(c)'
  BY <1>1, <1>3, <1>5 DEF RequestStatus, StageSound, JobType, Kept
<1>6. "waiting" \in Stages
  BY DEF Stages
<1> HIDE DEF j
<1> QED
  BY <1>2, <1>3, <1>4, <1>5, <1>6, ToStep DEF TypeSound

\* A call with a sound record of its kind begins.
LEMMA BegunTyped ==
  ASSUME NEW c \in Call, NEW kind \in Kinds, NEW k \in Key
  PROVE  /\ Begun(c, kind, k) \in JobType
         /\ Begun(c, kind, k).kind = kind /\ Begun(c, kind, k).key = k
         /\ Begun(c, kind, k).orig = "none"
  BY DEF Begun, NoJob, JobType, SecretOrNone, ClientKey

LEMMA BeginType ==
  ASSUME TypeSound, NEW c \in Call, NEW kind \in Kinds, NEW k \in Key, Begin(c, kind, k)
  PROVE  TypeSound'
<1>1. StateSound' /\ Kept
  BY DEF Begin, EnsureKeypair, To, TypeSound, StateSound, Kept, ClientKey
<1>2. ASSUME at'[c] = "hashed", job'[c] = Begun(c, kind, k) PROVE StageSound(c)'
  BY <1>2, BegunTyped DEF StageSound
<1>3. "hashed" \in Stages
  BY DEF Stages
<1> QED
  BY <1>1, <1>2, <1>3, BegunTyped, ToStep DEF TypeSound, Begin

LEMMA BeginDisposedType ==
  ASSUME TypeSound, NEW c \in Call, NEW kind \in Kinds, NEW k \in Key,
         BeginDisposed(c, kind, k)
  PROVE  TypeSound'
<1>1. StateSound' /\ Kept
  <2>1. why' \in [Call -> Reasons]
    BY WhyTyped DEF BeginDisposed, Reasons
  <2> QED
    BY <2>1, StateKept DEF BeginDisposed, history, TypeSound, StateSound
<1>2. ASSUME at'[c] = "failed", job'[c] = Begun(c, kind, k) PROVE StageSound(c)'
  BY <1>2, BegunTyped DEF StageSound
<1>3. "failed" \in Stages
  BY DEF Stages
<1>4. JobsSound'
  BY <1>1, <1>2, <1>3, BegunTyped, OneJob DEF BeginDisposed, Bases
<1> QED
  BY <1>1, <1>4 DEF TypeSound

\* _requireSocket leaves a socket in place.
LEMMA SocketThere ==
  ASSUME TypeSound, RequireSocket
  PROVE  sdk' \in Socket /\ sdk'.pop \in Pop
<1>1. popKey \in Pop
  BY DEF TypeSound, StateSound
<1>2. sdk' \in Socket
  BY <1>1 DEF RequireSocket, TypeSound, StateSound, Socket, Pop
<1> QED
  BY <1>2 DEF Socket, Pop

LEMMA BeginStatusType ==
  ASSUME TypeSound, NEW c \in Call, NEW k \in Key, BeginStatus(c, k)
  PROVE  TypeSound'
<1> DEFINE b == Begun(c, "status", k)
           j == [b EXCEPT !.live = TRUE, !.pop = sdk'.pop]
<1>1. sdk' \in Socket /\ sdk'.pop \in Pop
  BY SocketThere DEF BeginStatus
<1>2. StateSound' /\ Kept
  BY <1>1 DEF BeginStatus, To, TypeSound, StateSound, Kept
<1>3. "status" \in Kinds
  BY DEF Kinds
<1>4. b \in JobType /\ b.kind = "status" /\ b.key = k /\ b.orig = "none"
  BY <1>3, BegunTyped
<1>5. To(c, "hashed", j)
  BY DEF BeginStatus
<1> HIDE DEF b
<1>6. j \in JobType /\ j.kind = "status" /\ j.key = k /\ j.orig = "none"
  BY <1>1, <1>4 DEF JobType
<1> HIDE DEF j
<1>7. ASSUME at'[c] = "hashed", job'[c] = j PROVE StageSound(c)'
  BY <1>3, <1>6, <1>7 DEF StageSound
<1>8. "hashed" \in Stages
  BY DEF Stages
<1> QED
  BY <1>2, <1>5, <1>6, <1>7, <1>8, ToStep DEF TypeSound

LEMMA AwaitHandshakeType ==
  ASSUME TypeSound, NEW c \in Call, AwaitHandshake(c)
  PROVE  TypeSound'
<1> DEFINE j == [job[c] EXCEPT !.live = TRUE]
<1>1. /\ job[c] \in JobType /\ StageSound(c) /\ priv \in ClientKey /\ h1 \in ClientKey
  BY CallFacts
<1>2. sdk' \in Socket /\ sdk'.pop \in Pop
  BY SocketThere DEF AwaitHandshake
<1>3. StateSound' /\ Kept
  BY <1>2 DEF AwaitHandshake, To, TypeSound, StateSound, Kept, history
<1>4. j \in JobType
  BY <1>1, <1>2 DEF AwaitHandshake, JobType, SecretOrNone
<1>5. To(c, "connecting", j)
  BY DEF AwaitHandshake
<1>6. ASSUME at'[c] = "connecting", job'[c] = j PROVE StageSound(c)'
  BY <1>1, <1>3, <1>6 DEF AwaitHandshake, StageSound, JobType, Kept
<1>7. "connecting" \in Stages
  BY DEF Stages
<1> HIDE DEF j
<1> QED
  BY <1>3, <1>4, <1>5, <1>6, <1>7, ToStep DEF TypeSound

LEMMA RegisterType ==
  ASSUME TypeSound, NEW c \in Call, Register(c)
  PROVE  TypeSound'
<1> DEFINE j == [job[c] EXCEPT !.live = TRUE, !.pop = sdk'.pop,
                    !.h1 = IF job[c].kind = "create" THEN h1 ELSE job[c].priv]
<1>1. /\ job[c] \in JobType /\ StageSound(c) /\ priv \in ClientKey /\ h1 \in ClientKey
  BY CallFacts
<1>2. sdk' \in Socket /\ sdk'.pop \in Pop
  BY SocketThere DEF Register
<1>3. StateSound' /\ Kept
  BY <1>2 DEF Register, To, TypeSound, StateSound, Kept, history
<1>4. j \in JobType
  <2> DEFINE q == IF job[c].kind = "create" THEN h1 ELSE job[c].priv
  <2>1. q \in ClientKey
    BY <1>1 DEF JobType
  <2> HIDE DEF q
  <2>2. [job[c] EXCEPT !.live = TRUE, !.pop = sdk'.pop, !.h1 = q] \in JobType
    BY <1>1, <1>2, <2>1 DEF JobType
  <2> QED
    BY <2>2 DEF q
<1>5. To(c, "registering", j)
  BY DEF Register
<1>6. ASSUME at'[c] = "registering", job'[c] = j PROVE StageSound(c)'
  BY <1>1, <1>3, <1>6 DEF Register, StageSound, JobType, Kept
<1>7. "registering" \in Stages
  BY DEF Stages
<1> HIDE DEF j
<1> QED
  BY <1>3, <1>4, <1>5, <1>6, <1>7, ToStep DEF TypeSound

LEMMA RequestKmcType ==
  ASSUME TypeSound, NEW c \in Call, RequestKmc(c)
  PROVE  TypeSound'
<1> DEFINE j == [job[c] EXCEPT !.live = TRUE, !.pop = sdk'.pop]
<1>1. /\ job[c] \in JobType /\ StageSound(c) /\ priv \in ClientKey /\ h1 \in ClientKey
  BY CallFacts
<1>2. sdk' \in Socket /\ sdk'.pop \in Pop
  BY SocketThere DEF RequestKmc
<1>3. StateSound' /\ Kept
  BY <1>2 DEF RequestKmc, To, TypeSound, StateSound, Kept, history
<1>4. j \in JobType
  BY <1>1, <1>2 DEF RequestKmc, JobType, SecretOrNone
<1>5. To(c, "waiting", j)
  BY DEF RequestKmc
<1>6. ASSUME at'[c] = "waiting", job'[c] = j PROVE StageSound(c)'
  BY <1>1, <1>3, <1>6 DEF RequestKmc, StageSound, JobType, Kept
<1>7. "waiting" \in Stages
  BY DEF Stages
<1> HIDE DEF j
<1> QED
  BY <1>3, <1>4, <1>5, <1>6, <1>7, ToStep DEF TypeSound

LEMMA RequestShareType ==
  ASSUME TypeSound, NEW c \in Call, RequestShare(c)
  PROVE  TypeSound'
<1> DEFINE j == [job[c] EXCEPT !.priv = priv, !.live = TRUE]
<1>1. /\ job[c] \in JobType /\ StageSound(c) /\ priv \in ClientKey /\ popKey \in Pop
      /\ job[c].key \in Key
  BY CallFacts DEF RequestShare, StageSound
<1>2. StateSound' /\ Kept
  <2>1. musig' \in Socket \cup {NoSocket}
    BY <1>1 DEF RequestShare, TypeSound, StateSound, Socket, Pop
  <2>2. asked' \subseteq Call \X Key
    BY <1>1 DEF RequestShare, TypeSound, StateSound
  <2>3. crossed' \in BOOLEAN
    BY DEF RequestShare, TypeSound, StateSound
  <2> QED
    BY <2>1, <2>2, <2>3 DEF RequestShare, To, TypeSound, StateSound, Kept
<1>3. j \in JobType
  BY <1>1 DEF JobType
<1>4. To(c, "requested", j)
  BY DEF RequestShare
<1>5. ASSUME at'[c] = "requested", job'[c] = j PROVE StageSound(c)'
  BY <1>1, <1>2, <1>5 DEF RequestShare, StageSound, JobType, Kept
<1>6. "requested" \in Stages
  BY DEF Stages
<1> HIDE DEF j
<1> QED
  BY <1>2, <1>3, <1>4, <1>5, <1>6, ToStep DEF TypeSound

\* Every listener takes the answer, and each of them asked for a share.
LEMMA ShareArrivesType ==
  ASSUME TypeSound, ShareArrives
  PROVE  TypeSound'
<1>1. PICK q \in asked :
        /\ asked' = asked \ {q}
        /\ at' = [c \in Call |-> IF c \in Listening THEN "answered" ELSE at[c]]
        /\ job' = [c \in Call |-> IF c \in Listening
                                  THEN [job[c] EXCEPT !.share = q[2], !.live = FALSE]
                                  ELSE job[c]]
  BY DEF ShareArrives
<1>2. q[2] \in Key
  BY DEF TypeSound, StateSound
<1>3. StateSound' /\ Kept
  BY <1>1 DEF ShareArrives, TypeSound, StateSound, client, history, Kept
<1>4. ASSUME NEW c \in Call
      PROVE  at'[c] \in Stages /\ job'[c] \in JobType /\ StageSound(c)'
  <2>1. at[c] \in Stages /\ job[c] \in JobType /\ StageSound(c)
    BY CallFacts
  <2>2. CASE c \in Listening
    <3>1. at[c] = "requested" /\ at'[c] = "answered"
      BY <1>1, <2>2 DEF Listening
    <3>2. job'[c] = [job[c] EXCEPT !.share = q[2], !.live = FALSE]
      BY <1>1, <2>2
    <3>3. job'[c] \in JobType
      BY <1>2, <2>1, <3>2 DEF JobType
    <3>4. /\ job'[c].kind = job[c].kind /\ job'[c].key = job[c].key
          /\ job'[c].orig = job[c].orig /\ job'[c].share = q[2]
      BY <2>1, <3>2 DEF JobType
    <3> QED
      BY <1>2, <2>1, <3>1, <3>3, <3>4 DEF StageSound, Stages
  <2>3. CASE c \notin Listening
    <3>1. at'[c] = at[c] /\ job'[c] = job[c]
      BY <1>1, <2>3
    <3> QED
      BY <1>3, <2>1, <3>1, CallStays
  <2> QED
    BY <2>2, <2>3
<1>5. JobsSound'
  BY <1>1, <1>4 DEF JobsSound
<1> QED
  BY <1>3, <1>5 DEF TypeSound

LEMMA DeriveSaltType ==
  ASSUME TypeSound, NEW c \in Call, DeriveSalt(c)
  PROVE  TypeSound'
<1>1. /\ job[c] \in JobType /\ StageSound(c) /\ cred \in Secrets /\ priv \in ClientKey
  BY CallFacts
<1>2. "salting" \in Stages
  BY DEF Stages
<1>3. CASE at[c] = "answered"
  <2> DEFINE j == [job[c] EXCEPT !.salt = cred]
  <2>1. j \in JobType
    BY <1>1 DEF JobType, SecretOrNone
  <2>2. StateSound' /\ Kept
    BY <1>3, StateKept, WhyTyped DEF DeriveSalt, To, history, TypeSound, StateSound
  <2>3. To(c, "salting", j)
    BY <1>3 DEF DeriveSalt
  <2>4. ASSUME at'[c] = "salting", job'[c] = j PROVE StageSound(c)'
    BY <1>1, <1>3, <2>2, <2>4 DEF StageSound, JobType, Kept
  <2> HIDE DEF j
  <2> QED
    BY <1>2, <2>1, <2>2, <2>3, <2>4, ToStep DEF TypeSound
<1>4. CASE at[c] = "hashed"
  <2> DEFINE j == [job[c] EXCEPT !.salt = cred, !.priv = priv']
  <2>1. priv' \in ClientKey /\ h1' \in ClientKey
    BY <1>4 DEF DeriveSalt, EnsureKeypair, TypeSound, StateSound, ClientKey
  <2>2. j \in JobType
    BY <1>1, <2>1 DEF JobType, SecretOrNone
  <2>3. StateSound' /\ Kept
    BY <1>4, <2>1 DEF DeriveSalt, To, history, TypeSound, StateSound, Kept
  <2>4. To(c, "salting", j) /\ job[c].kind = "createAuth"
    BY <1>4 DEF DeriveSalt
  <2>5. ASSUME at'[c] = "salting", job'[c] = j PROVE StageSound(c)'
    BY <1>1, <1>4, <2>3, <2>4, <2>5 DEF StageSound, JobType, Kept
  <2> HIDE DEF j
  <2> QED
    BY <1>2, <2>2, <2>3, <2>4, <2>5, ToStep DEF TypeSound
<1> QED
  BY <1>3, <1>4 DEF DeriveSalt

LEMMA AggregateType ==
  ASSUME TypeSound, NEW c \in Call, Aggregate(c)
  PROVE  TypeSound'
<1> DEFINE j == [job[c] EXCEPT !.kek = cred]
<1>1. /\ job[c] \in JobType /\ StageSound(c) /\ cred \in Secrets
  BY CallFacts
<1>2. h1' \in ClientKey
  BY <1>1 DEF Aggregate, JobType
<1>3. StateSound' /\ Kept
  BY <1>2 DEF Aggregate, To, history, TypeSound, StateSound, Kept
<1>4. j \in JobType
  BY <1>1 DEF JobType, SecretOrNone
<1>5. To(c, "deriving", j)
  BY DEF Aggregate
<1>6. ASSUME at'[c] = "deriving", job'[c] = j PROVE StageSound(c)'
  BY <1>1, <1>3, <1>6 DEF Aggregate, StageSound, JobType, Kept
<1>7. "deriving" \in Stages
  BY DEF Stages
<1> HIDE DEF j
<1> QED
  BY <1>3, <1>4, <1>5, <1>6, <1>7, ToStep DEF TypeSound

LEMMA ConnectType ==
  ASSUME TypeSound, Connect
  PROVE  TypeSound'
<1>1. sdk' \in Socket
  <2>1. sdk \in Socket
    BY DEF Connect, TypeSound, StateSound
  <2> QED
    BY <2>1 DEF Connect, Socket
<1>2. StateSound' /\ Kept
  BY <1>1 DEF Connect, history, TypeSound, StateSound, Kept, Pop
<1>3. JobsSound'
  BY <1>2, NoneMoves DEF Connect, Bases
<1> QED
  BY <1>2, <1>3 DEF TypeSound

LEMMA KeyInfoArrivesType ==
  ASSUME TypeSound, NEW c \in Call, KeyInfoArrives(c)
  PROVE  TypeSound'
<1> DEFINE j == [job[c] EXCEPT !.share = job[c].key, !.kek = cred]
<1>1. /\ job[c] \in JobType /\ StageSound(c) /\ cred \in Secrets /\ job[c].key \in Key
  BY CallFacts DEF KeyInfoArrives, StageSound
<1>2. UNCHANGED <<secret, client, kits, server, registered, asked, history>> /\ Kept
  BY DEF KeyInfoArrives, Kept
<1>3. CASE To(c, "deriving", j)
  <2>1. StateSound'
    BY <1>2, <1>3, StateKept, WhyTyped DEF To, history, TypeSound, StateSound
  <2>2. j \in JobType
    BY <1>1 DEF JobType, SecretOrNone
  <2>3. ASSUME at'[c] = "deriving", job'[c] = j PROVE StageSound(c)'
    BY <1>1, <1>2, <2>3 DEF KeyInfoArrives, StageSound, JobType, Kept
  <2>4. "deriving" \in Stages
    BY DEF Stages
  <2> HIDE DEF j
  <2> QED
    BY <1>2, <1>3, <2>1, <2>2, <2>3, <2>4, ToStep DEF TypeSound
<1>4. CASE Reject(c, "refused")
  <2>1. JobsSound' /\ why' \in [Call -> Reasons]
    BY <1>2, <1>4, RejectStep DEF KeyInfoArrives, Reasons
  <2> QED
    BY <1>2, <2>1, StateKept DEF history, TypeSound, StateSound
<1> QED
  BY <1>3, <1>4 DEF KeyInfoArrives

\* What a call uploads is a stored key.
LEMMA SealedTyped ==
  ASSUME TypeSound, NEW c \in Call, at[c] \in {"registering", "posting"}
  PROVE  Sealed(c) \in StoredKey /\ Sealed(c) # NoKey /\ job[c].key \in Key
<1>1. job[c] \in JobType /\ StageSound(c)
  BY CallFacts
<1>2. Sealed(c) \in StoredKey
  BY <1>1 DEF StageSound, Sealed, StoredKey, Version, JobType
<1> QED
  BY <1>1, <1>2, StoredIsKey DEF StageSound

\* A step of the server that keeps the client.
LEMMA ServerStores ==
  ASSUME TypeSound, NEW k \in Key, NEW x \in StoredKey, server' = [server EXCEPT ![k] = x],
         UNCHANGED <<secret, client, kits, registered, asked, history>>
  PROVE  Kept /\ (why' \in [Call -> Reasons] => StateSound')
<1>1. server' \in [Key -> StoredKey \cup {NoKey}]
  BY DEF TypeSound, StateSound
<1>2. Kept
  BY StoredIsKey DEF Kept, TypeSound, StateSound
<1> QED
  BY <1>1, <1>2 DEF TypeSound, StateSound, client, history, Reasons

LEMMA RegisteredType ==
  ASSUME TypeSound, NEW c \in Call, Registered(c)
  PROVE  TypeSound'
<1>1. UNCHANGED <<secret, client, kits, registered, asked, history>> /\ at[c] = "registering"
  BY DEF Registered
<1>2. \A reason \in {"timeout", "server"} : reason \in Reasons
  BY DEF Reasons
<1>3. Kept /\ (why' \in [Call -> Reasons] => StateSound')
  <2>1. CASE server' = [server EXCEPT ![job[c].key] = Sealed(c)]
    BY <1>1, <2>1, SealedTyped, ServerStores
  <2>2. CASE server' = server
    BY <1>1, <2>2, StateKept DEF Kept, history, TypeSound, StateSound
  <2> QED
    BY <2>1, <2>2 DEF Registered
<1>4. CASE Resolve(c)
  BY <1>1, <1>3, <1>4, ResolveStep, WhyTyped DEF TypeSound
<1>5. CASE Reject(c, "timeout") \/ Reject(c, "server")
  BY <1>1, <1>2, <1>3, <1>5, RejectStep DEF TypeSound
<1> QED
  BY <1>4, <1>5 DEF Registered

LEMMA ContainerStoredType ==
  ASSUME TypeSound, NEW c \in Call, ContainerStored(c)
  PROVE  TypeSound'
<1> DEFINE x == [Sealed(c) EXCEPT !.root = server[job[c].key].root]
           j == [job[c] EXCEPT !.pop = popKey]
<1>1. /\ job[c] \in JobType /\ StageSound(c) /\ popKey \in Pop
      /\ server \in [Key -> StoredKey \cup {NoKey}]
  BY CallFacts
<1>2. /\ UNCHANGED <<secret, client, kits, registered, asked, history>> /\ at[c] = "posting"
      /\ job[c].kind = "update" /\ job[c].key \in Key /\ server[job[c].key] # NoKey
  BY <1>1 DEF ContainerStored, StageSound
<1>3. \A reason \in {"timeout", "refused"} : reason \in Reasons
  BY DEF Reasons
<1>4. x \in StoredKey
  <2>1. server[job[c].key].root \in Version
    BY <1>1, <1>2 DEF StoredKey
  <2>2. Sealed(c) \in StoredKey
    BY <1>2, SealedTyped
  <2> HIDE DEF x
  <2>3. \A key \in StoredKey, v \in Version : [key EXCEPT !.root = v] \in StoredKey
    BY DEF StoredKey
  <2> QED
    BY <2>1, <2>2, <2>3 DEF x
<1>5. Kept /\ (why' \in [Call -> Reasons] => StateSound')
  <2>1. CASE server' = [server EXCEPT ![job[c].key] = x]
    BY <1>2, <1>4, <2>1, ServerStores
  <2>2. CASE server' = server
    BY <1>2, <2>2, StateKept DEF Kept, history, TypeSound, StateSound
  <2> QED
    BY <2>1, <2>2 DEF ContainerStored
<1>6. CASE To(c, "patching", j)
  <2>1. j \in JobType
    BY <1>1 DEF JobType
  <2>2. ASSUME at'[c] = "patching", job'[c] = j PROVE StageSound(c)'
    BY <1>1, <1>2, <1>5, <2>2 DEF StageSound, JobType, Kept
  <2>3. "patching" \in Stages
    BY DEF Stages
  <2> HIDE DEF j
  <2> QED
    BY <1>5, <1>6, <2>1, <2>2, <2>3, ToStep, WhyTyped DEF TypeSound
<1>7. CASE Reject(c, "timeout") \/ Reject(c, "refused")
  BY <1>2, <1>3, <1>5, <1>7, RejectStep DEF TypeSound
<1> QED
  BY <1>6, <1>7 DEF ContainerStored

LEMMA RootPatchedType ==
  ASSUME TypeSound, NEW c \in Call, RootPatched(c)
  PROVE  TypeSound'
<1> DEFINE k == job[c].key
           x == [server[k] EXCEPT !.root = c]
<1>1. StageSound(c) /\ server \in [Key -> StoredKey \cup {NoKey}]
  BY CallFacts
<1>2. /\ UNCHANGED <<secret, client, kits, registered, asked, history>> /\ at[c] = "patching"
      /\ k \in Key /\ server[k] # NoKey
  BY <1>1 DEF RootPatched, StageSound
<1>3. \A reason \in {"timeout", "refused"} : reason \in Reasons
  BY DEF Reasons
<1>4. x \in StoredKey
  <2>1. server[k] \in StoredKey
    BY <1>1, <1>2
  <2>2. \A key \in StoredKey : [key EXCEPT !.root = c] \in StoredKey
    BY DEF StoredKey, Version
  <2> QED
    BY <2>1, <2>2
<1>5. Kept /\ (why' \in [Call -> Reasons] => StateSound')
  <2>1. CASE server' = [server EXCEPT ![k].root = c]
    <3>1. server' = [server EXCEPT ![k] = x]
      BY <2>1
    <3> QED
      BY <1>2, <1>4, <3>1, ServerStores
  <2>2. CASE server' = server
    BY <1>2, <2>2, StateKept DEF Kept, history, TypeSound, StateSound
  <2> QED
    BY <2>1, <2>2 DEF RootPatched
<1>6. CASE Resolve(c)
  BY <1>2, <1>5, <1>6, ResolveStep, WhyTyped DEF TypeSound
<1>7. CASE Reject(c, "timeout") \/ Reject(c, "refused")
  BY <1>2, <1>3, <1>5, <1>7, RejectStep DEF TypeSound
<1> QED
  BY <1>6, <1>7 DEF RootPatched

LEMMA KmcArrivesType ==
  ASSUME TypeSound, NEW c \in Call, KmcArrives(c)
  PROVE  TypeSound'
<1> DEFINE got == server[job[c].key]
           j == [job[c] EXCEPT !.got = got, !.kek = cred, !.live = FALSE]
<1>1. /\ job[c] \in JobType /\ StageSound(c) /\ cred \in Secrets
      /\ server \in [Key -> StoredKey \cup {NoKey}] /\ job[c].key \in Key
  BY CallFacts DEF KmcArrives, StageSound
<1>2. UNCHANGED <<secret, client, kits, server, registered, asked, history>> /\ Kept
  BY DEF KmcArrives, Kept
<1>3. CASE got # NoKey /\ To(c, "opening", j)
  <2>1. StateSound'
    BY <1>2, <1>3, StateKept, WhyTyped DEF To, history, TypeSound, StateSound
  <2>2. got \in StoredKey
    BY <1>1, <1>3
  <2>3. j \in JobType
    <3> HIDE DEF got
    <3> QED
      BY <1>1, <2>2 DEF JobType, SecretOrNone
  <2>4. /\ j.kind = job[c].kind /\ j.key = job[c].key /\ j.orig = job[c].orig
        /\ j.got = got /\ j.kek = cred
    <3> HIDE DEF got
    <3> QED
      BY <1>1 DEF JobType
  <2> HIDE DEF j
  <2>5. ASSUME at'[c] = "opening", job'[c] = j PROVE StageSound(c)'
    BY <1>1, <1>2, <1>3, <2>2, <2>4, <2>5 DEF KmcArrives, StageSound, Kept
  <2>6. "opening" \in Stages
    BY DEF Stages
  <2> QED
    BY <1>2, <1>3, <2>1, <2>3, <2>5, <2>6, ToStep DEF TypeSound
<1>4. CASE Reject(c, "server")
  <2>1. JobsSound' /\ why' \in [Call -> Reasons]
    BY <1>2, <1>4, RejectStep DEF KmcArrives, Reasons
  <2> QED
    BY <1>2, <2>1, StateKept DEF history, TypeSound, StateSound
<1> QED
  BY <1>3, <1>4 DEF KmcArrives

LEMMA OpenType ==
  ASSUME TypeSound, NEW c \in Call, Open(c)
  PROVE  TypeSound'
<1> DEFINE got == job[c].got
           j == [job[c] EXCEPT !.salt = cred, !.share = got.share, !.priv = got.client]
<1>1. /\ job[c] \in JobType /\ StageSound(c) /\ cred \in Secrets
      /\ got \in StoredKey /\ at[c] = "opening" /\ job[c].kind \in {"get", "update"}
  BY CallFacts DEF Open, StageSound
<1>2. got.share \in Key /\ got.client \in ClientKey
  BY <1>1 DEF StoredKey
<1>3. priv' \in ClientKey /\ h1' \in ClientKey
  BY <1>2 DEF Open, TypeSound, StateSound
<1>4. Kept /\ (why' \in [Call -> Reasons] => StateSound')
  BY <1>3 DEF Open, TypeSound, StateSound, Kept, history, Reasons
<1>5. CASE Reject(c, "sealed")
  BY <1>1, <1>4, <1>5, RejectStep DEF TypeSound, Reasons
<1>6. CASE Resolve(c)
  BY <1>1, <1>4, <1>6, ResolveStep, WhyTyped DEF TypeSound
<1>7. CASE job[c].kind = "update" /\ To(c, "salting", j)
  <2>1. j \in JobType
    <3>1. cred \in SecretOrNone /\ got.share \in Key \cup {"none"}
      BY <1>1, <1>2 DEF SecretOrNone
    <3> HIDE DEF got
    <3> QED
      BY <1>1, <1>2, <3>1 DEF JobType
  <2>2. /\ j.kind = "update" /\ j.key = job[c].key /\ j.orig = job[c].orig
        /\ j.salt = cred /\ j.share = got.share
    <3> HIDE DEF got
    <3> QED
      BY <1>1, <1>7 DEF JobType
  <2> HIDE DEF j
  <2>3. ASSUME at'[c] = "salting", job'[c] = j PROVE StageSound(c)'
    BY <1>1, <1>2, <1>4, <1>7, <2>2, <2>3 DEF StageSound, Kept
  <2>4. "salting" \in Stages
    BY DEF Stages
  <2> QED
    BY <1>4, <1>7, <2>1, <2>3, <2>4, ToStep, WhyTyped DEF TypeSound
<1> QED
  BY <1>1, <1>5, <1>6, <1>7 DEF Open

LEMMA ExportType ==
  ASSUME TypeSound, NEW c \in Call, Export(c)
  PROVE  TypeSound'
<1> DEFINE kit == [key |-> job[c].key, kek |-> job[c].kek, cek |-> job[c].got.cek,
                   pop |-> popKey, api |-> cred]
<1>1. /\ StageSound(c) /\ cred \in Secrets /\ popKey \in Pop
      /\ at[c] = "opening" /\ job[c].kind = "export"
  BY CallFacts DEF Export
<1>2. kit \in Kit
  BY <1>1 DEF StageSound, StoredKey, Kit, Pop
<1>3. kits' = kits \cup {kit} /\ Kept
  BY DEF Export, Kept
<1>4. JobsSound' /\ why' = why
  BY <1>1, <1>3, ResolveStep DEF Export
<1>5. StateSound'
  <2>1. kits' \subseteq Kit
    BY <1>2, <1>3 DEF TypeSound, StateSound
  <2> QED
    BY <1>4, <2>1 DEF Export, TypeSound, StateSound, client, history
<1> QED
  BY <1>4, <1>5 DEF TypeSound

LEMMA RecoverFromKitType ==
  ASSUME TypeSound, NEW c \in Call, RecoverFromKit(c)
  PROVE  TypeSound'
<1>1. /\ job[c] \in JobType /\ StageSound(c) /\ popKey \in Pop
      /\ at[c] = "hashed" /\ job[c].kind = "recover"
  BY CallFacts DEF RecoverFromKit
<1>2. PICK kit \in kits :
        IF kit.pop = "none" THEN KeepPop(c, kit) ELSE Rebind(c, kit)
  BY DEF RecoverFromKit
<1>3. kit \in Kit /\ Kept
  BY DEF RecoverFromKit, TypeSound, StateSound, Kept
<1>4. "waiting" \in Stages /\ OnSdk \in SUBSET Stages
  BY DEF Stages, OnSdk
<1>5. at' = [at EXCEPT ![c] = "waiting"]
  BY DEF RecoverFromKit
<1>6. CASE KeepPop(c, kit)
  <2> DEFINE j == [job[c] EXCEPT !.kit = kit, !.pop = sdk'.pop, !.live = TRUE]
  <2>1. sdk' \in Socket /\ sdk'.pop \in Pop
    BY <1>6, SocketThere DEF KeepPop
  <2>2. j \in JobType
    BY <1>1, <1>3, <2>1 DEF JobType
  <2>3. job' = [job EXCEPT ![c] = j]
    BY <1>6 DEF KeepPop
  <2>4. j.kind = "recover" /\ j.key = job[c].key /\ j.orig = job[c].orig /\ j.kit = kit
    BY <1>1 DEF JobType
  <2>5. StateSound'
    BY <1>6, <2>1 DEF RecoverFromKit, KeepPop, TypeSound, StateSound
  <2> HIDE DEF j
  <2>6. ASSUME at'[c] = "waiting", job'[c] = j PROVE StageSound(c)'
    BY <1>1, <1>3, <2>4, <2>6 DEF StageSound
  <2>7. JobsSound'
    BY <1>3, <1>4, <1>5, <2>2, <2>3, <2>6, OneJob DEF Bases
  <2> QED
    BY <2>5, <2>7 DEF TypeSound
<1>7. CASE kit.pop # "none" /\ Rebind(c, kit)
  <2> DEFINE j == [job[c] EXCEPT !.kit = kit, !.orig = popKey, !.pop = kit.pop, !.live = TRUE]
  <2>1. kit.pop \in Pop
    BY <1>3, <1>7 DEF Kit, Pop
  <2>2. j \in JobType
    BY <1>1, <1>3, <2>1 DEF JobType
  <2>3. job' = [Orphaned(job, OnSdk) EXCEPT ![c] = j]
    BY <1>7 DEF Rebind
  <2>4. j.kind = "recover" /\ j.key = job[c].key /\ j.kit = kit
    BY <1>1 DEF JobType
  <2>5. sdk' \in Socket
    BY <1>7, <2>1 DEF Rebind, Socket, Pop
  <2>6. StateSound'
    BY <1>7, <2>1, <2>5 DEF RecoverFromKit, Rebind, TypeSound, StateSound
  <2> HIDE DEF j
  <2>7. ASSUME at'[c] = "waiting", job'[c] = j PROVE StageSound(c)'
    BY <1>1, <1>3, <2>4, <2>7 DEF StageSound
  <2>8. Orphaned(job, OnSdk) \in Bases
    BY <1>4 DEF Bases
  <2>9. JobsSound'
    BY <1>3, <1>4, <1>5, <2>2, <2>3, <2>7, <2>8, OneJob
  <2> QED
    BY <2>6, <2>9 DEF TypeSound
<1> QED
  BY <1>2, <1>6, <1>7

LEMMA RecoveryArrivesType ==
  ASSUME TypeSound, NEW c \in Call, RecoveryArrives(c)
  PROVE  TypeSound'
<1> DEFINE got == server[job[c].key]
<1>1. /\ job[c] \in JobType /\ StageSound(c) /\ job[c].key \in Key
      /\ server \in [Key -> StoredKey \cup {NoKey}]
      /\ at[c] = "waiting" /\ job[c].kind = "recover" /\ got # NoKey
  BY CallFacts DEF RecoveryArrives, StageSound
<1>2. got \in StoredKey
  BY <1>1
<1>3. PICK bare \in BOOLEAN :
        To(c, "opening", [job[c] EXCEPT !.got = got, !.live = FALSE, !.bare = bare])
  BY DEF RecoveryArrives
<1> DEFINE j == [job[c] EXCEPT !.got = got, !.live = FALSE, !.bare = bare]
<1> HIDE DEF got
<1>4. j \in JobType
  <2>1. [job[c] EXCEPT !.got = got, !.live = FALSE, !.bare = TRUE] \in JobType
    BY <1>1, <1>2 DEF JobType
  <2>2. [job[c] EXCEPT !.got = got, !.live = FALSE, !.bare = FALSE] \in JobType
    BY <1>1, <1>2 DEF JobType
  <2> QED
    BY <2>1, <2>2
<1>5. j.kind = "recover" /\ j.key = job[c].key /\ j.orig = job[c].orig /\ j.got = got /\ j.kit = job[c].kit
  BY <1>1 DEF JobType
<1>6. StateSound' /\ Kept
  BY <1>3, StateKept, WhyTyped DEF RecoveryArrives, To, history, TypeSound, StateSound
<1>7. To(c, "opening", j)
  BY <1>3
<1> HIDE DEF j
<1>8. ASSUME at'[c] = "opening", job'[c] = j PROVE StageSound(c)'
  BY <1>1, <1>2, <1>5, <1>8 DEF StageSound
<1>9. "opening" \in Stages
  BY DEF Stages
<1> QED
  BY <1>4, <1>6, <1>7, <1>8, <1>9, ToStep DEF TypeSound

LEMMA EndRecoveryType ==
  ASSUME TypeSound, NEW c \in Call, EndRecovery(c)
  PROVE  TypeSound'
<1>1. StageSound(c) /\ job[c] \in JobType /\ at[c] # "ready"
  BY CallFacts DEF EndRecovery
<1>2. Kept
  BY DEF EndRecovery, Kept
<1>3. PICK s \in {"done", "failed"} : at' = [at EXCEPT ![c] = s]
  BY DEF EndRecovery
<1>4. why' \in [Call -> Reasons]
  BY WhyTyped DEF EndRecovery, Reasons
<1>5. OnSdk \in SUBSET Stages
  BY DEF OnSdk, Stages
<1>6. PICK base \in Bases : job' = Settled(c, base)
  BY <1>5 DEF EndRecovery, RestorePop, Bases
<1>7. JobsSound'
  BY <1>1, <1>2, <1>3, <1>6, OneSettles
<1>8. popKey' \in Pop /\ sdk' \in Socket \cup {NoSocket}
  BY <1>1 DEF EndRecovery, RestorePop, Rebound, JobType, TypeSound, StateSound
<1>9. StateSound'
  BY <1>4, <1>8 DEF EndRecovery, TypeSound, StateSound, history, Reasons
<1> QED
  BY <1>7, <1>9 DEF TypeSound

LEMMA SettlingTypes ==
  ASSUME TypeSound, NEW c \in Call, StatusArrives(c) \/ GiveUp(c)
  PROVE  TypeSound'
<1>1. UNCHANGED <<secret, client, kits, server, registered, asked, history>> /\ Kept
  BY DEF StatusArrives, GiveUp, Kept
<1>2. why' \in [Call -> Reasons] => StateSound'
  BY <1>1, StateKept DEF history, TypeSound, StateSound
<1>3. CASE StatusArrives(c)
  BY <1>1, <1>2, <1>3, ResolveStep, WhyTyped DEF StatusArrives, TypeSound
<1>4. CASE GiveUp(c)
  <2>1. "timeout" \in Reasons
    BY DEF Reasons
  <2> QED
    BY <1>1, <1>2, <1>4, <2>1, RejectStep DEF GiveUp, TypeSound
<1> QED
  BY <1>3, <1>4

LEMMA DropTypes ==
  ASSUME TypeSound, Disconnect \/ Dispose
  PROVE  TypeSound'
<1>1. DropSockets /\ UNCHANGED at /\ Kept
  BY DEF Disconnect, Dispose, Kept
<1>2. OnSdk \cup {"requested"} \in SUBSET Stages
  BY DEF OnSdk, Stages
<1>3. job' \in Bases
  BY <1>1, <1>2 DEF DropSockets, Bases
<1>4. JobsSound'
  BY <1>1, <1>3, NoneMoves
<1>5. StateSound'
  BY <1>1 DEF DropSockets, Disconnect, Dispose, TypeSound, StateSound, ClientKey, history
<1> QED
  BY <1>4, <1>5 DEF TypeSound

LEMMA TypeStep == TypeSound /\ [Next]_vars => TypeSound'
<1> SUFFICES ASSUME TypeSound, [Next]_vars PROVE TypeSound'
  OBVIOUS
<1>1. CASE UNCHANGED vars
  BY <1>1 DEF vars, client, history, TypeSound, JobsSound, StageSound, StateSound
<1>2. CASE \E c \in Call, k \in Key :
        \/ \E kind \in Kinds : Begin(c, kind, k) \/ BeginDisposed(c, kind, k)
        \/ BeginStatus(c, k)
  BY <1>2, BeginType, BeginDisposedType, BeginStatusType
<1>3. CASE ShareArrives \/ Connect \/ Disconnect \/ Dispose
  BY <1>3, ShareArrivesType, ConnectType, DropTypes
<1>4. ASSUME NEW c \in Call,
             \/ RequestShare(c) \/ DeriveSalt(c) \/ Aggregate(c) \/ AwaitHandshake(c)
             \/ FetchKeyInfo(c) \/ KeyInfoArrives(c) \/ Seal(c) \/ Register(c) \/ Registered(c)
             \/ RequestKmc(c) \/ KmcArrives(c) \/ Open(c) \/ Export(c) \/ Recompile(c)
      PROVE  TypeSound'
  BY <1>4, RequestShareType, DeriveSaltType, AggregateType, AwaitHandshakeType,
     FetchKeyInfoType, KeyInfoArrivesType, SealType, RegisterType, RegisteredType,
     RequestKmcType, KmcArrivesType, OpenType, ExportType, RecompileType
<1>5. ASSUME NEW c \in Call,
             \/ PostContainer(c) \/ ContainerStored(c) \/ RootPatched(c)
             \/ RecoverFromKit(c) \/ RecoveryArrives(c) \/ EndRecovery(c)
             \/ RequestStatus(c) \/ StatusArrives(c) \/ GiveUp(c)
      PROVE  TypeSound'
  BY <1>5, PostContainerType, ContainerStoredType, RootPatchedType, RecoverFromKitType,
     RecoveryArrivesType, EndRecoveryType, RequestStatusType, SettlingTypes
<1> QED
  BY <1>1, <1>2, <1>3, <1>4, <1>5 DEF Next

LEMMA TypeInvariant == Spec => []TypeSound
<1>1. TypeSound /\ UNCHANGED vars => TypeSound'
  <2> SUFFICES ASSUME TypeSound, UNCHANGED vars PROVE TypeSound'
    OBVIOUS
  <2>1. JobsSound'
    BY NoneMoves DEF vars, Kept, Bases
  <2> QED
    BY <2>1 DEF vars, client, history, TypeSound, StateSound
<1> QED
  BY <1>1, TypeInit, TypeStep, PTL DEF Spec

\* The client, its calls and the server stay within their types.
THEOREM TypeCorrect == Spec => []TypeOK
<1>1. TypeSound => TypeOK
  <2> SUFFICES ASSUME TypeSound PROVE TypeOK
    OBVIOUS
  <2>1. \A c \in Call : DOMAIN job[c] = DOMAIN NoJob /\ job[c].kind \in Kinds \cup {"none"}
    BY CallFacts DEF JobType, NoJob
  <2> QED
    BY <2>1 DEF TypeSound, JobsSound, StateSound, TypeOK, Pop
<1> QED
  BY <1>1, TypeInvariant, PTL

-----------------------------------------------------------------------------
(* What a call carries through its awaits: a call that is not a recovery's *)
(* start or end keeps every call's kind and PoP key to restore, and starts *)
(* none.                                                                   *)

Carried(d) ==
  /\ job'[d].orig = job[d].orig /\ job'[d].kind = job[d].kind
  /\ Running(d)' => Running(d)

LEMMA BaseCarries ==
  ASSUME TypeSound, NEW base \in Bases, NEW d \in Call
  PROVE  base[d].orig = job[d].orig /\ base[d].kind = job[d].kind
<1>1. base[d] \in {job[d], [job[d] EXCEPT !.live = FALSE]} /\ job[d] \in JobType
  BY BaseSound, CallFacts
<1> QED
  BY <1>1 DEF JobType

LEMMA OneCarries ==
  ASSUME TypeSound, NEW c \in Call, NEW base \in Bases, NEW s, NEW j,
         at' = [at EXCEPT ![c] = s], job' = [base EXCEPT ![c] = j],
         j.orig = job[c].orig, j.kind = job[c].kind, Running(c)
  PROVE  \A d \in Call : Carried(d)
<1>1. base \in [Call -> JobType]
  BY BaseSound
<1>2. Carried(c)
  BY <1>1 DEF TypeSound, JobsSound, Carried
<1>3. ASSUME NEW d \in Call \ {c} PROVE Carried(d)
  <2>1. at'[d] = at[d] /\ job'[d] = base[d]
    BY <1>1 DEF TypeSound, JobsSound
  <2> QED
    BY <2>1, BaseCarries DEF Carried, Running
<1> QED
  BY <1>2, <1>3

LEMMA AllCarry ==
  ASSUME TypeSound, UNCHANGED at, job' \in Bases
  PROVE  \A d \in Call : Carried(d)
  BY BaseCarries DEF Carried, Running

LEMMA ToCarries ==
  ASSUME TypeSound, NEW c \in Call, NEW s, NEW j, To(c, s, j), Running(c),
         j.orig = job[c].orig, j.kind = job[c].kind
  PROVE  \A d \in Call : Carried(d)
  BY OneCarries DEF To, Bases

LEMMA SettledCarries ==
  ASSUME TypeSound, NEW c \in Call, Running(c), job[c].orig = "none",
         Resolve(c) \/ \E reason \in Reasons : Reject(c, reason)
  PROVE  \A d \in Call : Carried(d)
<1> DEFINE j == [NoJob EXCEPT !.kind = job[c].kind, !.key = job[c].key]
<1>1. j.orig = job[c].orig /\ j.kind = job[c].kind
  BY DEF NoJob
<1>2. PICK s \in {"done", "failed"} : at' = [at EXCEPT ![c] = s]
  BY DEF Resolve, Reject
<1>3. job' = [job EXCEPT ![c] = j]
  BY DEF Resolve, Reject, Settled
<1> HIDE DEF j
<1> QED
  BY <1>1, <1>2, <1>3, OneCarries DEF Bases

\* Only a recovery rebinds.
LEMMA OnlyRecovery ==
  ASSUME TypeSound, NEW c \in Call, job[c].kind # "recover"
  PROVE  job[c].orig = "none"
  BY CallFacts DEF StageSound

\* Actions of a call between two of its awaits, but those of RecoverFromKit.
Moves(c) ==
  \/ RequestShare(c) \/ DeriveSalt(c) \/ Aggregate(c) \/ AwaitHandshake(c)
  \/ FetchKeyInfo(c) \/ KeyInfoArrives(c) \/ Seal(c) \/ Register(c) \/ Registered(c)
  \/ RequestKmc(c) \/ KmcArrives(c) \/ Open(c) \/ Export(c) \/ Recompile(c)
  \/ PostContainer(c) \/ ContainerStored(c) \/ RootPatched(c)
  \/ RecoveryArrives(c) \/ RequestStatus(c) \/ StatusArrives(c) \/ GiveUp(c)

LEMMA MovesRun ==
  ASSUME NEW c \in Call, Moves(c)
  PROVE  Running(c)
<1>1. ASSUME RequestShare(c) \/ DeriveSalt(c) \/ Aggregate(c) \/ AwaitHandshake(c)
             \/ FetchKeyInfo(c) \/ KeyInfoArrives(c) \/ Seal(c) \/ Register(c) \/ Registered(c)
      PROVE  Running(c)
  BY <1>1 DEF RequestShare, DeriveSalt, Aggregate, AwaitHandshake, FetchKeyInfo,
     KeyInfoArrives, Seal, Register, Registered, Running
<1>2. ASSUME RequestKmc(c) \/ KmcArrives(c) \/ Open(c) \/ Export(c) \/ Recompile(c)
             \/ PostContainer(c) \/ ContainerStored(c) \/ RootPatched(c)
             \/ RecoveryArrives(c) \/ RequestStatus(c) \/ StatusArrives(c) \/ GiveUp(c)
      PROVE  Running(c)
  BY <1>2 DEF RequestKmc, KmcArrives, Open, Export, Recompile, PostContainer,
     ContainerStored, RootPatched, RecoveryArrives, RequestStatus, StatusArrives, GiveUp, Running
<1> QED
  BY <1>1, <1>2 DEF Moves

LEMMA MovesCarry ==
  ASSUME TypeSound, NEW c \in Call, Moves(c)
  PROVE  \A d \in Call : Carried(d)
<1>1. Running(c)
  BY MovesRun
<1>2. job[c] \in JobType
  BY CallFacts
<1>3. CASE RequestShare(c)
  <2> DEFINE j == [job[c] EXCEPT !.priv = priv, !.live = TRUE]
  <2>1. j.orig = job[c].orig /\ j.kind = job[c].kind
    BY <1>2 DEF JobType
  <2>2. To(c, "requested", j)
    BY <1>3 DEF RequestShare
  <2> HIDE DEF j
  <2> QED
    BY <1>1, <2>1, <2>2, ToCarries
<1>4. CASE Aggregate(c)
  <2> DEFINE j == [job[c] EXCEPT !.kek = cred]
  <2>1. j.orig = job[c].orig /\ j.kind = job[c].kind
    BY <1>2 DEF JobType
  <2>2. To(c, "deriving", j)
    BY <1>4 DEF Aggregate
  <2> HIDE DEF j
  <2> QED
    BY <1>1, <2>1, <2>2, ToCarries
<1>5. CASE AwaitHandshake(c)
  <2> DEFINE j == [job[c] EXCEPT !.live = TRUE]
  <2>1. j.orig = job[c].orig /\ j.kind = job[c].kind
    BY <1>2 DEF JobType
  <2>2. To(c, "connecting", j)
    BY <1>5 DEF AwaitHandshake
  <2> HIDE DEF j
  <2> QED
    BY <1>1, <2>1, <2>2, ToCarries
<1>6. CASE FetchKeyInfo(c)
  <2> DEFINE j == [job[c] EXCEPT !.pop = popKey, !.live = FALSE]
  <2>1. j.orig = job[c].orig /\ j.kind = job[c].kind
    BY <1>2 DEF JobType
  <2>2. To(c, "fetching", j)
    BY <1>6 DEF FetchKeyInfo
  <2> HIDE DEF j
  <2> QED
    BY <1>1, <2>1, <2>2, ToCarries
<1>7. CASE Seal(c)
  <2> DEFINE j == [job[c] EXCEPT !.slot = cred]
  <2>1. j.orig = job[c].orig /\ j.kind = job[c].kind
    BY <1>2 DEF JobType
  <2>2. To(c, "sealing", j)
    BY <1>7 DEF Seal
  <2> HIDE DEF j
  <2> QED
    BY <1>1, <2>1, <2>2, ToCarries
<1>8. CASE Register(c)
  <2> DEFINE j == [job[c] EXCEPT !.live = TRUE, !.pop = sdk'.pop,
                      !.h1 = IF job[c].kind = "create" THEN h1 ELSE job[c].priv]
  <2>1. j.orig = job[c].orig /\ j.kind = job[c].kind
    BY <1>2 DEF JobType
  <2>2. To(c, "registering", j)
    BY <1>8 DEF Register
  <2> HIDE DEF j
  <2> QED
    BY <1>1, <2>1, <2>2, ToCarries
<1>9. CASE RequestKmc(c)
  <2> DEFINE j == [job[c] EXCEPT !.live = TRUE, !.pop = sdk'.pop]
  <2>1. j.orig = job[c].orig /\ j.kind = job[c].kind
    BY <1>2 DEF JobType
  <2>2. To(c, "waiting", j)
    BY <1>9 DEF RequestKmc
  <2> HIDE DEF j
  <2> QED
    BY <1>1, <2>1, <2>2, ToCarries
<1>10. CASE Recompile(c)
  <2> DEFINE j == [job[c] EXCEPT !.kek = cred]
  <2>1. j.orig = job[c].orig /\ j.kind = job[c].kind
    BY <1>2 DEF JobType
  <2>2. To(c, "deriving", j)
    BY <1>10 DEF Recompile
  <2> HIDE DEF j
  <2> QED
    BY <1>1, <2>1, <2>2, ToCarries
<1>11. CASE PostContainer(c)
  <2> DEFINE j == [job[c] EXCEPT !.pop = popKey, !.h1 = h1]
  <2>1. j.orig = job[c].orig /\ j.kind = job[c].kind
    BY <1>2 DEF JobType
  <2>2. To(c, "posting", j)
    BY <1>11 DEF PostContainer
  <2> HIDE DEF j
  <2> QED
    BY <1>1, <2>1, <2>2, ToCarries
<1>12. CASE RequestStatus(c)
  <2> DEFINE j == job[c]
  <2>1. j.orig = job[c].orig /\ j.kind = job[c].kind
    BY <1>2 DEF JobType
  <2>2. To(c, "waiting", j)
    BY <1>12 DEF RequestStatus
  <2> HIDE DEF j
  <2> QED
    BY <1>1, <2>1, <2>2, ToCarries
<1>13. CASE DeriveSalt(c)
  <2>1. PICK p \in {job[c].priv, priv'} : To(c, "salting", [job[c] EXCEPT !.salt = cred, !.priv = p])
    <3>1. CASE at[c] = "answered"
      <4>1. To(c, "salting", [job[c] EXCEPT !.salt = cred])
        BY <1>13, <3>1 DEF DeriveSalt
      <4>2. [job[c] EXCEPT !.salt = cred] = [job[c] EXCEPT !.salt = cred, !.priv = job[c].priv]
        BY <1>2 DEF JobType
      <4> QED
        BY <4>1, <4>2
    <3>2. CASE at[c] = "hashed"
      BY <1>13, <3>2 DEF DeriveSalt
    <3> QED
      BY <1>13, <3>1, <3>2 DEF DeriveSalt
  <2> DEFINE j == [job[c] EXCEPT !.salt = cred, !.priv = p]
  <2>2. j.orig = job[c].orig /\ j.kind = job[c].kind
    BY <1>2 DEF JobType
  <2>3. To(c, "salting", j)
    BY <2>1
  <2> HIDE DEF j
  <2> QED
    BY <1>1, <2>2, <2>3, ToCarries
<1>14. CASE KeyInfoArrives(c)
  <2>1. ASSUME To(c, "deriving", [job[c] EXCEPT !.share = job[c].key, !.kek = cred]) PROVE \A d \in Call : Carried(d)
    <3> DEFINE j == [job[c] EXCEPT !.share = job[c].key, !.kek = cred]
    <3>1. j.orig = job[c].orig /\ j.kind = job[c].kind
      BY <1>2 DEF JobType
    <3>2. To(c, "deriving", j)
      BY <2>1
    <3> HIDE DEF j
    <3> QED
      BY <1>1, <3>1, <3>2, ToCarries
  <2>2. job[c].orig = "none"
    BY <1>14, OnlyRecovery, CallFacts DEF KeyInfoArrives, StageSound
  <2>3. ASSUME Reject(c, "refused") PROVE \A d \in Call : Carried(d)
    BY <1>1, <2>2, <2>3, SettledCarries DEF Reasons
  <2> QED
    BY <1>14, <2>1, <2>3 DEF KeyInfoArrives
<1>15. CASE Registered(c)
  <2>1. job[c].orig = "none"
    BY <1>15, OnlyRecovery, CallFacts DEF Registered, StageSound
  <2>2. ASSUME Resolve(c) \/ Reject(c, "timeout") \/ Reject(c, "server") PROVE \A d \in Call : Carried(d)
    BY <1>1, <2>1, <2>2, SettledCarries DEF Reasons
  <2> QED
    BY <1>15, <2>2 DEF Registered
<1>16. CASE KmcArrives(c)
  <2>1. ASSUME To(c, "opening", [job[c] EXCEPT !.got = server[job[c].key], !.kek = cred, !.live = FALSE]) PROVE \A d \in Call : Carried(d)
    <3> DEFINE j == [job[c] EXCEPT !.got = server[job[c].key], !.kek = cred, !.live = FALSE]
    <3>1. j.orig = job[c].orig /\ j.kind = job[c].kind
      BY <1>2 DEF JobType
    <3>2. To(c, "opening", j)
      BY <2>1
    <3> HIDE DEF j
    <3> QED
      BY <1>1, <3>1, <3>2, ToCarries
  <2>2. job[c].orig = "none"
    BY <1>16, OnlyRecovery, CallFacts DEF KmcArrives, StageSound
  <2>3. ASSUME Reject(c, "server") PROVE \A d \in Call : Carried(d)
    BY <1>1, <2>2, <2>3, SettledCarries DEF Reasons
  <2> QED
    BY <1>16, <2>1, <2>3 DEF KmcArrives
<1>17. CASE Open(c)
  <2>1. ASSUME To(c, "salting", [job[c] EXCEPT !.salt = cred,
                       !.share = job[c].got.share, !.priv = job[c].got.client]) PROVE \A d \in Call : Carried(d)
    <3> DEFINE j == [job[c] EXCEPT !.salt = cred,
                       !.share = job[c].got.share, !.priv = job[c].got.client]
    <3>1. j.orig = job[c].orig /\ j.kind = job[c].kind
      BY <1>2 DEF JobType
    <3>2. To(c, "salting", j)
      BY <2>1
    <3> HIDE DEF j
    <3> QED
      BY <1>1, <3>1, <3>2, ToCarries
  <2>2. job[c].orig = "none"
    BY <1>17, OnlyRecovery, CallFacts DEF Open, StageSound
  <2>3. ASSUME Resolve(c) \/ Reject(c, "sealed") PROVE \A d \in Call : Carried(d)
    BY <1>1, <2>2, <2>3, SettledCarries DEF Reasons
  <2> QED
    BY <1>17, <2>1, <2>3 DEF Open
<1>18. CASE Export(c)
  <2>1. job[c].orig = "none"
    BY <1>18, OnlyRecovery, CallFacts DEF Export, StageSound
  <2>2. ASSUME Resolve(c) PROVE \A d \in Call : Carried(d)
    BY <1>1, <2>1, <2>2, SettledCarries DEF Reasons
  <2> QED
    BY <1>18, <2>2 DEF Export
<1>19. CASE ContainerStored(c)
  <2>1. ASSUME To(c, "patching", [job[c] EXCEPT !.pop = popKey]) PROVE \A d \in Call : Carried(d)
    <3> DEFINE j == [job[c] EXCEPT !.pop = popKey]
    <3>1. j.orig = job[c].orig /\ j.kind = job[c].kind
      BY <1>2 DEF JobType
    <3>2. To(c, "patching", j)
      BY <2>1
    <3> HIDE DEF j
    <3> QED
      BY <1>1, <3>1, <3>2, ToCarries
  <2>2. job[c].orig = "none"
    BY <1>19, OnlyRecovery, CallFacts DEF ContainerStored, StageSound
  <2>3. ASSUME Reject(c, "timeout") \/ Reject(c, "refused") PROVE \A d \in Call : Carried(d)
    BY <1>1, <2>2, <2>3, SettledCarries DEF Reasons
  <2> QED
    BY <1>19, <2>1, <2>3 DEF ContainerStored
<1>20. CASE RootPatched(c)
  <2>1. job[c].orig = "none"
    BY <1>20, OnlyRecovery, CallFacts DEF RootPatched, StageSound
  <2>2. ASSUME Resolve(c) \/ Reject(c, "timeout") \/ Reject(c, "refused") PROVE \A d \in Call : Carried(d)
    BY <1>1, <2>1, <2>2, SettledCarries DEF Reasons
  <2> QED
    BY <1>20, <2>2 DEF RootPatched
<1>21. CASE StatusArrives(c)
  <2>1. job[c].orig = "none"
    BY <1>21, OnlyRecovery, CallFacts DEF StatusArrives, StageSound
  <2>2. ASSUME Resolve(c) PROVE \A d \in Call : Carried(d)
    BY <1>1, <2>1, <2>2, SettledCarries DEF Reasons
  <2> QED
    BY <1>21, <2>2 DEF StatusArrives
<1>22. CASE GiveUp(c)
  <2>1. job[c].orig = "none"
    BY <1>22, OnlyRecovery, CallFacts DEF GiveUp, StageSound
  <2>2. ASSUME Reject(c, "timeout") PROVE \A d \in Call : Carried(d)
    BY <1>1, <2>1, <2>2, SettledCarries DEF Reasons
  <2> QED
    BY <1>22, <2>2 DEF GiveUp
<1>23. CASE RecoveryArrives(c)
  <2>1. PICK bare \in BOOLEAN : To(c, "opening", [job[c] EXCEPT !.got = server[job[c].key], !.live = FALSE, !.bare = bare])
    BY <1>23 DEF RecoveryArrives
  <2> DEFINE j == [job[c] EXCEPT !.got = server[job[c].key], !.live = FALSE, !.bare = bare]
  <2>2. j.orig = job[c].orig /\ j.kind = job[c].kind
    BY <1>2 DEF JobType
  <2>3. To(c, "opening", j)
    BY <2>1
  <2> HIDE DEF j
  <2> QED
    BY <1>1, <2>2, <2>3, ToCarries
<1> QED
  BY <1>3, <1>4, <1>5, <1>6, <1>7, <1>8, <1>9, <1>10, <1>11, <1>12, <1>13, <1>14, <1>15, <1>16, <1>17, <1>18, <1>19, <1>20, <1>21, <1>22, <1>23 DEF Moves

-----------------------------------------------------------------------------
(* The PoP key.  While a recovery signs with its kit's key no other call   *)
(* runs, or the two are mixed; so what it saved is the client's own.       *)

PopSound ==
  ~mixed =>
    /\ \A c, d \in Call : Rebound(c) /\ Running(d) => d = c
    /\ \A c \in Call : Rebound(c) => job[c].orig = secret
    /\ (\A c \in Call : ~Rebound(c)) => popKey = secret /\ sdk.pop \in {secret, "none"}
    /\ musig.pop \in {secret, "none"}

\* A rebound call is at an await of its own.
LEMMA ReboundRuns ==
  ASSUME TypeSound, NEW c \in Call, Rebound(c)
  PROVE  Running(c) /\ job[c].kind = "recover" /\ at[c] \in {"waiting", "opening"}
  BY CallFacts DEF Rebound, StageSound, Running

\* What a move leaves of the client.
LEMMA MovesKeep ==
  ASSUME NEW c \in Call, Moves(c)
  PROVE  /\ UNCHANGED <<mixed, secret, cred, popKey, disposed, cut, registered>>
         /\ sdk' = sdk \/ RequireSocket
         /\ musig' = musig \/ RequestShare(c)
<1>1. ASSUME RequestShare(c) \/ DeriveSalt(c) \/ Aggregate(c) \/ AwaitHandshake(c)
             \/ Register(c) \/ RequestKmc(c) \/ Open(c)
      PROVE  /\ UNCHANGED <<mixed, secret, cred, popKey, disposed, cut, registered>>
             /\ sdk' = sdk \/ RequireSocket
             /\ musig' = musig \/ RequestShare(c)
  BY <1>1 DEF RequestShare, DeriveSalt, Aggregate, AwaitHandshake, Register, RequestKmc,
     Open, client, history
<1>2. ASSUME FetchKeyInfo(c) \/ KeyInfoArrives(c) \/ Seal(c) \/ Registered(c)
             \/ KmcArrives(c) \/ Export(c) \/ Recompile(c)
             \/ PostContainer(c) \/ ContainerStored(c) \/ RootPatched(c)
             \/ RecoveryArrives(c) \/ RequestStatus(c) \/ StatusArrives(c) \/ GiveUp(c)
      PROVE  /\ UNCHANGED <<mixed, secret, cred, popKey, disposed, cut, registered>>
             /\ sdk' = sdk /\ musig' = musig
  BY <1>2 DEF FetchKeyInfo, KeyInfoArrives, Seal, Registered, KmcArrives, Export, Recompile,
     PostContainer, ContainerStored, RootPatched, RecoveryArrives, RequestStatus,
     StatusArrives, GiveUp, client, history
<1> QED
  BY <1>1, <1>2 DEF Moves

LEMMA PopKept ==
  ASSUME PopSound, UNCHANGED <<mixed, secret, popKey>>, \A d \in Call : Carried(d),
         sdk'.pop \in {sdk.pop, popKey, "none"},
         \/ musig'.pop \in {musig.pop, "none"}
         \/ /\ \A d \in Call : ~Rebound(d)
            /\ musig'.pop = popKey
  PROVE  PopSound'
<1> SUFFICES ASSUME ~mixed PROVE PopSound'
  BY DEF PopSound
<1>1. \A d \in Call : Rebound(d)' <=> Rebound(d)
  BY DEF Carried, Rebound
<1>2. \A d \in Call : Rebound(d) => job'[d].orig = secret
  BY DEF Carried, PopSound
<1>3. \A c, d \in Call : Rebound(c) /\ Running(d)' => d = c
  BY DEF Carried, PopSound
<1>4. (\A c \in Call : ~Rebound(c)) => popKey = secret /\ sdk'.pop \in {secret, "none"}
  BY DEF PopSound
<1>5. musig'.pop \in {secret, "none"}
  BY <1>4 DEF PopSound
<1> QED
  BY <1>1, <1>2, <1>3, <1>4, <1>5 DEF PopSound

LEMMA MovesPop ==
  ASSUME TypeSound, PopSound, NEW c \in Call, Moves(c)
  PROVE  PopSound'
<1>1. \A d \in Call : Carried(d)
  BY MovesCarry
<1>2. UNCHANGED <<mixed, secret, popKey>>
  BY MovesKeep
<1>3. sdk'.pop \in {sdk.pop, popKey, "none"}
  <2>1. [pop |-> popKey, up |-> FALSE].pop = popKey
    OBVIOUS
  <2> QED
    BY <2>1, MovesKeep DEF RequireSocket
<1>4. CASE musig' = musig
  BY <1>1, <1>2, <1>3, <1>4, PopKept
<1>5. CASE RequestShare(c)
  <2>1. Running(c) /\ job[c].kind = "create"
    BY <1>5 DEF RequestShare, Running
  <2>2. [pop |-> popKey, up |-> TRUE].pop = popKey
    OBVIOUS
  <2>3. musig'.pop \in {musig.pop, popKey}
    BY <1>5, <2>2 DEF RequestShare
  <2>4. CASE mixed
    BY <1>2, <2>4 DEF PopSound
  <2>5. CASE ~mixed
    <3>1. \A d \in Call : ~Rebound(d)
      BY <2>1, <2>5, ReboundRuns DEF PopSound
    <3> QED
      BY <1>1, <1>2, <1>3, <2>3, <3>1, PopKept
  <2> QED
    BY <2>4, <2>5
<1> QED
  BY <1>4, <1>5, MovesKeep

\* A call begins: no call is rebound, or the two are mixed.
LEMMA BeginPop ==
  ASSUME TypeSound, PopSound, NEW c \in Call, NEW kind \in Kinds, NEW k \in Key,
         Begin(c, kind, k) \/ BeginDisposed(c, kind, k) \/ BeginStatus(c, k)
  PROVE  PopSound'
<1>1. /\ UNCHANGED <<secret, popKey, musig>>
      /\ sdk' = sdk \/ RequireSocket
      /\ at[c] = "ready"
  BY DEF Begin, BeginDisposed, BeginStatus, client
<1>2. job[c].orig = "none" /\ ~Running(c)
  BY <1>1, CallFacts DEF StageSound, Running
<1>3. PICK s \in Stages, j \in JobType :
        /\ at' = [at EXCEPT ![c] = s] /\ job' = [job EXCEPT ![c] = j] /\ j.orig = "none"
        /\ s = "failed" \/ mixed' = (mixed \/ \E d \in Call : Rebound(d))
        /\ mixed => mixed'
  <2>1. CASE Begin(c, kind, k)
    <3>1. Begun(c, kind, k) \in JobType /\ Begun(c, kind, k).orig = "none"
      BY BegunTyped
    <3> QED
      BY <2>1, <3>1 DEF Begin, To, Stages
  <2>2. CASE BeginDisposed(c, kind, k)
    <3>1. Begun(c, kind, k) \in JobType /\ Begun(c, kind, k).orig = "none"
      BY BegunTyped
    <3> QED
      BY <2>2, <3>1 DEF BeginDisposed, Stages, history
  <2>3. CASE BeginStatus(c, k)
    <3> DEFINE b == Begun(c, "status", k)
               j == [b EXCEPT !.live = TRUE, !.pop = sdk'.pop]
    <3>1. b \in JobType /\ b.orig = "none"
      BY BegunTyped DEF Kinds
    <3>2. sdk'.pop \in Pop
      BY <2>3, SocketThere DEF BeginStatus
    <3>3. To(c, "hashed", j)
      BY <2>3 DEF BeginStatus
    <3> HIDE DEF b
    <3>4. j \in JobType /\ j.orig = "none"
      BY <3>1, <3>2 DEF JobType
    <3> HIDE DEF j
    <3> QED
      BY <2>3, <3>3, <3>4 DEF BeginStatus, To, Stages
  <2> QED
    BY <2>1, <2>2, <2>3
<1>4. \A d \in Call : job'[d].orig = job[d].orig
  BY <1>2, <1>3 DEF TypeSound, JobsSound
<1>5. \A d \in Call \ {c} : at'[d] = at[d]
  BY <1>3
<1>6. \A d \in Call : Rebound(d)' <=> Rebound(d)
  BY <1>4 DEF Rebound
<1>7. sdk'.pop \in {sdk.pop, popKey}
  <2>1. [pop |-> popKey, up |-> FALSE].pop = popKey
    OBVIOUS
  <2> QED
    BY <1>1, <2>1 DEF RequireSocket
<1>8. CASE s = "failed"
  <2>1. \A d \in Call : Running(d)' => Running(d)
    BY <1>3, <1>5, <1>8 DEF TypeSound, JobsSound, Running
  <2> QED
    BY <1>1, <1>3, <1>4, <1>6, <1>7, <2>1 DEF PopSound
<1>9. CASE mixed' = (mixed \/ \E d \in Call : Rebound(d))
  BY <1>1, <1>4, <1>6, <1>7, <1>9 DEF PopSound
<1> QED
  BY <1>3, <1>8, <1>9

LEMMA RecoverFromKitPop ==
  ASSUME TypeSound, PopSound, NEW c \in Call, RecoverFromKit(c)
  PROVE  PopSound'
<1>1. /\ at[c] = "hashed" /\ job[c].kind = "recover" /\ at' = [at EXCEPT ![c] = "waiting"]
      /\ UNCHANGED <<secret, musig>>
  BY DEF RecoverFromKit
<1>2. job[c] \in JobType /\ job[c].orig = "none" /\ Running(c)
  BY <1>1, CallFacts DEF StageSound, Running
<1>3. \A d \in Call : Running(d)' => Running(d)
  BY <1>1, <1>2 DEF Running, TypeSound, JobsSound
<1>4. PICK kit \in Kit : KeepPop(c, kit) \/ Rebind(c, kit)
  BY DEF RecoverFromKit, TypeSound, StateSound
<1>5. CASE KeepPop(c, kit)
  <2> DEFINE j == [job[c] EXCEPT !.kit = kit, !.pop = sdk'.pop, !.live = TRUE]
  <2>1. j.orig = "none"
    BY <1>2 DEF JobType
  <2>2. job' = [job EXCEPT ![c] = j] /\ UNCHANGED <<popKey, mixed>> /\ RequireSocket
    BY <1>5 DEF KeepPop
  <2> HIDE DEF j
  <2>3. \A d \in Call : job'[d].orig = job[d].orig
    BY <1>2, <2>1, <2>2 DEF TypeSound, JobsSound
  <2>4. sdk'.pop \in {sdk.pop, popKey}
    <3>1. [pop |-> popKey, up |-> FALSE].pop = popKey
      OBVIOUS
    <3> QED
      BY <2>2, <3>1 DEF RequireSocket
  <2> QED
    BY <1>1, <1>3, <2>2, <2>3, <2>4 DEF PopSound, Rebound
<1>6. CASE Rebind(c, kit)
  <2> DEFINE j == [job[c] EXCEPT !.kit = kit, !.orig = popKey, !.pop = kit.pop, !.live = TRUE]
             base == Orphaned(job, OnSdk)
  <2>1. j.orig = popKey
    BY <1>2 DEF JobType
  <2>2. job' = [base EXCEPT ![c] = j] /\ mixed' = (mixed \/ \E d \in Call \ {c} : Running(d))
    BY <1>6 DEF Rebind
  <2>3. base \in Bases
    BY DEF Bases, OnSdk, Stages
  <2> HIDE DEF j, base
  <2>4. job'[c] = j /\ \A d \in Call \ {c} : job'[d].orig = job[d].orig
    BY <2>2, <2>3, BaseSound, BaseCarries
  <2> SUFFICES ASSUME ~mixed' PROVE PopSound'
    BY DEF PopSound
  <2>5. ~mixed /\ \A d \in Call \ {c} : ~Running(d) /\ ~Rebound(d)
    BY <2>2, ReboundRuns
  <2>6. popKey = secret /\ popKey # "none"
    BY <1>2, <2>5, CallFacts DEF PopSound, Rebound, Pop
  <2>7. Rebound(c)' /\ \A d \in Call \ {c} : ~Rebound(d)'
    BY <2>1, <2>4, <2>5, <2>6 DEF Rebound
  <2>8. \A d \in Call \ {c} : ~Running(d)'
    BY <1>3, <2>5
  <2>9. musig'.pop \in {secret, "none"}
    BY <1>1, <2>5 DEF PopSound
  <2> QED
    BY <1>1, <2>1, <2>4, <2>6, <2>7, <2>8, <2>9 DEF PopSound
<1> QED
  BY <1>4, <1>5, <1>6

\* A recovery ends: nothing of it is left on the client.
LEMMA EndRecoveryFacts ==
  ASSUME TypeSound, NEW c \in Call, EndRecovery(c)
  PROVE  /\ job'[c].orig = "none" /\ job'[c].kind = "recover"
         /\ \A d \in Call \ {c} : /\ job'[d].orig = job[d].orig /\ job'[d].kind = job[d].kind
                                  /\ at'[d] = at[d]
         /\ Running(c) /\ at'[c] \in {"done", "failed"}
         /\ IF Rebound(c) THEN popKey' = job[c].orig /\ sdk' = NoSocket
            ELSE UNCHANGED <<popKey, sdk>>
<1>1. PICK s \in {"done", "failed"} : at' = [at EXCEPT ![c] = s]
  BY DEF EndRecovery
<1>2. Running(c) /\ job[c].kind = "recover" /\ RestorePop(c)
  BY DEF EndRecovery, Running
<1> DEFINE j == [NoJob EXCEPT !.kind = job[c].kind, !.key = job[c].key]
<1>3. j.orig = "none" /\ j.kind = "recover"
  BY <1>2 DEF NoJob
<1>4. PICK base \in Bases : job' = [base EXCEPT ![c] = j]
  <2>1. Orphaned(job, OnSdk) \in Bases
    BY DEF Bases, OnSdk, Stages
  <2> QED
    BY <1>2, <2>1 DEF RestorePop, Settled, Bases
<1> HIDE DEF j
<1>5. job'[c] = j /\ \A d \in Call \ {c} : job'[d].orig = job[d].orig /\ job'[d].kind = job[d].kind
  BY <1>4, BaseSound, BaseCarries
<1>6. at'[c] = s /\ \A d \in Call \ {c} : at'[d] = at[d]
  BY <1>1 DEF TypeSound, JobsSound
<1>7. IF Rebound(c) THEN popKey' = job[c].orig /\ sdk' = NoSocket
      ELSE UNCHANGED <<popKey, sdk>>
  BY <1>2 DEF RestorePop
<1> QED
  BY <1>2, <1>3, <1>5, <1>6, <1>7

LEMMA EndRecoveryPop ==
  ASSUME TypeSound, PopSound, NEW c \in Call, EndRecovery(c)
  PROVE  PopSound'
<1>1. UNCHANGED <<secret, musig, mixed>>
  BY DEF EndRecovery, history
<1>2. ~Rebound(c)' /\ \A d \in Call \ {c} : Rebound(d)' <=> Rebound(d)
  BY EndRecoveryFacts DEF Rebound
<1>3. ~Running(c)' /\ \A d \in Call \ {c} : Running(d)' <=> Running(d)
  BY EndRecoveryFacts DEF Running
<1> SUFFICES ASSUME ~mixed PROVE PopSound'
  BY <1>1 DEF PopSound
<1>4. \A d \in Call \ {c} : ~Rebound(d)
  BY EndRecoveryFacts DEF PopSound
<1>5. popKey' = secret /\ sdk'.pop \in {secret, "none"}
  <2>1. CASE Rebound(c)
    BY <2>1, EndRecoveryFacts DEF PopSound, NoSocket
  <2>2. CASE ~Rebound(c)
    BY <1>4, <2>2, EndRecoveryFacts DEF PopSound
  <2> QED
    BY <2>1, <2>2
<1> QED
  BY <1>1, <1>2, <1>4, <1>5 DEF PopSound

\* A server's answer or a lost socket.
LEMMA ShareCarries ==
  ASSUME TypeSound, ShareArrives
  PROVE  \A d \in Call : Carried(d)
<1>1. PICK q \in asked :
        /\ at' = [c \in Call |-> IF c \in Listening THEN "answered" ELSE at[c]]
        /\ job' = [c \in Call |-> IF c \in Listening
                                  THEN [job[c] EXCEPT !.share = q[2], !.live = FALSE]
                                  ELSE job[c]]
  BY DEF ShareArrives
<1>2. ASSUME NEW d \in Call PROVE Carried(d)
  <2>1. job[d] \in JobType
    BY CallFacts
  <2>2. CASE d \in Listening
    <3>1. at'[d] = "answered" /\ at[d] = "requested"
          /\ job'[d] = [job[d] EXCEPT !.share = q[2], !.live = FALSE]
      BY <1>1, <2>2 DEF Listening
    <3> QED
      BY <2>1, <3>1 DEF Carried, Running, JobType
  <2>3. CASE d \notin Listening
    BY <1>1, <2>3 DEF Carried, Running
  <2> QED
    BY <2>2, <2>3
<1> QED
  BY <1>2

LEMMA SocketCarries ==
  ASSUME TypeSound, Connect \/ Disconnect \/ Dispose
  PROVE  /\ \A d \in Call : Carried(d)
         /\ sdk'.pop \in {sdk.pop, "none"} /\ musig'.pop \in {musig.pop, "none"}
<1>1. CASE Connect
  <2>1. sdk \in Socket /\ sdk' = [sdk EXCEPT !.up = TRUE] /\ UNCHANGED <<at, job, musig>>
    BY <1>1 DEF Connect, TypeSound, StateSound
  <2> QED
    BY <2>1, AllCarry DEF Bases, Socket
<1>2. CASE Disconnect \/ Dispose
  <2>1. DropSockets /\ UNCHANGED at
    BY <1>2 DEF Disconnect, Dispose
  <2>2. job' \in Bases
    BY <2>1 DEF DropSockets, Bases, OnSdk, Stages
  <2> QED
    BY <2>1, <2>2, AllCarry DEF DropSockets, NoSocket
<1> QED
  BY <1>1, <1>2

LEMMA PopInductive == TypeSound /\ PopSound /\ [Next]_vars => PopSound'
<1> SUFFICES ASSUME TypeSound, PopSound, [Next]_vars PROVE PopSound'
  OBVIOUS
<1>1. CASE UNCHANGED vars
  <2>1. \A d \in Call : Carried(d)
    BY <1>1 DEF vars, Carried, Running
  <2> QED
    BY <1>1, <2>1, PopKept DEF vars, client, history
<1>2. ASSUME NEW c \in Call, NEW k \in Key, NEW kind \in Kinds,
             Begin(c, kind, k) \/ BeginDisposed(c, kind, k) \/ BeginStatus(c, k)
      PROVE  PopSound'
  BY <1>2, BeginPop
<1>3. ASSUME NEW c \in Call, NEW k \in Key, BeginStatus(c, k) PROVE PopSound'
  BY <1>3, BeginPop DEF Kinds
<1>4. ASSUME NEW c \in Call, Moves(c) PROVE PopSound'
  BY <1>4, MovesPop
<1>5. ASSUME NEW c \in Call, RecoverFromKit(c) \/ EndRecovery(c) PROVE PopSound'
  BY <1>5, RecoverFromKitPop, EndRecoveryPop
<1>6. CASE ShareArrives
  BY <1>6, ShareCarries, PopKept DEF ShareArrives, client, history
<1>7. CASE Connect \/ Disconnect \/ Dispose
  <2>1. UNCHANGED <<mixed, secret, popKey>>
    BY <1>7 DEF Connect, Disconnect, Dispose, history
  <2> QED
    BY <1>7, <2>1, SocketCarries, PopKept
<1> QED
  BY <1>1, <1>2, <1>3, <1>4, <1>5, <1>6, <1>7 DEF Next, Moves

LEMMA PopInvariant == Spec => []PopSound
<1>1. Init => PopSound
  BY DEF Init, PopSound, Rebound, NoJob, NoSocket
<1> QED
  BY <1>1, TypeInvariant, PopInductive, PTL DEF Spec

\* Once no recovery runs the client and its sockets sign with the user's own
\* PoP key, provided no recovery ran beside another call.
THEOREM PopComesBack == Spec => []PopRestored
<1>1. PopSound => PopRestored
  BY DEF PopSound, PopRestored
<1> QED
  BY <1>1, PopInvariant, PTL

-----------------------------------------------------------------------------
(* A disposed client.  When dispose() overtook no call, whatever runs later *)
(* is a status call: every other method throws.                            *)

QuietSound ==
  disposed /\ ~cut =>
    /\ priv = "scrambled" /\ musig = NoSocket
    /\ \A c \in Call : Running(c) => job[c].kind = "status"
    /\ (\A c \in Call : job[c].kind # "status") => sdk = NoSocket

\* The moves of a status call.
StatusMoves(c) == job[c].kind = "status" /\ (RequestStatus(c) \/ StatusArrives(c) \/ GiveUp(c))

LEMMA OtherMoves ==
  ASSUME TypeSound, NEW c \in Call, Moves(c), ~StatusMoves(c)
  PROVE  job[c].kind # "status"
<1>1. StageSound(c)
  BY CallFacts
<1>2. ASSUME RequestShare(c) \/ DeriveSalt(c) \/ Aggregate(c) \/ AwaitHandshake(c)
             \/ FetchKeyInfo(c) \/ KeyInfoArrives(c) \/ Seal(c) \/ Register(c) \/ Registered(c)
      PROVE  job[c].kind # "status"
  BY <1>1, <1>2 DEF StageSound, RequestShare, DeriveSalt, Aggregate, AwaitHandshake,
     FetchKeyInfo, KeyInfoArrives, Seal, Register, Registered
<1>3. ASSUME RequestKmc(c) \/ KmcArrives(c) \/ Open(c) \/ Export(c) \/ Recompile(c)
             \/ PostContainer(c) \/ ContainerStored(c) \/ RootPatched(c) \/ RecoveryArrives(c)
      PROVE  job[c].kind # "status"
  BY <1>1, <1>3 DEF StageSound, RequestKmc, KmcArrives, Open, Export, Recompile,
     PostContainer, ContainerStored, RootPatched, RecoveryArrives
<1> QED
  BY <1>2, <1>3 DEF Moves, StatusMoves

LEMMA QuietKept ==
  ASSUME QuietSound, UNCHANGED <<disposed, cut, priv, musig, sdk>>, \A d \in Call : Carried(d)
  PROVE  QuietSound'
<1> SUFFICES ASSUME disposed, ~cut PROVE QuietSound'
  BY DEF QuietSound
<1>1. \A d \in Call : job'[d].kind = job[d].kind /\ (Running(d)' => Running(d))
  BY DEF Carried
<1> QED
  BY <1>1 DEF QuietSound

LEMMA MovesQuiet ==
  ASSUME TypeSound, QuietSound, NEW c \in Call, Moves(c)
  PROVE  QuietSound'
<1>1. \A d \in Call : Carried(d)
  BY MovesCarry
<1>2. UNCHANGED <<disposed, cut>>
  BY MovesKeep
<1>3. CASE StatusMoves(c)
  BY <1>1, <1>3, QuietKept DEF StatusMoves, RequestStatus, StatusArrives, GiveUp, client, history
<1>4. CASE ~StatusMoves(c)
  <2>1. Running(c) /\ job[c].kind # "status"
    BY <1>4, MovesRun, OtherMoves
  <2> QED
    BY <1>2, <2>1 DEF QuietSound
<1> QED
  BY <1>3, <1>4

LEMMA BeginQuiet ==
  ASSUME TypeSound, QuietSound, NEW c \in Call, NEW kind \in Kinds, NEW k \in Key,
         Begin(c, kind, k) \/ BeginDisposed(c, kind, k) \/ BeginStatus(c, k)
  PROVE  QuietSound'
<1>1. CASE Begin(c, kind, k)
  BY <1>1 DEF Begin, QuietSound
<1>2. CASE BeginDisposed(c, kind, k)
  <2>1. UNCHANGED <<disposed, cut, priv, musig, sdk>>
    BY <1>2 DEF BeginDisposed, client, history
  <2>2. at' = [at EXCEPT ![c] = "failed"] /\ job' = [job EXCEPT ![c] = Begun(c, kind, k)]
    BY <1>2 DEF BeginDisposed
  <2>3. job[c].kind = "none"
    BY <1>2, CallFacts DEF BeginDisposed, StageSound
  <2>4. ~Running(c)' /\ \A d \in Call \ {c} : at'[d] = at[d] /\ job'[d] = job[d]
    BY <2>2 DEF Running, TypeSound, JobsSound
  <2>5. \A d \in Call \ {c} : Running(d)' <=> Running(d)
    BY <2>4 DEF Running
  <2> QED
    BY <2>1, <2>3, <2>4, <2>5 DEF QuietSound
<1>3. CASE BeginStatus(c, k)
  <2>1. UNCHANGED <<disposed, cut, priv, musig>>
    BY <1>3 DEF BeginStatus
  <2> DEFINE b == Begun(c, "status", k)
             j == [b EXCEPT !.live = TRUE, !.pop = sdk'.pop]
  <2>2. b \in JobType /\ b.kind = "status"
    BY BegunTyped DEF Kinds
  <2>3. To(c, "hashed", j)
    BY <1>3 DEF BeginStatus
  <2> HIDE DEF b
  <2>4. j.kind = "status"
    BY <2>2 DEF JobType
  <2> HIDE DEF j
  <2>5. job'[c].kind = "status" /\ \A d \in Call \ {c} : at'[d] = at[d] /\ job'[d] = job[d]
    BY <2>3, <2>4 DEF To, TypeSound, JobsSound
  <2>6. \A d \in Call \ {c} : Running(d)' <=> Running(d)
    BY <2>5 DEF Running
  <2> QED
    BY <2>1, <2>5, <2>6 DEF QuietSound
<1> QED
  BY <1>1, <1>2, <1>3

LEMMA QuietInductive == TypeSound /\ QuietSound /\ [Next]_vars => QuietSound'
<1> SUFFICES ASSUME TypeSound, QuietSound, [Next]_vars PROVE QuietSound'
  OBVIOUS
<1>1. CASE UNCHANGED vars
  <2>1. \A d \in Call : Carried(d)
    BY <1>1 DEF vars, Carried, Running
  <2> QED
    BY <1>1, <2>1, QuietKept DEF vars, client, history
<1>2. ASSUME NEW c \in Call, NEW k \in Key, NEW kind \in Kinds,
             Begin(c, kind, k) \/ BeginDisposed(c, kind, k) \/ BeginStatus(c, k)
      PROVE  QuietSound'
  BY <1>2, BeginQuiet
<1>3. ASSUME NEW c \in Call, NEW k \in Key, BeginStatus(c, k) PROVE QuietSound'
  BY <1>3, BeginQuiet DEF Kinds
<1>4. ASSUME NEW c \in Call, Moves(c) PROVE QuietSound'
  BY <1>4, MovesQuiet
<1>5. ASSUME NEW c \in Call, RecoverFromKit(c) \/ EndRecovery(c) PROVE QuietSound'
  <2>1. Running(c) /\ job[c].kind = "recover"
    BY <1>5 DEF RecoverFromKit, EndRecovery, Running
  <2>2. UNCHANGED <<disposed, cut>>
    BY <1>5 DEF RecoverFromKit, EndRecovery, history
  <2> QED
    BY <2>1, <2>2 DEF QuietSound
<1>6. CASE ShareArrives
  BY <1>6, ShareCarries, QuietKept DEF ShareArrives, client, history
<1>7. CASE Connect
  <2>1. UNCHANGED <<disposed, cut, priv, musig, at, job>> /\ sdk # NoSocket
    BY <1>7 DEF Connect, history
  <2> QED
    BY <2>1 DEF QuietSound, Running
<1>8. CASE Disconnect
  <2>1. \A d \in Call : Carried(d)
    BY <1>8, SocketCarries
  <2>2. \A d \in Call : job'[d].kind = job[d].kind /\ (Running(d)' => Running(d))
    BY <2>1 DEF Carried
  <2>3. UNCHANGED <<disposed, cut, priv>> /\ sdk' = NoSocket /\ musig' = NoSocket
    BY <1>8 DEF Disconnect, DropSockets, history
  <2> QED
    BY <2>2, <2>3 DEF QuietSound
<1>9. CASE Dispose
  <2>1. \A d \in Call : Running(d)' => Running(d)
    BY <1>9, SocketCarries DEF Carried
  <2>2. /\ priv' = "scrambled" /\ sdk' = NoSocket /\ musig' = NoSocket
        /\ cut' = (cut \/ \E c \in Call : Running(c))
    BY <1>9 DEF Dispose, DropSockets
  <2> QED
    BY <2>1, <2>2 DEF QuietSound
<1> QED
  BY <1>1, <1>2, <1>3, <1>4, <1>5, <1>6, <1>7, <1>8, <1>9 DEF Next, Moves

LEMMA QuietInvariant == Spec => []QuietSound
<1>1. Init => QuietSound
  BY DEF Init, QuietSound
<1> QED
  BY <1>1, TypeInvariant, QuietInductive, PTL DEF Spec

\* A client disposed of between calls holds no key and no socket again, unless
\* getAuthorizationStatus is called on it.
THEOREM StaysDisposed == Spec => []DisposedIsQuiet
<1>1. QuietSound => DisposedIsQuiet
  BY DEF QuietSound, DisposedIsQuiet
<1> QED
  BY <1>1, QuietInvariant, PTL

-----------------------------------------------------------------------------
(* The PoP key a REST call signs with.  It is the client's own, and a      *)
(* handshake with it went before.                                          *)

\* Calls whose REST requests follow an answer the server gave on the socket.
Known(c) ==
  \/ at[c] = "fetching"
  \/ /\ job[c].kind = "update"
     /\ at[c] \in {"opening", "salting", "deriving", "sealing", "posting", "patching"}

KnownSound ==
  ~mixed =>
    /\ sdk.up => registered = popKey
    /\ \A c \in Call : Known(c) => registered = popKey
    /\ \A c \in Call : at[c] \in {"fetching", "posting", "patching"} => job[c].pop = popKey
    /\ \A c \in Call : why[c] # "refused"

\* The other calls are left alone by a move.
MovesOnly(c, reasons) ==
  /\ \A d \in Call \ {c} : at'[d] = at[d] /\ job'[d] = job[d] /\ why'[d] = why[d]
  /\ why'[c] \in {why[c]} \cup reasons

LEMMA ToOnly ==
  ASSUME TypeSound, NEW c \in Call, NEW s, NEW j, To(c, s, j)
  PROVE  MovesOnly(c, {}) /\ at'[c] = s /\ job'[c] = j
  BY DEF To, TypeSound, JobsSound, MovesOnly

LEMMA SettledOnly ==
  ASSUME TypeSound, NEW c \in Call, NEW reasons,
         Resolve(c) \/ \E reason \in reasons : Reject(c, reason)
  PROVE  MovesOnly(c, reasons) /\ at'[c] \in {"done", "failed"}
<1>1. why \in [Call -> Reasons]
  BY WhyTyped
<1> QED
  BY <1>1 DEF Resolve, Reject, Settled, TypeSound, JobsSound, MovesOnly

\* A move after which its call signs as the server knows, if it asks anything.
LEMMA KnownKept ==
  ASSUME TypeSound, KnownSound, NEW c \in Call, MovesOnly(c, Reasons \ {"refused"}),
         UNCHANGED <<mixed, popKey, registered>>, sdk'.up => sdk.up,
         Known(c)' => Known(c) \/ registered = popKey,
         at'[c] \in {"fetching", "posting", "patching"} => job'[c].pop = popKey
  PROVE  KnownSound'
<1> SUFFICES ASSUME ~mixed PROVE KnownSound'
  BY DEF KnownSound
<1>1. \A d \in Call \ {c} : Known(d)' => Known(d)
  BY DEF MovesOnly, Known
<1>2. \A d \in Call : Known(d)' => registered = popKey
  BY <1>1 DEF KnownSound
<1>3. \A d \in Call : at'[d] \in {"fetching", "posting", "patching"} => job'[d].pop = popKey
  BY DEF KnownSound, MovesOnly
<1>4. \A d \in Call : why'[d] # "refused"
  BY DEF KnownSound, MovesOnly, Reasons
<1> QED
  BY <1>2, <1>3, <1>4 DEF KnownSound

\* A socket made anew is not connected.
LEMMA SocketDown ==
  ASSUME sdk' = sdk \/ RequireSocket
  PROVE  sdk'.up => sdk.up
<1>1. [pop |-> popKey, up |-> FALSE].up = FALSE
  OBVIOUS
<1> QED
  BY <1>1 DEF RequireSocket

LEMMA MovesKnown ==
  ASSUME TypeSound, KnownSound, NEW c \in Call, Moves(c)
  PROVE  KnownSound'
<1> SUFFICES ASSUME ~mixed PROVE KnownSound'
  BY MovesKeep DEF KnownSound
<1>1. UNCHANGED <<mixed, popKey, registered>> /\ (sdk'.up => sdk.up)
  BY MovesKeep, SocketDown
<1>2. job[c] \in JobType /\ StageSound(c)
  BY CallFacts
<1>3. ASSUME NEW s \in Stages, NEW j, To(c, s, j),
             s \notin {"fetching", "posting", "patching"},
             \/ s \notin {"opening", "salting", "deriving", "sealing"}
             \/ j.kind # "update"
             \/ Known(c)
             \/ registered = popKey
      PROVE  KnownSound'
  <2>1. MovesOnly(c, {}) /\ at'[c] = s /\ job'[c] = j
    BY <1>3, ToOnly
  <2>2. MovesOnly(c, Reasons \ {"refused"})
    BY <2>1 DEF MovesOnly
  <2>3. Known(c)' => Known(c) \/ registered = popKey
    BY <1>3, <2>1 DEF Known
  <2> QED
    BY <1>1, <1>3, <2>1, <2>2, <2>3, KnownKept
<1>4. ASSUME Resolve(c) \/ \E reason \in {"timeout", "server", "sealed"} : Reject(c, reason)
      PROVE  KnownSound'
  <2>1. MovesOnly(c, {"timeout", "server", "sealed"}) /\ at'[c] \in {"done", "failed"}
    BY <1>4, SettledOnly
  <2>2. MovesOnly(c, Reasons \ {"refused"})
    BY <2>1 DEF MovesOnly, Reasons
  <2> QED
    BY <1>1, <2>1, <2>2, KnownKept DEF Known
<1>5. CASE \/ RequestShare(c) \/ AwaitHandshake(c) \/ Register(c) \/ RequestKmc(c)
           \/ RequestStatus(c)
  <2>1. PICK s \in {"requested", "connecting", "registering", "waiting"} : \E j : To(c, s, j)
    BY <1>5 DEF RequestShare, AwaitHandshake, Register, RequestKmc, RequestStatus
  <2> QED
    BY <1>3, <2>1 DEF Stages
<1>6. CASE DeriveSalt(c)
  <2>1. MovesOnly(c, {}) /\ at'[c] = "salting" /\ Carried(c)
    BY <1>6, ToOnly, MovesCarry DEF DeriveSalt, Moves
  <2>2. job[c].kind \in {"create", "createAuth"}
    BY <1>2, <1>6 DEF DeriveSalt, StageSound
  <2>3. ~Known(c)'
    BY <2>1, <2>2 DEF Known, Carried
  <2>4. MovesOnly(c, Reasons \ {"refused"})
    BY <2>1 DEF MovesOnly
  <2> QED
    BY <1>1, <2>1, <2>3, <2>4, KnownKept
<1>7. CASE Aggregate(c) \/ Recompile(c) \/ Seal(c)
  <2>1. \E s \in {"deriving", "sealing"} : \E j : To(c, s, j) /\ j.kind = job[c].kind
    <3>1. [job[c] EXCEPT !.kek = cred].kind = job[c].kind
          /\ [job[c] EXCEPT !.slot = cred].kind = job[c].kind
      BY <1>2 DEF JobType
    <3> QED
      BY <1>7, <3>1 DEF Aggregate, Recompile, Seal
  <2>2. at[c] \in {"salting", "deriving"}
    BY <1>7 DEF Aggregate, Recompile, Seal
  <2>3. job[c].kind # "update" \/ Known(c)
    BY <2>2 DEF Known
  <2> QED
    BY <1>3, <2>1, <2>3 DEF Stages
<1>8. CASE FetchKeyInfo(c)
  <2>1. MovesOnly(c, {}) /\ at'[c] = "fetching"
        /\ job'[c] = [job[c] EXCEPT !.pop = popKey, !.live = FALSE]
    BY <1>8, ToOnly DEF FetchKeyInfo
  <2>2. registered = popKey
    BY <1>8 DEF FetchKeyInfo, KnownSound
  <2>3. job'[c].pop = popKey
    BY <1>2, <2>1 DEF JobType
  <2>4. MovesOnly(c, Reasons \ {"refused"})
    BY <2>1 DEF MovesOnly
  <2> QED
    BY <1>1, <2>2, <2>3, <2>4, KnownKept
<1>9. CASE KeyInfoArrives(c)
  <2>1. Verified(c)
    BY <1>9 DEF KeyInfoArrives, Known, KnownSound, Verified
  <2> DEFINE j == [job[c] EXCEPT !.share = job[c].key, !.kek = cred]
  <2>2. To(c, "deriving", j)
    BY <1>9, <2>1 DEF KeyInfoArrives
  <2>3. registered = popKey
    BY <1>9 DEF KeyInfoArrives, Known, KnownSound
  <2> HIDE DEF j
  <2> QED
    BY <1>3, <2>2, <2>3 DEF Stages
<1>10. CASE Registered(c)
  BY <1>4, <1>10 DEF Registered
<1>11. CASE KmcArrives(c)
  <2>1. registered = popKey
    BY <1>11 DEF KmcArrives, Served, KnownSound
  <2>2. CASE server[job[c].key] = NoKey
    BY <1>4, <1>11, <2>2 DEF KmcArrives
  <2>3. CASE server[job[c].key] # NoKey
    <3>1. \E j : To(c, "opening", j)
      BY <1>11, <2>3 DEF KmcArrives
    <3> QED
      BY <1>3, <2>1, <3>1 DEF Stages
  <2> QED
    BY <2>2, <2>3
<1>12. CASE Open(c)
  <2>1. CASE Resolve(c) \/ Reject(c, "sealed")
    BY <1>4, <2>1
  <2>2. CASE job[c].kind = "update" /\ \E j : To(c, "salting", j)
    <3>1. Known(c)
      BY <1>12, <2>2 DEF Open, Known
    <3> QED
      BY <1>3, <2>2, <3>1 DEF Stages
  <2> QED
    BY <1>12, <2>1, <2>2 DEF Open
<1>13. CASE Export(c) \/ StatusArrives(c)
  BY <1>4, <1>13 DEF Export, StatusArrives
<1>14. CASE PostContainer(c)
  <2>1. MovesOnly(c, {}) /\ at'[c] = "posting"
        /\ job'[c] = [job[c] EXCEPT !.pop = popKey, !.h1 = h1]
    BY <1>14, ToOnly DEF PostContainer
  <2>2. Known(c)
    BY <1>14 DEF PostContainer, Known
  <2>3. job'[c].pop = popKey
    BY <1>2, <2>1 DEF JobType
  <2>4. MovesOnly(c, Reasons \ {"refused"})
    BY <2>1 DEF MovesOnly
  <2> QED
    BY <1>1, <2>2, <2>3, <2>4, KnownKept
<1>15. CASE ContainerStored(c) \/ RootPatched(c)
  <2>1. Verified(c) /\ registered = popKey
    BY <1>2, <1>15 DEF ContainerStored, RootPatched, Known, KnownSound, Verified, StageSound
  <2>2. CASE Resolve(c) \/ Reject(c, "timeout")
    BY <1>4, <2>2
  <2>3. CASE To(c, "patching", [job[c] EXCEPT !.pop = popKey])
    <3>1. MovesOnly(c, {}) /\ job'[c] = [job[c] EXCEPT !.pop = popKey]
      BY <2>3, ToOnly
    <3>2. job'[c].pop = popKey
      BY <1>2, <3>1 DEF JobType
    <3>3. MovesOnly(c, Reasons \ {"refused"})
      BY <3>1 DEF MovesOnly
    <3> QED
      BY <1>1, <2>1, <3>2, <3>3, KnownKept
  <2> QED
    BY <1>15, <2>1, <2>2, <2>3 DEF ContainerStored, RootPatched
<1>16. CASE RecoveryArrives(c)
  <2>1. MovesOnly(c, {}) /\ at'[c] = "opening" /\ Carried(c) /\ job[c].kind = "recover"
    BY <1>16, ToOnly, MovesCarry DEF RecoveryArrives, Moves
  <2>2. ~Known(c)'
    BY <2>1 DEF Known, Carried
  <2>3. MovesOnly(c, Reasons \ {"refused"})
    BY <2>1 DEF MovesOnly
  <2> QED
    BY <1>1, <2>1, <2>2, <2>3, KnownKept
<1>17. CASE GiveUp(c)
  BY <1>4, <1>17 DEF GiveUp
<1> QED
  BY <1>5, <1>6, <1>7, <1>8, <1>9, <1>10, <1>11, <1>12, <1>13, <1>14, <1>15, <1>16, <1>17
  DEF Moves

LEMMA BeginKnown ==
  ASSUME TypeSound, KnownSound, NEW c \in Call, NEW kind \in Kinds, NEW k \in Key,
         Begin(c, kind, k) \/ BeginDisposed(c, kind, k) \/ BeginStatus(c, k)
  PROVE  KnownSound'
<1>1. /\ UNCHANGED <<popKey, registered>> /\ (sdk' = sdk \/ RequireSocket)
      /\ mixed => mixed'
  <2>1. CASE Begin(c, kind, k)
    BY <2>1 DEF Begin
  <2>2. CASE BeginDisposed(c, kind, k)
    BY <2>2 DEF BeginDisposed, client, history
  <2>3. CASE BeginStatus(c, k)
    BY <2>3 DEF BeginStatus
  <2> QED
    BY <2>1, <2>2, <2>3
<1>2. sdk'.up => sdk.up
  BY <1>1, SocketDown
<1>3. /\ \A d \in Call \ {c} : at'[d] = at[d] /\ job'[d] = job[d] /\ why'[d] = why[d]
      /\ at'[c] \in {"hashed", "failed"} /\ why'[c] \in {why[c], "disposed"}
  <2>1. CASE Begin(c, kind, k) \/ BeginStatus(c, k)
    BY <2>1 DEF Begin, BeginStatus, To, TypeSound, JobsSound
  <2>2. CASE BeginDisposed(c, kind, k)
    BY <2>2 DEF BeginDisposed, TypeSound, JobsSound, StateSound
  <2> QED
    BY <2>1, <2>2
<1>4. ~Known(c)' /\ \A d \in Call \ {c} : Known(d)' => Known(d)
  BY <1>3 DEF Known
<1> SUFFICES ASSUME ~mixed PROVE KnownSound'
  BY <1>1 DEF KnownSound
<1>5. \A d \in Call : Known(d)' => registered = popKey
  BY <1>4 DEF KnownSound
<1>6. \A d \in Call : at'[d] \in {"fetching", "posting", "patching"} => job'[d].pop = popKey
  BY <1>3 DEF KnownSound
<1>7. \A d \in Call : why'[d] # "refused"
  BY <1>3 DEF KnownSound
<1> QED
  BY <1>1, <1>2, <1>5, <1>6, <1>7 DEF KnownSound

LEMMA KnownRuns ==
  ASSUME NEW c \in Call, Known(c) \/ at[c] \in {"fetching", "posting", "patching"}
  PROVE  Running(c)
  BY DEF Known, Running

LEMMA RecoverFromKitKnown ==
  ASSUME TypeSound, PopSound, KnownSound, NEW c \in Call, RecoverFromKit(c)
  PROVE  KnownSound'
<1>1. /\ at[c] = "hashed" /\ at' = [at EXCEPT ![c] = "waiting"]
      /\ UNCHANGED <<registered, why>>
  BY DEF RecoverFromKit
<1>2. at'[c] = "waiting" /\ \A d \in Call \ {c} : at'[d] = at[d]
  BY <1>1 DEF TypeSound, JobsSound
<1>3. ~Known(c)' /\ Running(c)
  BY <1>1, <1>2 DEF Known, RecoverFromKit, Running
<1>4. PICK kit \in kits : KeepPop(c, kit) \/ Rebind(c, kit)
  BY DEF RecoverFromKit
<1>5. CASE KeepPop(c, kit)
  <2>1. UNCHANGED <<popKey, mixed>> /\ RequireSocket
        /\ job' = [job EXCEPT ![c] = [job[c] EXCEPT !.kit = kit, !.pop = sdk'.pop, !.live = TRUE]]
    BY <1>5 DEF KeepPop
  <2>2. \A d \in Call \ {c} : job'[d] = job[d]
    BY <2>1 DEF TypeSound, JobsSound
  <2>3. \A d \in Call \ {c} : Known(d)' => Known(d)
    BY <1>2, <2>2 DEF Known
  <2>4. sdk'.up => sdk.up
    BY <2>1, SocketDown
  <2> SUFFICES ASSUME ~mixed PROVE KnownSound'
    BY <2>1 DEF KnownSound
  <2>5. \A d \in Call : Known(d)' => registered = popKey
    BY <1>3, <2>3 DEF KnownSound
  <2>6. \A d \in Call : at'[d] \in {"fetching", "posting", "patching"} => job'[d].pop = popKey
    BY <1>2, <2>2 DEF KnownSound
  <2> QED
    BY <1>1, <2>1, <2>4, <2>5, <2>6 DEF KnownSound
<1>6. CASE Rebind(c, kit)
  <2> SUFFICES ASSUME ~mixed' PROVE KnownSound'
    BY DEF KnownSound
  <2>1. ~mixed /\ \A d \in Call \ {c} : ~Running(d)
    BY <1>6 DEF Rebind
  <2>2. \A d \in Call : at'[d] \notin {"fetching", "posting", "patching"}
    BY <1>2, <2>1 DEF Running
  <2>3. \A d \in Call : ~Known(d)'
    <3>1. \A d \in Call \ {c} : at[d] \in {"ready", "done", "failed"}
      BY <2>1 DEF Running
    <3> QED
      BY <1>2, <1>3, <3>1 DEF Known
  <2>4. sdk'.up = FALSE
    BY <1>6 DEF Rebind
  <2> QED
    BY <1>1, <2>1, <2>2, <2>3, <2>4 DEF KnownSound
<1> QED
  BY <1>4, <1>5, <1>6

LEMMA EndRecoveryKnown ==
  ASSUME TypeSound, PopSound, KnownSound, NEW c \in Call, EndRecovery(c)
  PROVE  KnownSound'
<1>1. UNCHANGED <<registered, mixed>>
  BY DEF EndRecovery, history
<1>2. \A d \in Call : why'[d] \in {why[d], "sealed", "timeout"}
  BY WhyTyped DEF EndRecovery
<1>3. ~Known(c)' /\ at'[c] \in {"done", "failed"} /\ Running(c)
  BY EndRecoveryFacts DEF Known
<1>4. \A d \in Call \ {c} : Known(d)' => Known(d)
  BY EndRecoveryFacts DEF Known
<1> SUFFICES ASSUME ~mixed PROVE KnownSound'
  BY <1>1 DEF KnownSound
<1>5. \A d \in Call : why'[d] # "refused"
  BY <1>2 DEF KnownSound
<1>6. CASE Rebound(c)
  <2>1. \A d \in Call \ {c} : ~Running(d)
    BY <1>6 DEF PopSound
  <2>2. \A d \in Call \ {c} : at[d] \in {"ready", "done", "failed"}
    BY <2>1 DEF Running
  <2>3. \A d \in Call : ~Known(d)' /\ at'[d] \notin {"fetching", "posting", "patching"}
    BY <1>3, <2>2, EndRecoveryFacts DEF Known
  <2>4. sdk'.up = FALSE
    BY <1>6, EndRecoveryFacts DEF NoSocket
  <2> QED
    BY <1>1, <1>5, <2>3, <2>4 DEF KnownSound
<1>7. CASE ~Rebound(c)
  <2>1. UNCHANGED <<popKey, sdk>>
    BY <1>7, EndRecoveryFacts
  <2>2. job' = Settled(c, job)
    BY <1>7 DEF EndRecovery, RestorePop
  <2>3. \A d \in Call \ {c} : job'[d] = job[d]
    BY <2>2 DEF Settled
  <2>4. \A d \in Call : at'[d] \in {"fetching", "posting", "patching"} => job'[d].pop = popKey
    BY <1>3, <2>3, EndRecoveryFacts DEF KnownSound
  <2>5. \A d \in Call : Known(d)' => registered = popKey
    BY <1>3, <1>4 DEF KnownSound
  <2> QED
    BY <1>1, <1>5, <2>1, <2>4, <2>5 DEF KnownSound
<1> QED
  BY <1>6, <1>7

LEMMA SocketKnown ==
  ASSUME TypeSound, KnownSound, Connect \/ Disconnect \/ Dispose
  PROVE  KnownSound'
<1>1. UNCHANGED <<mixed, popKey, why, at>>
  BY DEF Connect, Disconnect, Dispose, history
<1>2. \A d \in Call : job'[d].kind = job[d].kind /\ job'[d].pop = job[d].pop
  <2>1. job' \in Bases
    BY DEF Connect, Disconnect, Dispose, DropSockets, Bases, OnSdk, Stages
  <2>2. \A d \in Call : job'[d] \in {job[d], [job[d] EXCEPT !.live = FALSE]} /\ job[d] \in JobType
    BY <2>1, BaseSound, CallFacts
  <2> QED
    BY <2>2 DEF JobType
<1>3. \A d \in Call : Known(d)' <=> Known(d)
  BY <1>1, <1>2 DEF Known
<1>4. CASE Connect
  <2>1. registered' = popKey
    BY <1>4 DEF Connect
  <2> QED
    BY <1>1, <1>2, <1>3, <2>1 DEF KnownSound
<1>5. CASE Disconnect \/ Dispose
  <2>1. registered' = registered /\ sdk'.up = FALSE
    BY <1>5 DEF Disconnect, Dispose, DropSockets, NoSocket
  <2> QED
    BY <1>1, <1>2, <1>3, <2>1 DEF KnownSound
<1> QED
  BY <1>4, <1>5

LEMMA ShareKnown ==
  ASSUME TypeSound, KnownSound, ShareArrives
  PROVE  KnownSound'
<1>1. UNCHANGED <<mixed, popKey, registered, sdk, why>>
  BY DEF ShareArrives, client, history
<1>2. \A d \in Call : at'[d] = "answered" \/ (at'[d] = at[d] /\ job'[d] = job[d])
  BY DEF ShareArrives
<1>3. \A d \in Call : Known(d)' => Known(d)
  BY <1>2 DEF Known
<1>4. \A d \in Call : at'[d] \in {"fetching", "posting", "patching"} =>
                        at'[d] = at[d] /\ job'[d] = job[d]
  BY <1>2
<1> QED
  BY <1>1, <1>3, <1>4 DEF KnownSound

LEMMA KnownInductive == TypeSound /\ PopSound /\ KnownSound /\ [Next]_vars => KnownSound'
<1> SUFFICES ASSUME TypeSound, PopSound, KnownSound, [Next]_vars PROVE KnownSound'
  OBVIOUS
<1>1. CASE UNCHANGED vars
  BY <1>1 DEF vars, client, history, KnownSound, Known
<1>2. ASSUME NEW c \in Call, NEW k \in Key, NEW kind \in Kinds,
             Begin(c, kind, k) \/ BeginDisposed(c, kind, k) \/ BeginStatus(c, k)
      PROVE  KnownSound'
  BY <1>2, BeginKnown
<1>3. ASSUME NEW c \in Call, NEW k \in Key, BeginStatus(c, k) PROVE KnownSound'
  BY <1>3, BeginKnown DEF Kinds
<1>4. ASSUME NEW c \in Call, Moves(c) PROVE KnownSound'
  BY <1>4, MovesKnown
<1>5. ASSUME NEW c \in Call, RecoverFromKit(c) \/ EndRecovery(c) PROVE KnownSound'
  BY <1>5, RecoverFromKitKnown, EndRecoveryKnown
<1>6. CASE ShareArrives
  BY <1>6, ShareKnown
<1>7. CASE Connect \/ Disconnect \/ Dispose
  BY <1>7, SocketKnown
<1> QED
  BY <1>1, <1>2, <1>3, <1>4, <1>5, <1>6, <1>7 DEF Next, Moves

\* The client makes no REST call whose PoP key the server does not know yet,
\* provided no recovery ran beside another call.
THEOREM CallsAreKnown == Spec => []NoEarlyCall
<1>1. Init => KnownSound
  BY DEF Init, KnownSound, Known, NoSocket
<1>2. KnownSound => NoEarlyCall
  BY DEF KnownSound, NoEarlyCall
<1> QED
  BY <1>1, <1>2, TypeInvariant, PopInvariant, KnownInductive, PTL DEF Spec

-----------------------------------------------------------------------------
(* What is sealed.  Nothing but the user's own secret enters an envelope,  *)
(* and a call the server accepted is of a client that has the right one.   *)

Right(got) == got.slot = "right" /\ got.kek = "right" /\ got.salt = "right"

\* The locals of a call.
JobSealed(s, j) ==
  /\ j.salt \in {secret, "none"} /\ j.slot \in {secret, "none"} /\ j.kek \in {secret, "none"}
  /\ j.got # NoKey => Right(j.got)
  /\ j.kind = "recover" /\ s \in {"waiting", "opening"} => j.kit.kek = "right"
  /\ s = "registering" => j.pop = secret
  /\ j.kind \in {"get", "export", "update"} /\ s = "waiting" => j.pop = secret
  /\ j.kind \in {"get", "export", "update"}
       /\ s \in {"opening", "salting", "deriving", "sealing", "posting"} => secret = "right"

ClientSealed ==
  /\ registered # "lost" /\ (registered = "none" => secret = "right")
  /\ popKey \in {secret, "right"}
  /\ ~disposed => cred = secret

KitsSealed == \A kit \in kits : kit.kek = "right" /\ kit.pop \in {"right", "none"}

ServerSealed == \A k \in Key : server[k] # NoKey => Right(server[k])

SealSound ==
  ~mixed /\ ~cut =>
    /\ ClientSealed /\ KitsSealed /\ ServerSealed
    /\ \A c \in Call : JobSealed(at[c], job[c])

\* Only these moves change kits and the server.
LEMMA MovesStore ==
  ASSUME NEW c \in Call, Moves(c)
  PROVE  /\ kits' = kits \/ Export(c)
         /\ server' = server \/ Registered(c) \/ ContainerStored(c) \/ RootPatched(c)
<1>1. ASSUME RequestShare(c) \/ DeriveSalt(c) \/ Aggregate(c) \/ AwaitHandshake(c)
             \/ FetchKeyInfo(c) \/ KeyInfoArrives(c) \/ Seal(c) \/ Register(c)
             \/ RequestKmc(c) \/ KmcArrives(c) \/ Open(c)
      PROVE  kits' = kits /\ server' = server
  BY <1>1 DEF RequestShare, DeriveSalt, Aggregate, AwaitHandshake, FetchKeyInfo,
     KeyInfoArrives, Seal, Register, RequestKmc, KmcArrives, Open
<1>2. ASSUME Recompile(c) \/ PostContainer(c) \/ RecoveryArrives(c) \/ RequestStatus(c)
             \/ StatusArrives(c) \/ GiveUp(c)
      PROVE  kits' = kits /\ server' = server
  BY <1>2 DEF Recompile, PostContainer, RecoveryArrives, RequestStatus, StatusArrives, GiveUp
<1>3. ASSUME Registered(c) \/ ContainerStored(c) \/ RootPatched(c) PROVE kits' = kits
  BY <1>3 DEF Registered, ContainerStored, RootPatched
<1>4. ASSUME Export(c) PROVE server' = server
  BY <1>4 DEF Export
<1> QED
  BY <1>1, <1>2, <1>3, <1>4 DEF Moves

LEMMA MovesSealed ==
  ASSUME TypeSound, SealSound, ~mixed, ~cut, NEW c \in Call, Moves(c),
         \A d \in Call \ {c} : at'[d] = at[d] /\ job'[d] = job[d],
         JobSealed(at'[c], job'[c]), KitsSealed', ServerSealed'
  PROVE  SealSound'
<1>1. UNCHANGED <<secret, cred, popKey, disposed, registered>>
  BY MovesKeep
<1>2. ClientSealed'
  BY <1>1 DEF SealSound, ClientSealed
<1>3. \A d \in Call \ {c} : JobSealed(at[d], job[d])
  BY DEF SealSound
<1>4. \A d \in Call : JobSealed(at'[d], job'[d])
  BY <1>3
<1>5. \A d \in Call : JobSealed(at[d], job[d])'
  BY <1>1, <1>4 DEF JobSealed
<1> QED
  BY <1>2, <1>5 DEF SealSound

LEMMA ToSealed ==
  ASSUME TypeSound, SealSound, ~mixed, ~cut, NEW c \in Call, Moves(c), NEW s, NEW j,
         To(c, s, j), JobSealed(s, j), KitsSealed', ServerSealed'
  PROVE  SealSound'
<1>1. MovesOnly(c, {}) /\ at'[c] = s /\ job'[c] = j
  BY ToOnly
<1> QED
  BY <1>1, MovesSealed DEF MovesOnly

LEMMA SettledSealed ==
  ASSUME TypeSound, SealSound, ~mixed, ~cut, NEW c \in Call, Moves(c),
         Resolve(c) \/ \E reason \in Reasons : Reject(c, reason), KitsSealed', ServerSealed'
  PROVE  SealSound'
<1>1. MovesOnly(c, Reasons) /\ at'[c] \in {"done", "failed"}
  BY SettledOnly
<1> DEFINE j == [NoJob EXCEPT !.kind = job[c].kind, !.key = job[c].key]
<1>2. job' = [job EXCEPT ![c] = j]
  BY DEF Resolve, Reject, Settled
<1>3. j.salt = "none" /\ j.slot = "none" /\ j.kek = "none" /\ j.got = NoKey
  BY DEF NoJob
<1> HIDE DEF j
<1>4. job'[c] = j
  BY <1>2 DEF TypeSound, JobsSound
<1>5. JobSealed(at'[c], job'[c])
  BY <1>1, <1>3, <1>4 DEF JobSealed
<1> QED
  BY <1>1, <1>5, MovesSealed DEF MovesOnly

\* A running call that is not a status call has the user's credentials.
LEMMA OwnCred ==
  ASSUME QuietSound, ClientSealed, ~cut, NEW c \in Call, Running(c), job[c].kind # "status"
  PROVE  cred = secret
  BY DEF QuietSound, ClientSealed

\* Beside a running call that is not rebound no other is, and its socket signs
\* with the user's PoP key.
LEMMA OwnSocket ==
  ASSUME TypeSound, PopSound, ~mixed, NEW c \in Call, Running(c), ~Rebound(c)
  PROVE  popKey = secret /\ (RequireSocket => sdk'.pop = secret)
<1>1. \A d \in Call : ~Rebound(d)
  BY DEF PopSound
<1>2. popKey = secret /\ sdk.pop \in {secret, "none"}
  BY <1>1 DEF PopSound
<1>3. ASSUME RequireSocket PROVE sdk'.pop = secret
  <2>1. sdk'.pop \in Pop
    BY <1>3, SocketThere
  <2>2. [pop |-> popKey, up |-> FALSE].pop = popKey
    OBVIOUS
  <2> QED
    BY <1>2, <1>3, <2>1, <2>2 DEF RequireSocket, Pop
<1> QED
  BY <1>2, <1>3

\* A call whose request is served is of a client with the right secret.
LEMMA ServedRight ==
  ASSUME TypeSound, ClientSealed, NEW c \in Call, Served(c), job[c].pop = secret
  PROVE  secret = "right"
  BY DEF Served, ClientSealed, TypeSound, StateSound, Pop

LEMMA CallSealed ==
  ASSUME TypeSound, PopSound, QuietSound, SealSound, NEW c \in Call, Moves(c)
  PROVE  SealSound'
<1> SUFFICES ASSUME ~mixed, ~cut PROVE SealSound'
  BY MovesKeep DEF SealSound
<1>1. /\ job[c] \in JobType /\ StageSound(c) /\ JobSealed(at[c], job[c])
      /\ ClientSealed /\ KitsSealed /\ ServerSealed
  BY CallFacts DEF SealSound
<1>2. Running(c)
  BY MovesRun
<1>3. job[c].kind # "status" => cred = secret
  BY <1>1, <1>2, OwnCred
<1>4. job[c].kind # "recover" => popKey = secret /\ (RequireSocket => sdk'.pop = secret)
  BY <1>2, OnlyRecovery, OwnSocket DEF Rebound
<1>5. /\ ~Export(c) => KitsSealed'
      /\ ~Registered(c) /\ ~ContainerStored(c) /\ ~RootPatched(c) => ServerSealed'
  BY <1>1, MovesStore DEF KitsSealed, ServerSealed
<1>6. CASE RequestShare(c)
  <2> DEFINE j == [job[c] EXCEPT !.priv = priv, !.live = TRUE]
  <2>1. To(c, "requested", j) /\ at[c] = "hashed"
    BY <1>6 DEF RequestShare
  <2>2. JobSealed("requested", j)
    BY <1>1 DEF JobSealed, JobType
  <2>3. KitsSealed' /\ ServerSealed'
    BY <1>1, <1>6 DEF RequestShare, KitsSealed, ServerSealed
  <2> HIDE DEF j
  <2> QED
    BY <2>1, <2>2, <2>3, ToSealed
<1>7. CASE DeriveSalt(c)
  <2>1. KitsSealed' /\ ServerSealed' /\ cred = secret /\ job[c].kind \in {"create", "createAuth"}
    BY <1>1, <1>3, <1>7 DEF DeriveSalt, KitsSealed, ServerSealed, StageSound
  <2>2. CASE at[c] = "answered"
    <3> DEFINE j == [job[c] EXCEPT !.salt = cred]
    <3>1. To(c, "salting", j)
      BY <1>7, <2>2 DEF DeriveSalt
    <3>2. JobSealed("salting", j)
      BY <1>1, <2>1 DEF JobSealed, JobType
    <3> HIDE DEF j
    <3> QED
      BY <2>1, <3>1, <3>2, ToSealed
  <2>3. CASE at[c] = "hashed"
    <3> DEFINE j == [job[c] EXCEPT !.salt = cred, !.priv = priv']
    <3>1. To(c, "salting", j)
      BY <1>7, <2>3 DEF DeriveSalt
    <3>2. JobSealed("salting", j)
      BY <1>1, <2>1 DEF JobSealed, JobType
    <3> HIDE DEF j
    <3> QED
      BY <2>1, <3>1, <3>2, ToSealed
  <2> QED
    BY <1>7, <2>2, <2>3 DEF DeriveSalt
<1>8. CASE Aggregate(c) \/ Recompile(c)
  <2> DEFINE j == [job[c] EXCEPT !.kek = cred]
  <2>1. To(c, "deriving", j) /\ at[c] = "salting" /\ job[c].kind \in {"create", "update"}
    BY <1>8 DEF Aggregate, Recompile
  <2>2. JobSealed("deriving", j)
    BY <1>1, <1>3, <2>1 DEF JobSealed, JobType
  <2>3. KitsSealed' /\ ServerSealed'
    BY <1>1, <1>8 DEF Aggregate, Recompile, KitsSealed, ServerSealed
  <2> HIDE DEF j
  <2> QED
    BY <2>1, <2>2, <2>3, ToSealed
<1>9. CASE AwaitHandshake(c)
  <2> DEFINE j == [job[c] EXCEPT !.live = TRUE]
  <2>1. To(c, "connecting", j) /\ job[c].kind = "createAuth"
    BY <1>9 DEF AwaitHandshake
  <2>2. JobSealed("connecting", j)
    BY <1>1, <2>1 DEF JobSealed, JobType
  <2>3. KitsSealed' /\ ServerSealed'
    BY <1>1, <1>9 DEF AwaitHandshake, KitsSealed, ServerSealed
  <2> HIDE DEF j
  <2> QED
    BY <2>1, <2>2, <2>3, ToSealed
<1>10. CASE FetchKeyInfo(c)
  <2> DEFINE j == [job[c] EXCEPT !.pop = popKey, !.live = FALSE]
  <2>1. To(c, "fetching", j) /\ job[c].kind = "createAuth"
    BY <1>1, <1>10 DEF FetchKeyInfo, StageSound
  <2>2. JobSealed("fetching", j)
    BY <1>1, <2>1 DEF JobSealed, JobType
  <2>3. KitsSealed' /\ ServerSealed'
    BY <1>1, <1>10 DEF FetchKeyInfo, KitsSealed, ServerSealed
  <2> HIDE DEF j
  <2> QED
    BY <2>1, <2>2, <2>3, ToSealed
<1>11. CASE KeyInfoArrives(c)
  <2>1. KitsSealed' /\ ServerSealed'
    BY <1>1, <1>11 DEF KeyInfoArrives, KitsSealed, ServerSealed
  <2> DEFINE j == [job[c] EXCEPT !.share = job[c].key, !.kek = cred]
  <2>2. job[c].kind = "createAuth" /\ (To(c, "deriving", j) \/ Reject(c, "refused"))
    BY <1>1, <1>11 DEF KeyInfoArrives, StageSound
  <2>3. JobSealed("deriving", j)
    BY <1>1, <1>3, <2>2 DEF JobSealed, JobType
  <2> HIDE DEF j
  <2> QED
    BY <2>1, <2>2, <2>3, ToSealed, SettledSealed DEF Reasons
<1>12. CASE Seal(c)
  <2> DEFINE j == [job[c] EXCEPT !.slot = cred]
  <2>1. To(c, "sealing", j) /\ at[c] = "deriving" /\ job[c].kind \in {"create", "createAuth", "update"}
    BY <1>12 DEF Seal
  <2>2. JobSealed("sealing", j)
    BY <1>1, <1>3, <2>1 DEF JobSealed, JobType
  <2>3. KitsSealed' /\ ServerSealed'
    BY <1>1, <1>12 DEF Seal, KitsSealed, ServerSealed
  <2> HIDE DEF j
  <2> QED
    BY <2>1, <2>2, <2>3, ToSealed
<1>13. CASE Register(c)
  <2> DEFINE q == IF job[c].kind = "create" THEN h1 ELSE job[c].priv
             j == [job[c] EXCEPT !.live = TRUE, !.pop = sdk'.pop, !.h1 = q]
  <2>1. To(c, "registering", j) /\ job[c].kind \in {"create", "createAuth"} /\ sdk'.pop = secret
    BY <1>4, <1>13 DEF Register
  <2> HIDE DEF q
  <2>2. JobSealed("registering", j)
    BY <1>1, <2>1 DEF JobSealed, JobType
  <2>3. KitsSealed' /\ ServerSealed'
    BY <1>1, <1>13 DEF Register, KitsSealed, ServerSealed
  <2> HIDE DEF j
  <2> QED
    BY <2>1, <2>2, <2>3, ToSealed
<1>14. CASE Registered(c)
  <2>1. KitsSealed'
    BY <1>1, <1>14 DEF Registered, KitsSealed
  <2>2. ServerSealed'
    <3>1. CASE server' = server
      BY <1>1, <3>1 DEF ServerSealed
    <3>2. CASE server' = [server EXCEPT ![job[c].key] = Sealed(c)]
      <4>1. at[c] = "registering" /\ secret = "right"
        BY <1>1, <1>14, ServedRight DEF Registered, JobSealed
      <4>2. job[c].salt = "right" /\ job[c].slot = "right" /\ job[c].kek = "right"
        BY <1>1, <4>1 DEF JobSealed, StageSound, Secrets
      <4>3. Right(Sealed(c))
        BY <4>2 DEF Right, Sealed
      <4> HIDE DEF Sealed
      <4>4. \A k \in Key : server'[k] \in {server[k], Sealed(c)}
        BY <3>2, CallFacts
      <4> QED
        BY <1>1, <4>3, <4>4 DEF ServerSealed
    <3> QED
      BY <1>14, <3>1, <3>2 DEF Registered
  <2>3. Resolve(c) \/ \E reason \in Reasons : Reject(c, reason)
    BY <1>14 DEF Registered, Reasons
  <2> QED
    BY <2>1, <2>2, <2>3, SettledSealed
<1>15. CASE RequestKmc(c)
  <2> DEFINE j == [job[c] EXCEPT !.live = TRUE, !.pop = sdk'.pop]
  <2>1. To(c, "waiting", j) /\ job[c].kind \in {"get", "export", "update"} /\ sdk'.pop = secret
    BY <1>4, <1>15 DEF RequestKmc
  <2>2. JobSealed("waiting", j)
    BY <1>1, <2>1 DEF JobSealed, JobType
  <2>3. KitsSealed' /\ ServerSealed'
    BY <1>1, <1>15 DEF RequestKmc, KitsSealed, ServerSealed
  <2> HIDE DEF j
  <2> QED
    BY <2>1, <2>2, <2>3, ToSealed
<1>16. CASE KmcArrives(c)
  <2>1. KitsSealed' /\ ServerSealed'
    BY <1>1, <1>16 DEF KmcArrives, KitsSealed, ServerSealed
  <2>2. CASE server[job[c].key] = NoKey
    BY <1>16, <2>1, <2>2, SettledSealed DEF KmcArrives, Reasons
  <2>3. CASE server[job[c].key] # NoKey
    <3> DEFINE g == server[job[c].key]
               j == [job[c] EXCEPT !.got = g, !.kek = cred, !.live = FALSE]
    <3>1. To(c, "opening", j) /\ job[c].kind \in {"get", "export", "update"}
      BY <1>16, <2>3 DEF KmcArrives
    <3>2. secret = "right" /\ cred = secret
      BY <1>1, <1>3, <1>16, ServedRight DEF KmcArrives, JobSealed
    <3>3. Right(g)
      BY <1>1, <1>16, <2>3 DEF ServerSealed, KmcArrives, StageSound
    <3> HIDE DEF g
    <3>4. JobSealed("opening", j)
      BY <1>1, <3>1, <3>2, <3>3 DEF JobSealed, JobType
    <3> HIDE DEF j
    <3> QED
      BY <2>1, <3>1, <3>4, ToSealed
  <2> QED
    BY <2>2, <2>3
<1>17. CASE Open(c)
  <2>1. KitsSealed' /\ ServerSealed'
    BY <1>1, <1>17 DEF Open, KitsSealed, ServerSealed
  <2> DEFINE j == [job[c] EXCEPT !.salt = cred,
                     !.share = job[c].got.share, !.priv = job[c].got.client]
  <2>2. CASE Resolve(c) \/ Reject(c, "sealed")
    BY <2>1, <2>2, SettledSealed DEF Reasons
  <2>3. CASE job[c].kind = "update" /\ To(c, "salting", j)
    <3>1. at[c] = "opening" /\ cred = secret
      BY <1>3, <1>17, <2>3 DEF Open
    <3>2. secret = "right"
      BY <1>1, <2>3, <3>1 DEF JobSealed
    <3>3. JobSealed("salting", j)
      BY <1>1, <2>3, <3>1, <3>2 DEF JobSealed, JobType
    <3> HIDE DEF j
    <3> QED
      BY <2>1, <2>3, <3>3, ToSealed
  <2> QED
    BY <1>17, <2>2, <2>3 DEF Open
<1>18. CASE Export(c)
  <2>1. secret = "right" /\ job[c].kek = "right" /\ popKey = "right"
    BY <1>1, <1>4, <1>18 DEF Export, JobSealed, StageSound, Secrets
  <2> DEFINE kit == [key |-> job[c].key, kek |-> job[c].kek, cek |-> job[c].got.cek,
                     pop |-> popKey, api |-> cred]
  <2>2. kit.kek = "right" /\ kit.pop = "right"
    BY <2>1
  <2>3. kits' = kits \cup {kit}
    BY <1>18 DEF Export
  <2> HIDE DEF kit
  <2>4. KitsSealed' /\ ServerSealed'
    BY <1>1, <1>18, <2>2, <2>3 DEF Export, KitsSealed, ServerSealed
  <2>5. Resolve(c)
    BY <1>18 DEF Export
  <2> QED
    BY <2>4, <2>5, SettledSealed
<1>19. CASE PostContainer(c)
  <2> DEFINE j == [job[c] EXCEPT !.pop = popKey, !.h1 = h1]
  <2>1. To(c, "posting", j) /\ at[c] = "sealing" /\ job[c].kind = "update"
    BY <1>19 DEF PostContainer
  <2>2. JobSealed("posting", j)
    BY <1>1, <2>1 DEF JobSealed, JobType
  <2>3. KitsSealed' /\ ServerSealed'
    BY <1>1, <1>19 DEF PostContainer, KitsSealed, ServerSealed
  <2> HIDE DEF j
  <2> QED
    BY <2>1, <2>2, <2>3, ToSealed
<1>20. CASE ContainerStored(c)
  <2>1. KitsSealed' /\ at[c] = "posting" /\ job[c].kind = "update"
    BY <1>1, <1>20 DEF ContainerStored, KitsSealed, StageSound
  <2>2. job[c].salt = "right" /\ job[c].slot = "right" /\ job[c].kek = "right"
    BY <1>1, <2>1 DEF JobSealed, StageSound, Secrets
  <2>3. ServerSealed'
    <3>1. CASE server' = server
      BY <1>1, <3>1 DEF ServerSealed
    <3>2. CASE server' = [server EXCEPT ![job[c].key] =
                            [Sealed(c) EXCEPT !.root = server[job[c].key].root]]
      <4> DEFINE g == [Sealed(c) EXCEPT !.root = server[job[c].key].root]
      <4>1. Right(g)
        BY <2>2 DEF Right, Sealed
      <4> HIDE DEF g
      <4>2. \A k \in Key : server'[k] \in {server[k], g}
        BY <3>2, CallFacts DEF g
      <4> QED
        BY <1>1, <4>1, <4>2 DEF ServerSealed
    <3> QED
      BY <1>20, <3>1, <3>2 DEF ContainerStored
  <2>4. CASE \E reason \in Reasons : Reject(c, reason)
    BY <2>1, <2>3, <2>4, SettledSealed
  <2>5. CASE To(c, "patching", [job[c] EXCEPT !.pop = popKey])
    <3> DEFINE j == [job[c] EXCEPT !.pop = popKey]
    <3>1. JobSealed("patching", j)
      BY <1>1, <2>1 DEF JobSealed, JobType
    <3> QED
      BY <2>1, <2>3, <2>5, <3>1, ToSealed
  <2> QED
    BY <1>20, <2>4, <2>5 DEF ContainerStored, Reasons
<1>21. CASE RootPatched(c)
  <2>1. KitsSealed'
    BY <1>1, <1>21 DEF RootPatched, KitsSealed
  <2>2. ServerSealed'
    <3>1. CASE server' = server
      BY <1>1, <3>1 DEF ServerSealed
    <3>2. CASE server' = [server EXCEPT ![job[c].key].root = c]
      <4>1. job[c].key \in Key /\ server[job[c].key] \in StoredKey
            /\ server[job[c].key] # NoKey
        BY <1>1, <1>21, CallFacts DEF RootPatched, StageSound
      <4> DEFINE g == [server[job[c].key] EXCEPT !.root = c]
      <4>2. Right(server[job[c].key])
        BY <1>1, <4>1 DEF ServerSealed
      <4>3. Right(g)
        BY <4>1, <4>2 DEF Right, StoredKey
      <4>4. server' = [server EXCEPT ![job[c].key] = g]
        BY <3>2
      <4> HIDE DEF g
      <4>5. \A k \in Key : server'[k] \in {server[k], g}
        BY <4>4, CallFacts
      <4> QED
        BY <1>1, <4>3, <4>5 DEF ServerSealed
    <3> QED
      BY <1>21, <3>1, <3>2 DEF RootPatched
  <2>3. Resolve(c) \/ \E reason \in Reasons : Reject(c, reason)
    BY <1>21 DEF RootPatched, Reasons
  <2> QED
    BY <2>1, <2>2, <2>3, SettledSealed
<1>22. CASE RecoveryArrives(c)
  <2>1. KitsSealed' /\ ServerSealed' /\ job[c].kind = "recover" /\ at[c] = "waiting"
    BY <1>1, <1>22 DEF RecoveryArrives, KitsSealed, ServerSealed
  <2> DEFINE g == server[job[c].key]
  <2>2. Right(g)
    BY <1>1, <1>22 DEF ServerSealed, RecoveryArrives, StageSound
  <2>3. PICK bare \in BOOLEAN : To(c, "opening", [job[c] EXCEPT !.got = g, !.live = FALSE, !.bare = bare])
    BY <1>22 DEF RecoveryArrives
  <2> HIDE DEF g
  <2> DEFINE j == [job[c] EXCEPT !.got = g, !.live = FALSE, !.bare = bare]
  <2>4. JobSealed("opening", j)
    BY <1>1, <2>1, <2>2 DEF JobSealed, JobType
  <2>5. To(c, "opening", j)
    BY <2>3
  <2> HIDE DEF j
  <2> QED
    BY <2>1, <2>4, <2>5, ToSealed
<1>23. CASE RequestStatus(c)
  <2>1. To(c, "waiting", job[c]) /\ job[c].kind = "status"
    BY <1>23 DEF RequestStatus
  <2>2. JobSealed("waiting", job[c])
    BY <1>1, <2>1 DEF JobSealed
  <2>3. KitsSealed' /\ ServerSealed'
    BY <1>1, <1>23 DEF RequestStatus, KitsSealed, ServerSealed
  <2> QED
    BY <2>1, <2>2, <2>3, ToSealed
<1>24. CASE StatusArrives(c) \/ GiveUp(c)
  <2>1. KitsSealed' /\ ServerSealed'
    BY <1>1, <1>24 DEF StatusArrives, GiveUp, KitsSealed, ServerSealed
  <2>2. Resolve(c) \/ \E reason \in Reasons : Reject(c, reason)
    BY <1>24 DEF StatusArrives, GiveUp, Reasons
  <2> QED
    BY <2>1, <2>2, SettledSealed
<1> QED
  BY <1>6, <1>7, <1>8, <1>9, <1>10, <1>11, <1>12, <1>13, <1>14, <1>15, <1>16, <1>17, <1>18,
     <1>19, <1>20, <1>21, <1>22, <1>23, <1>24 DEF Moves

\* A step that is not a move leaves kits and keys alone.
LEMMA SealKept ==
  ASSUME SealSound, mixed => mixed', cut => cut', UNCHANGED <<secret, kits, server>>,
         ~mixed' /\ ~cut' => ClientSealed' /\ \A d \in Call : JobSealed(at'[d], job'[d])
  PROVE  SealSound'
<1> SUFFICES ASSUME ~mixed', ~cut' PROVE SealSound'
  BY DEF SealSound
<1>1. KitsSealed' /\ ServerSealed'
  BY DEF SealSound, KitsSealed, ServerSealed
<1>2. \A d \in Call : JobSealed(at[d], job[d])'
  BY DEF JobSealed
<1> QED
  BY <1>1, <1>2 DEF SealSound

LEMMA BaseSealed ==
  ASSUME TypeSound, NEW base \in Bases, NEW d \in Call, NEW s, JobSealed(s, job[d])
  PROVE  JobSealed(s, base[d])
<1>1. base[d] \in {job[d], [job[d] EXCEPT !.live = FALSE]} /\ job[d] \in JobType
  BY BaseSound, CallFacts
<1> DEFINE j == [job[d] EXCEPT !.live = FALSE]
<1>2. JobSealed(s, j)
  BY <1>1 DEF JobSealed, JobType
<1> HIDE DEF j
<1> QED
  BY <1>1, <1>2 DEF j

\* A call that begins has nothing but its kind and its key.
LEMMA BegunFacts ==
  ASSUME TypeSound, NEW c \in Call, NEW kind \in Kinds, NEW k \in Key,
         Begin(c, kind, k) \/ BeginDisposed(c, kind, k) \/ BeginStatus(c, k)
  PROVE  /\ \A d \in Call \ {c} : at'[d] = at[d] /\ job'[d] = job[d]
         /\ at[c] = "ready" /\ at'[c] \in {"hashed", "failed"}
         /\ job'[c] \in JobType /\ job'[c].key = k /\ job'[c].kind \in {kind, "status"}
         /\ job'[c].salt = "none" /\ job'[c].slot = "none" /\ job'[c].kek = "none"
         /\ job'[c].share = "none" /\ job'[c].got = NoKey
<1>1. ASSUME NEW q \in Kinds
      PROVE  /\ Begun(c, q, k) \in JobType
             /\ Begun(c, q, k).key = k /\ Begun(c, q, k).kind = q
             /\ Begun(c, q, k).salt = "none" /\ Begun(c, q, k).slot = "none"
             /\ Begun(c, q, k).kek = "none" /\ Begun(c, q, k).got = NoKey
             /\ Begun(c, q, k).share = "none"
  BY BegunTyped DEF Begun, NoJob
<1>2. PICK s \in {"hashed", "failed"}, j \in JobType :
        /\ at' = [at EXCEPT ![c] = s] /\ job' = [job EXCEPT ![c] = j]
        /\ j.key = k /\ j.kind \in {kind, "status"}
        /\ j.salt = "none" /\ j.slot = "none" /\ j.kek = "none" /\ j.got = NoKey
        /\ j.share = "none"
  <2>1. CASE Begin(c, kind, k)
    BY <1>1, <2>1 DEF Begin, To
  <2>2. CASE BeginDisposed(c, kind, k)
    BY <1>1, <2>2 DEF BeginDisposed
  <2>3. CASE BeginStatus(c, k)
    <3> DEFINE b == Begun(c, "status", k)
               j == [b EXCEPT !.live = TRUE, !.pop = sdk'.pop]
    <3>1. /\ b \in JobType /\ b.key = k /\ b.kind = "status"
          /\ b.salt = "none" /\ b.slot = "none" /\ b.kek = "none" /\ b.got = NoKey
          /\ b.share = "none"
      BY <1>1 DEF Kinds
    <3>2. sdk'.pop \in Pop
      BY <2>3, SocketThere DEF BeginStatus
    <3>3. To(c, "hashed", j)
      BY <2>3 DEF BeginStatus
    <3> HIDE DEF b
    <3>4. /\ j \in JobType /\ j.key = k /\ j.kind = "status"
          /\ j.salt = "none" /\ j.slot = "none" /\ j.kek = "none" /\ j.got = NoKey
          /\ j.share = "none"
      BY <3>1, <3>2 DEF JobType
    <3> HIDE DEF j
    <3> QED
      BY <3>3, <3>4 DEF To
  <2> QED
    BY <2>1, <2>2, <2>3
<1>3. at[c] = "ready"
  BY DEF Begin, BeginDisposed, BeginStatus
<1>4. /\ at'[c] = s /\ job'[c] = j
      /\ \A d \in Call \ {c} : at'[d] = at[d] /\ job'[d] = job[d]
  BY <1>2 DEF TypeSound, JobsSound
<1> QED
  BY <1>2, <1>3, <1>4

LEMMA BeginSealed ==
  ASSUME TypeSound, SealSound, NEW c \in Call, NEW kind \in Kinds, NEW k \in Key,
         Begin(c, kind, k) \/ BeginDisposed(c, kind, k) \/ BeginStatus(c, k)
  PROVE  SealSound'
<1>1. /\ UNCHANGED <<secret, cred, popKey, disposed, kits, server, registered, cut>>
      /\ mixed => mixed'
  <2>1. CASE Begin(c, kind, k)
    BY <2>1 DEF Begin
  <2>2. CASE BeginDisposed(c, kind, k)
    BY <2>2 DEF BeginDisposed, client, history
  <2>3. CASE BeginStatus(c, k)
    BY <2>3 DEF BeginStatus
  <2> QED
    BY <2>1, <2>2, <2>3
<1>3. /\ \A d \in Call \ {c} : at'[d] = at[d] /\ job'[d] = job[d]
      /\ at'[c] \in {"hashed", "failed"} /\ job'[c].salt = "none" /\ job'[c].slot = "none"
      /\ job'[c].kek = "none" /\ job'[c].got = NoKey
  BY BegunFacts
<1>4. JobSealed(at'[c], job'[c])
  BY <1>3 DEF JobSealed
<1>5. ~mixed' /\ ~cut' => ClientSealed' /\ \A d \in Call : JobSealed(at'[d], job'[d])
  BY <1>1, <1>3, <1>4 DEF SealSound, ClientSealed
<1> QED
  BY <1>1, <1>5, SealKept

LEMMA RecoverFromKitSealed ==
  ASSUME TypeSound, PopSound, SealSound, NEW c \in Call, RecoverFromKit(c)
  PROVE  SealSound'
<1>1. /\ at[c] = "hashed" /\ job[c].kind = "recover" /\ at' = [at EXCEPT ![c] = "waiting"]
      /\ UNCHANGED <<secret, cred, disposed, kits, server, registered, cut>>
  BY DEF RecoverFromKit
<1>2. job[c] \in JobType
  BY CallFacts
<1>3. at'[c] = "waiting" /\ \A d \in Call \ {c} : at'[d] = at[d]
  BY <1>1 DEF TypeSound, JobsSound
<1>4. PICK kit \in kits : KeepPop(c, kit) \/ Rebind(c, kit)
  BY DEF RecoverFromKit
<1>5. kit \in Kit
  BY DEF TypeSound, StateSound
<1>6. CASE KeepPop(c, kit)
  <2> DEFINE j == [job[c] EXCEPT !.kit = kit, !.pop = sdk'.pop, !.live = TRUE]
  <2>1. job' = [job EXCEPT ![c] = j] /\ UNCHANGED <<popKey, mixed>>
    BY <1>6 DEF KeepPop
  <2>2. SealSound /\ ~mixed /\ ~cut => JobSealed("waiting", j)
    BY <1>1, <1>2, <1>5 DEF SealSound, KitsSealed, JobSealed, JobType
  <2> HIDE DEF j
  <2>3. job'[c] = j /\ \A d \in Call \ {c} : job'[d] = job[d]
    BY <2>1 DEF TypeSound, JobsSound
  <2>4. ~mixed' /\ ~cut' => ClientSealed' /\ \A d \in Call : JobSealed(at'[d], job'[d])
    BY <1>1, <1>3, <2>1, <2>2, <2>3 DEF SealSound, ClientSealed
  <2> QED
    BY <1>1, <2>1, <2>4, SealKept
<1>7. CASE Rebind(c, kit)
  <2> DEFINE j == [job[c] EXCEPT !.kit = kit, !.orig = popKey, !.pop = kit.pop, !.live = TRUE]
             base == Orphaned(job, OnSdk)
  <2>1. job' = [base EXCEPT ![c] = j] /\ popKey' = kit.pop /\ (mixed => mixed')
    BY <1>7 DEF Rebind
  <2>2. SealSound /\ ~mixed /\ ~cut => JobSealed("waiting", j)
    BY <1>1, <1>2, <1>5 DEF SealSound, KitsSealed, JobSealed, JobType
  <2>3. base \in Bases
    BY DEF Bases, OnSdk, Stages
  <2>4. kit.pop # "none"
    <3>1. CASE kit.pop = "none"
      <4>1. popKey' \in Pop
        BY RecoverFromKitType DEF TypeSound, StateSound
      <4> QED
        BY <2>1, <3>1, <4>1 DEF Pop
    <3> QED
      BY <3>1
  <2> HIDE DEF j, base
  <2>5. job'[c] = j /\ \A d \in Call \ {c} : job'[d] = base[d]
    BY <2>1, <2>3, BaseSound
  <2>6. SealSound /\ ~mixed /\ ~cut => \A d \in Call \ {c} : JobSealed(at'[d], job'[d])
    BY <1>3, <2>3, <2>5, BaseSealed DEF SealSound
  <2>7. ~mixed' /\ ~cut' => ClientSealed' /\ \A d \in Call : JobSealed(at'[d], job'[d])
    BY <1>1, <1>3, <2>1, <2>2, <2>4, <2>5, <2>6 DEF SealSound, ClientSealed, KitsSealed
  <2> QED
    BY <1>1, <2>1, <2>7, SealKept
<1> QED
  BY <1>4, <1>6, <1>7

LEMMA EndRecoverySealed ==
  ASSUME TypeSound, PopSound, SealSound, NEW c \in Call, EndRecovery(c)
  PROVE  SealSound'
<1>1. UNCHANGED <<secret, cred, disposed, kits, server, registered, mixed, cut>>
  BY DEF EndRecovery, history
<1>2. /\ at'[c] \in {"done", "failed"} /\ \A d \in Call \ {c} : at'[d] = at[d]
      /\ IF Rebound(c) THEN popKey' = job[c].orig ELSE popKey' = popKey
  BY EndRecoveryFacts
<1> DEFINE j == [NoJob EXCEPT !.kind = job[c].kind, !.key = job[c].key]
<1>3. j.salt = "none" /\ j.slot = "none" /\ j.kek = "none" /\ j.got = NoKey
  BY DEF NoJob
<1>4. PICK base \in Bases : job' = [base EXCEPT ![c] = j]
  <2>1. Orphaned(job, OnSdk) \in Bases
    BY DEF Bases, OnSdk, Stages
  <2>2. RestorePop(c)
    BY DEF EndRecovery
  <2> QED
    BY <2>1, <2>2 DEF RestorePop, Settled, Bases
<1> HIDE DEF j
<1>5. job'[c] = j /\ \A d \in Call \ {c} : job'[d] = base[d]
  BY <1>4, BaseSound
<1>6. JobSealed(at'[c], job'[c])
  BY <1>2, <1>3, <1>5 DEF JobSealed
<1>7. SealSound /\ ~mixed /\ ~cut => \A d \in Call \ {c} : JobSealed(at'[d], job'[d])
  BY <1>2, <1>5, BaseSealed DEF SealSound
<1>8. ~mixed /\ ~cut => popKey' \in {secret, "right"}
  BY <1>2 DEF PopSound, SealSound, ClientSealed
<1>9. ~mixed' /\ ~cut' => ClientSealed' /\ \A d \in Call : JobSealed(at'[d], job'[d])
  BY <1>1, <1>6, <1>7, <1>8 DEF SealSound, ClientSealed
<1> QED
  BY <1>1, <1>9, SealKept

LEMMA SocketSealed ==
  ASSUME TypeSound, SealSound, Connect \/ Disconnect \/ Dispose
  PROVE  SealSound'
<1>1. UNCHANGED <<secret, popKey, kits, server, mixed, at>> /\ (cut => cut') /\ job' \in Bases
  <2>1. CASE Connect
    BY <2>1 DEF Connect, history, Bases
  <2>2. CASE Disconnect
    BY <2>2 DEF Disconnect, DropSockets, history, Bases, OnSdk, Stages
  <2>3. CASE Dispose
    BY <2>3 DEF Dispose, DropSockets, Bases, OnSdk, Stages
  <2> QED
    BY <2>1, <2>2, <2>3
<1>2. SealSound /\ ~mixed /\ ~cut => \A d \in Call : JobSealed(at'[d], job'[d])
  BY <1>1, BaseSealed DEF SealSound
<1>3. SealSound /\ ~mixed /\ ~cut => ClientSealed'
  <2>1. CASE Connect
    <3>1. /\ registered \in {"none", popKey} /\ registered' = popKey
          /\ UNCHANGED <<secret, popKey, disposed, cred>>
      BY <2>1 DEF Connect
    <3>2. popKey # "none"
      BY DEF TypeSound, StateSound, Pop
    <3> QED
      BY <3>1, <3>2 DEF SealSound, ClientSealed
  <2>2. CASE Disconnect
    BY <2>2 DEF Disconnect, SealSound, ClientSealed
  <2>3. CASE Dispose
    BY <2>3 DEF Dispose, SealSound, ClientSealed
  <2> QED
    BY <2>1, <2>2, <2>3
<1> QED
  BY <1>1, <1>2, <1>3, SealKept

LEMMA ShareSealed ==
  ASSUME TypeSound, SealSound, ShareArrives
  PROVE  SealSound'
<1>1. UNCHANGED <<secret, client, kits, server, registered, history>>
  BY DEF ShareArrives
<1>2. PICK q \in asked :
        /\ at' = [c \in Call |-> IF c \in Listening THEN "answered" ELSE at[c]]
        /\ job' = [c \in Call |-> IF c \in Listening
                                  THEN [job[c] EXCEPT !.share = q[2], !.live = FALSE]
                                  ELSE job[c]]
  BY DEF ShareArrives
<1>3. ASSUME ~mixed, ~cut, NEW d \in Call PROVE JobSealed(at'[d], job'[d])
  <2>1. JobSealed(at[d], job[d]) /\ job[d] \in JobType /\ StageSound(d)
    BY <1>3, CallFacts DEF SealSound
  <2>2. CASE d \in Listening
    <3> DEFINE j == [job[d] EXCEPT !.share = q[2], !.live = FALSE]
    <3>1. at'[d] = "answered" /\ job'[d] = j
      BY <1>2, <2>2
    <3>2. JobSealed("answered", j)
      BY <2>1 DEF JobSealed, JobType
    <3> HIDE DEF j
    <3> QED
      BY <3>1, <3>2
  <2>3. CASE d \notin Listening
    BY <1>2, <2>1, <2>3
  <2> QED
    BY <2>2, <2>3
<1>4. ~mixed' /\ ~cut' => ClientSealed' /\ \A d \in Call : JobSealed(at'[d], job'[d])
  BY <1>1, <1>3 DEF SealSound, ClientSealed, client, history
<1> QED
  BY <1>1, <1>4, SealKept DEF history

LEMMA SealInductive ==
  TypeSound /\ PopSound /\ QuietSound /\ SealSound /\ [Next]_vars => SealSound'
<1> SUFFICES ASSUME TypeSound, PopSound, QuietSound, SealSound, [Next]_vars PROVE SealSound'
  OBVIOUS
<1>1. CASE UNCHANGED vars
  <2>1. ~mixed' /\ ~cut' => ClientSealed' /\ \A d \in Call : JobSealed(at'[d], job'[d])
    BY <1>1 DEF vars, client, history, SealSound, ClientSealed
  <2> QED
    BY <1>1, <2>1, SealKept DEF vars, client, history
<1>2. ASSUME NEW c \in Call, NEW k \in Key, NEW kind \in Kinds,
             Begin(c, kind, k) \/ BeginDisposed(c, kind, k) \/ BeginStatus(c, k)
      PROVE  SealSound'
  BY <1>2, BeginSealed
<1>3. ASSUME NEW c \in Call, NEW k \in Key, BeginStatus(c, k) PROVE SealSound'
  BY <1>3, BeginSealed DEF Kinds
<1>4. ASSUME NEW c \in Call, Moves(c) PROVE SealSound'
  BY <1>4, CallSealed
<1>5. ASSUME NEW c \in Call, RecoverFromKit(c) \/ EndRecovery(c) PROVE SealSound'
  BY <1>5, RecoverFromKitSealed, EndRecoverySealed
<1>6. CASE ShareArrives
  BY <1>6, ShareSealed
<1>7. CASE Connect \/ Disconnect \/ Dispose
  BY <1>7, SocketSealed
<1> QED
  BY <1>1, <1>2, <1>3, <1>4, <1>5, <1>6, <1>7 DEF Next, Moves

LEMMA SealInit == Init => SealSound
<1> SUFFICES ASSUME Init PROVE SealSound
  OBVIOUS
<1>1. ClientSealed
  BY DEF Init, ClientSealed
<1>2. KitsSealed
  <2>1. CASE kits = {}
    BY <2>1 DEF KitsSealed
  <2>2. CASE \E pop \in {"right", "none"} :
          kits = {[key |-> k, kek |-> "right", cek |-> Old, pop |-> pop, api |-> "right"] :
                    k \in Stored}
    BY <2>2 DEF KitsSealed
  <2> QED
    BY <2>1, <2>2 DEF Init
<1>3. ServerSealed
  <2>1. \A k \in Key : Right(OldKey(k))
    BY DEF Right, OldKey
  <2>2. \A k \in Key : server[k] \in {OldKey(k), NoKey}
    <3>1. CASE server = [k \in Key |-> NoKey]
      BY <3>1
    <3>2. CASE server = [k \in Key |-> IF k \in Stored THEN OldKey(k) ELSE NoKey]
      BY <3>2
    <3> QED
      BY <3>1, <3>2 DEF Init
  <2> QED
    BY <2>1, <2>2 DEF ServerSealed
<1>4. \A c \in Call : JobSealed(at[c], job[c])
  BY DEF Init, JobSealed, NoJob
<1> QED
  BY <1>1, <1>2, <1>3, <1>4 DEF SealSound

\* The user can open every stored key by either of its wrappings and derive its
\* salt, and a recovery opens what it fetched by any kit, unless dispose() or
\* another recovery overtook a call.
THEOREM OwnerAlwaysOpens == Spec => []OwnerOpens
<1>1. SealSound => SealedForOwner
  BY DEF SealSound, SealedForOwner, ServerSealed, Right
<1>2. TypeSound /\ SealSound => KitSurvivesUpdates
  <2> SUFFICES ASSUME TypeSound, SealSound, ~mixed, ~cut, NEW c \in Call,
                      job[c].kind = "recover", at[c] = "opening", ~job[c].bare
               PROVE  Opens(c)
    BY DEF KitSurvivesUpdates
  <2>1. job[c].got # NoKey
    BY CallFacts, StoredIsKey DEF StageSound
  <2>2. job[c].kit.kek = "right" /\ job[c].got.kek = "right"
    BY <2>1 DEF SealSound, JobSealed, Right
  <2> QED
    BY <2>2 DEF Opens, Unwrapped
<1> QED
  BY <1>1, <1>2, SealInit, TypeInvariant, PopInvariant, QuietInvariant, SealInductive, PTL
  DEF Spec, OwnerOpens

-----------------------------------------------------------------------------
(* The server's shares.  While at most one key request is open its answer  *)
(* is the share of the key it was made for.                                *)

JobShare(j) == j.share \in {j.key, "none"} /\ (j.got # NoKey => j.got.share = j.key)

ServerShare == \A k \in Key : server[k] # NoKey => server[k].share = k

ShareSound ==
  ~crossed =>
    /\ \A p, q \in asked : p = q
    /\ \A c \in Call : at[c] = "requested" /\ job[c].live => <<c, job[c].key>> \in asked
    /\ \A c \in Call : JobShare(job[c])
    /\ ServerShare

\* A step that opens no key request.
LEMMA ShareKept ==
  ASSUME ShareSound, crossed' = crossed, asked' = asked,
         \A d \in Call : at'[d] = "requested" /\ job'[d].live =>
                           at[d] = "requested" /\ job[d].live /\ job'[d].key = job[d].key,
         ~crossed => ServerShare' /\ \A d \in Call : JobShare(job'[d])
  PROVE  ShareSound'
<1> SUFFICES ASSUME ~crossed PROVE ShareSound'
  BY DEF ShareSound
<1>1. \A p, q \in asked' : p = q
  BY DEF ShareSound
<1>2. \A d \in Call : at'[d] = "requested" /\ job'[d].live => <<d, job'[d].key>> \in asked'
  BY DEF ShareSound
<1> QED
  BY <1>1, <1>2 DEF ShareSound, JobShare

LEMMA BaseShare ==
  ASSUME TypeSound, NEW base \in Bases, NEW d \in Call
  PROVE  /\ JobShare(job[d]) => JobShare(base[d])
         /\ base[d].live => job[d].live
         /\ base[d].key = job[d].key
<1>1. base[d] \in {job[d], [job[d] EXCEPT !.live = FALSE]} /\ job[d] \in JobType
  BY BaseSound, CallFacts
<1> DEFINE j == [job[d] EXCEPT !.live = FALSE]
<1>2. j.share = job[d].share /\ j.key = job[d].key /\ j.got = job[d].got /\ ~j.live
  BY <1>1 DEF JobType
<1> HIDE DEF j
<1> QED
  BY <1>1, <1>2 DEF j, JobShare

LEMMA MovesAsk ==
  ASSUME NEW c \in Call, Moves(c), ~RequestShare(c)
  PROVE  UNCHANGED <<asked, crossed>>
<1>1. ASSUME DeriveSalt(c) \/ Aggregate(c) \/ AwaitHandshake(c)
             \/ FetchKeyInfo(c) \/ KeyInfoArrives(c) \/ Seal(c) \/ Register(c) \/ Registered(c)
             \/ RequestKmc(c) \/ KmcArrives(c) \/ Open(c) \/ Export(c)
      PROVE  UNCHANGED <<asked, crossed>>
  BY <1>1 DEF DeriveSalt, Aggregate, AwaitHandshake, FetchKeyInfo, KeyInfoArrives, Seal,
     Register, Registered, RequestKmc, KmcArrives, Open, Export, history
<1>2. ASSUME Recompile(c) \/ PostContainer(c) \/ ContainerStored(c) \/ RootPatched(c)
             \/ RecoveryArrives(c) \/ RequestStatus(c) \/ StatusArrives(c) \/ GiveUp(c)
      PROVE  UNCHANGED <<asked, crossed>>
  BY <1>2 DEF Recompile, PostContainer, ContainerStored, RootPatched, RecoveryArrives,
     RequestStatus, StatusArrives, GiveUp, history
<1> QED
  BY <1>1, <1>2 DEF Moves

LEMMA ToShare ==
  ASSUME TypeSound, ShareSound, NEW c \in Call, Moves(c), ~RequestShare(c), NEW s, NEW j,
         To(c, s, j), s # "requested", ~crossed => JobShare(j) /\ ServerShare'
  PROVE  ShareSound'
<1>1. MovesOnly(c, {}) /\ at'[c] = s /\ job'[c] = j
  BY ToOnly
<1>2. ~crossed => \A d \in Call : JobShare(job'[d])
  BY <1>1 DEF MovesOnly, ShareSound
<1> QED
  BY <1>1, <1>2, MovesAsk, ShareKept DEF MovesOnly

LEMMA SettledShare ==
  ASSUME TypeSound, ShareSound, NEW c \in Call, Moves(c), ~RequestShare(c),
         Resolve(c) \/ \E reason \in Reasons : Reject(c, reason), ~crossed => ServerShare'
  PROVE  ShareSound'
<1>1. MovesOnly(c, Reasons) /\ at'[c] \in {"done", "failed"}
  BY SettledOnly
<1> DEFINE j == [NoJob EXCEPT !.kind = job[c].kind, !.key = job[c].key]
<1>2. job' = [job EXCEPT ![c] = j]
  BY DEF Resolve, Reject, Settled
<1>3. j.share = "none" /\ j.got = NoKey
  BY DEF NoJob
<1> HIDE DEF j
<1>4. job'[c] = j
  BY <1>2 DEF TypeSound, JobsSound
<1>5. ~crossed => \A d \in Call : JobShare(job'[d])
  BY <1>1, <1>3, <1>4 DEF MovesOnly, ShareSound, JobShare
<1> QED
  BY <1>1, <1>5, MovesAsk, ShareKept DEF MovesOnly

LEMMA RequestShareShare ==
  ASSUME TypeSound, ShareSound, NEW c \in Call, RequestShare(c)
  PROVE  ShareSound'
<1> DEFINE j == [job[c] EXCEPT !.priv = priv, !.live = TRUE]
<1>1. /\ To(c, "requested", j) /\ asked' = asked \cup {<<c, job[c].key>>}
      /\ crossed' = (crossed \/ asked # {}) /\ server' = server
  BY DEF RequestShare
<1>2. job[c] \in JobType
  BY CallFacts
<1>3. j.key = job[c].key /\ (JobShare(job[c]) => JobShare(j))
  BY <1>2 DEF JobShare, JobType
<1> HIDE DEF j
<1>4. MovesOnly(c, {}) /\ job'[c] = j
  BY <1>1, ToOnly
<1> SUFFICES ASSUME ~crossed' PROVE ShareSound'
  BY DEF ShareSound
<1>5. ~crossed /\ asked' = {<<c, job[c].key>>}
  BY <1>1
<1>6. \A d \in Call : at'[d] = "requested" /\ job'[d].live => d = c
  BY <1>1, <1>4 DEF MovesOnly, ShareSound
<1>7. \A d \in Call : JobShare(job'[d])
  BY <1>3, <1>4, <1>5 DEF MovesOnly, ShareSound
<1>8. \A d \in Call : JobShare(job[d])'
  BY <1>7 DEF JobShare
<1>9. ServerShare'
  BY <1>1, <1>5 DEF ShareSound, ServerShare
<1>10. \A d \in Call : at'[d] = "requested" /\ job'[d].live => <<d, job'[d].key>> \in asked'
  BY <1>3, <1>4, <1>5, <1>6
<1> QED
  BY <1>5, <1>8, <1>9, <1>10 DEF ShareSound

LEMMA CallShare ==
  ASSUME TypeSound, ShareSound, NEW c \in Call, Moves(c)
  PROVE  ShareSound'
<1>1. job[c] \in JobType /\ StageSound(c) /\ (~crossed => JobShare(job[c]) /\ ServerShare)
  BY CallFacts DEF ShareSound
<1>2. server' = server => (~crossed => ServerShare')
  BY <1>1 DEF ServerShare
<1>3. ASSUME ~RequestShare(c), NEW s, s # "requested", server' = server, NEW j, To(c, s, j),
             j.key = job[c].key, j.share = job[c].share, j.got = job[c].got
      PROVE  ShareSound'
  BY <1>1, <1>2, <1>3, ToShare DEF JobShare
<1>4. CASE DeriveSalt(c)
  <2>1. PICK p : To(c, "salting", [job[c] EXCEPT !.salt = cred, !.priv = p])
    <3>1. CASE at[c] = "answered"
      <4>1. [job[c] EXCEPT !.salt = cred] = [job[c] EXCEPT !.salt = cred, !.priv = job[c].priv]
        BY <1>1 DEF JobType
      <4> QED
        BY <1>4, <3>1, <4>1 DEF DeriveSalt
    <3> QED
      BY <1>4, <3>1 DEF DeriveSalt
  <2> DEFINE j == [job[c] EXCEPT !.salt = cred, !.priv = p]
  <2>2. j.key = job[c].key /\ j.share = job[c].share /\ j.got = job[c].got
    BY <1>1 DEF JobType
  <2>3. ~RequestShare(c) /\ server' = server
    BY <1>4 DEF DeriveSalt, RequestShare, To, TypeSound, JobsSound
  <2> HIDE DEF j
  <2> QED
    BY <1>3, <2>1, <2>2, <2>3 DEF j
<1>5. CASE Aggregate(c) \/ Recompile(c)
  <2> DEFINE j == [job[c] EXCEPT !.kek = cred]
  <2>1. j.key = job[c].key /\ j.share = job[c].share /\ j.got = job[c].got
    BY <1>1 DEF JobType
  <2>2. To(c, "deriving", j) /\ ~RequestShare(c) /\ server' = server
    BY <1>5 DEF Aggregate, Recompile, RequestShare
  <2> HIDE DEF j
  <2> QED
    BY <1>3, <2>1, <2>2
<1>6. CASE AwaitHandshake(c)
  <2> DEFINE j == [job[c] EXCEPT !.live = TRUE]
  <2>1. j.key = job[c].key /\ j.share = job[c].share /\ j.got = job[c].got
    BY <1>1 DEF JobType
  <2>2. To(c, "connecting", j) /\ ~RequestShare(c) /\ server' = server
    BY <1>6 DEF AwaitHandshake, RequestShare
  <2> HIDE DEF j
  <2> QED
    BY <1>3, <2>1, <2>2
<1>7. CASE FetchKeyInfo(c)
  <2> DEFINE j == [job[c] EXCEPT !.pop = popKey, !.live = FALSE]
  <2>1. j.key = job[c].key /\ j.share = job[c].share /\ j.got = job[c].got
    BY <1>1 DEF JobType
  <2>2. To(c, "fetching", j) /\ ~RequestShare(c) /\ server' = server
    BY <1>7 DEF FetchKeyInfo, RequestShare
  <2> HIDE DEF j
  <2> QED
    BY <1>3, <2>1, <2>2
<1>8. CASE KeyInfoArrives(c)
  <2> DEFINE j == [job[c] EXCEPT !.share = job[c].key, !.kek = cred]
  <2>1. j.key = job[c].key /\ j.share = job[c].key /\ j.got = job[c].got
    BY <1>1 DEF JobType
  <2>2. (To(c, "deriving", j) \/ Reject(c, "refused")) /\ ~RequestShare(c) /\ server' = server
    BY <1>8 DEF KeyInfoArrives, RequestShare
  <2> HIDE DEF j
  <2>3. ~crossed => JobShare(j)
    BY <1>1, <2>1 DEF JobShare
  <2> QED
    BY <1>2, <2>2, <2>3, ToShare, SettledShare DEF Reasons
<1>9. CASE Seal(c)
  <2> DEFINE j == [job[c] EXCEPT !.slot = cred]
  <2>1. j.key = job[c].key /\ j.share = job[c].share /\ j.got = job[c].got
    BY <1>1 DEF JobType
  <2>2. To(c, "sealing", j) /\ ~RequestShare(c) /\ server' = server
    BY <1>9 DEF Seal, RequestShare
  <2> HIDE DEF j
  <2> QED
    BY <1>3, <2>1, <2>2
<1>10. CASE Register(c)
  <2> DEFINE q == IF job[c].kind = "create" THEN h1 ELSE job[c].priv
             j == [job[c] EXCEPT !.live = TRUE, !.pop = sdk'.pop, !.h1 = q]
  <2>1. To(c, "registering", j) /\ ~RequestShare(c) /\ server' = server
    BY <1>10 DEF Register, RequestShare
  <2> HIDE DEF q
  <2>2. j.key = job[c].key /\ j.share = job[c].share /\ j.got = job[c].got
    BY <1>1 DEF JobType
  <2> HIDE DEF j
  <2> QED
    BY <1>3, <2>1, <2>2
<1>11. CASE Registered(c)
  <2>1. ~RequestShare(c) /\ (Resolve(c) \/ \E reason \in Reasons : Reject(c, reason))
    BY <1>11 DEF Registered, RequestShare, Reasons
  <2>2. ~crossed => ServerShare'
    <3>1. CASE server' = server
      BY <1>2, <3>1
    <3>2. CASE server' = [server EXCEPT ![job[c].key] = Sealed(c)]
      <4>1. ~crossed => Sealed(c).share = job[c].key
        BY <1>1, <1>11, KeysAssumption DEF Registered, StageSound, JobShare, Sealed
      <4> HIDE DEF Sealed
      <4>2. \A k \in Key : server'[k] = IF k = job[c].key THEN Sealed(c) ELSE server[k]
        BY <3>2, CallFacts
      <4> QED
        BY <1>1, <4>1, <4>2 DEF ServerShare
    <3> QED
      BY <1>11, <3>1, <3>2 DEF Registered
  <2> QED
    BY <2>1, <2>2, SettledShare
<1>12. CASE RequestKmc(c)
  <2> DEFINE j == [job[c] EXCEPT !.live = TRUE, !.pop = sdk'.pop]
  <2>1. j.key = job[c].key /\ j.share = job[c].share /\ j.got = job[c].got
    BY <1>1 DEF JobType
  <2>2. To(c, "waiting", j) /\ ~RequestShare(c) /\ server' = server
    BY <1>12 DEF RequestKmc, RequestShare
  <2> HIDE DEF j
  <2> QED
    BY <1>3, <2>1, <2>2
<1>13. CASE KmcArrives(c) \/ RecoveryArrives(c)
  <2>1. ~RequestShare(c) /\ server' = server /\ job[c].key \in Key
    BY <1>1, <1>13 DEF KmcArrives, RecoveryArrives, RequestShare, StageSound
  <2>2. CASE Reject(c, "server")
    BY <1>2, <2>1, <2>2, SettledShare DEF Reasons
  <2>3. CASE server[job[c].key] # NoKey
    <3> DEFINE g == server[job[c].key]
    <3>1. ~crossed => g.share = job[c].key
      BY <1>1, <2>1, <2>3 DEF ServerShare
    <3>2. PICK kek, bare : To(c, "opening", [job[c] EXCEPT !.got = g, !.kek = kek, !.live = FALSE,
                                                !.bare = bare])
      <4>1. CASE KmcArrives(c)
        <5>1. To(c, "opening", [job[c] EXCEPT !.got = g, !.kek = cred, !.live = FALSE])
          BY <2>3, <4>1 DEF KmcArrives
        <5>2. [job[c] EXCEPT !.got = g, !.kek = cred, !.live = FALSE]
              = [job[c] EXCEPT !.got = g, !.kek = cred, !.live = FALSE, !.bare = job[c].bare]
          BY <1>1 DEF JobType
        <5> QED
          BY <5>1, <5>2
      <4>2. CASE RecoveryArrives(c)
        <5>1. PICK b \in BOOLEAN : To(c, "opening", [job[c] EXCEPT !.got = g, !.live = FALSE, !.bare = b])
          BY <4>2 DEF RecoveryArrives
        <5>2. [job[c] EXCEPT !.got = g, !.live = FALSE, !.bare = b]
              = [job[c] EXCEPT !.got = g, !.kek = job[c].kek, !.live = FALSE, !.bare = b]
          BY <1>1 DEF JobType
        <5> QED
          BY <5>1, <5>2
      <4> QED
        BY <1>13, <4>1, <4>2
    <3> HIDE DEF g
    <3> DEFINE j == [job[c] EXCEPT !.got = g, !.kek = kek, !.live = FALSE, !.bare = bare]
    <3>3. j.key = job[c].key /\ j.share = job[c].share /\ j.got = g
      BY <1>1 DEF JobType
    <3>4. To(c, "opening", j)
      BY <3>2
    <3> HIDE DEF j
    <3>5. ~crossed => JobShare(j)
      BY <1>1, <3>1, <3>3 DEF JobShare
    <3> QED
      BY <1>2, <2>1, <3>4, <3>5, ToShare
  <2> QED
    BY <1>13, <2>2, <2>3 DEF KmcArrives, RecoveryArrives
<1>14. CASE Open(c)
  <2>1. ~RequestShare(c) /\ server' = server /\ job[c].got \in StoredKey
    BY <1>1, <1>14 DEF Open, RequestShare, StageSound
  <2> DEFINE g == job[c].got
             j == [job[c] EXCEPT !.salt = cred, !.share = g.share, !.priv = g.client]
  <2>2. CASE Resolve(c) \/ Reject(c, "sealed")
    BY <1>2, <2>1, <2>2, SettledShare DEF Reasons
  <2>3. CASE To(c, "salting", j)
    <3>1. ~crossed => g.share = job[c].key
      BY <1>1, <2>1, StoredIsKey DEF JobShare
    <3> HIDE DEF g
    <3>2. j.key = job[c].key /\ j.share = g.share /\ j.got = job[c].got
      BY <1>1 DEF JobType
    <3> HIDE DEF j
    <3>3. ~crossed => JobShare(j)
      BY <1>1, <3>1, <3>2 DEF JobShare
    <3> QED
      BY <1>2, <2>1, <2>3, <3>3, ToShare
  <2> QED
    BY <1>14, <2>2, <2>3 DEF Open
<1>15. CASE Export(c) \/ StatusArrives(c) \/ GiveUp(c)
  <2>1. server' = server /\ (Resolve(c) \/ \E reason \in Reasons : Reject(c, reason))
    BY <1>15 DEF Export, StatusArrives, GiveUp, Reasons
  <2>2. ~RequestShare(c)
    BY <1>15 DEF Export, StatusArrives, GiveUp, RequestShare
  <2> QED
    BY <1>2, <2>1, <2>2, SettledShare
<1>16. CASE PostContainer(c)
  <2> DEFINE j == [job[c] EXCEPT !.pop = popKey, !.h1 = h1]
  <2>1. j.key = job[c].key /\ j.share = job[c].share /\ j.got = job[c].got
    BY <1>1 DEF JobType
  <2>2. To(c, "posting", j) /\ ~RequestShare(c) /\ server' = server
    BY <1>16 DEF PostContainer, RequestShare
  <2> HIDE DEF j
  <2> QED
    BY <1>3, <2>1, <2>2
<1>17. CASE ContainerStored(c)
  <2>1. ~RequestShare(c)
    BY <1>17 DEF ContainerStored, RequestShare
  <2>2. ~crossed => ServerShare'
    <3>1. CASE server' = server
      BY <1>2, <3>1
    <3>2. CASE server' = [server EXCEPT ![job[c].key] =
                            [Sealed(c) EXCEPT !.root = server[job[c].key].root]]
      <4> DEFINE g == [Sealed(c) EXCEPT !.root = server[job[c].key].root]
      <4>1. ~crossed => g.share = job[c].key
        BY <1>1, <1>17, KeysAssumption DEF ContainerStored, StageSound, JobShare, Sealed
      <4>2. server' = [server EXCEPT ![job[c].key] = g]
        BY <3>2
      <4> HIDE DEF g
      <4>3. \A k \in Key : server'[k] = IF k = job[c].key THEN g ELSE server[k]
        BY <4>2, CallFacts
      <4> QED
        BY <1>1, <4>1, <4>3 DEF ServerShare
    <3> QED
      BY <1>17, <3>1, <3>2 DEF ContainerStored
  <2>3. CASE \E reason \in Reasons : Reject(c, reason)
    BY <2>1, <2>2, <2>3, SettledShare
  <2> DEFINE j == [job[c] EXCEPT !.pop = popKey]
  <2>4. j.key = job[c].key /\ j.share = job[c].share /\ j.got = job[c].got
    BY <1>1 DEF JobType
  <2>5. To(c, "patching", j) \/ \E reason \in Reasons : Reject(c, reason)
    BY <1>17 DEF ContainerStored, Reasons
  <2> HIDE DEF j
  <2>6. ~crossed => JobShare(j)
    BY <1>1, <2>4 DEF JobShare
  <2> QED
    BY <2>1, <2>2, <2>3, <2>5, <2>6, ToShare
<1>18. CASE RootPatched(c)
  <2>1. ~RequestShare(c) /\ (Resolve(c) \/ \E reason \in Reasons : Reject(c, reason))
    BY <1>18 DEF RootPatched, RequestShare, Reasons
  <2>2. ~crossed => ServerShare'
    <3>1. CASE server' = server
      BY <1>2, <3>1
    <3>2. CASE server' = [server EXCEPT ![job[c].key].root = c]
      <4>1. job[c].key \in Key /\ server[job[c].key] \in StoredKey
            /\ server[job[c].key] # NoKey
        BY <1>1, <1>18, CallFacts DEF RootPatched, StageSound
      <4> DEFINE g == [server[job[c].key] EXCEPT !.root = c]
      <4>2. g.share = server[job[c].key].share
        BY <4>1 DEF StoredKey
      <4>3. server' = [server EXCEPT ![job[c].key] = g]
        BY <3>2
      <4> HIDE DEF g
      <4>4. \A k \in Key : server'[k] = IF k = job[c].key THEN g ELSE server[k]
        BY <4>3, CallFacts
      <4> QED
        BY <1>1, <4>1, <4>2, <4>4 DEF ServerShare
    <3> QED
      BY <1>18, <3>1, <3>2 DEF RootPatched
  <2> QED
    BY <2>1, <2>2, SettledShare
<1>19. CASE RequestStatus(c)
  <2>1. To(c, "waiting", job[c]) /\ ~RequestShare(c) /\ server' = server
    BY <1>19 DEF RequestStatus, RequestShare
  <2> QED
    BY <1>3, <2>1
<1>20. CASE RequestShare(c)
  BY <1>20, RequestShareShare
<1> QED
  BY <1>4, <1>5, <1>6, <1>7, <1>8, <1>9, <1>10, <1>11, <1>12, <1>13, <1>14, <1>15, <1>16,
     <1>17, <1>18, <1>19, <1>20 DEF Moves

\* Every listener takes the one answer there can be, the share of its own key.
LEMMA ArrivalShare ==
  ASSUME TypeSound, ShareSound, ShareArrives
  PROVE  ShareSound'
<1>1. PICK q \in asked :
        /\ asked' = asked \ {q}
        /\ at' = [c \in Call |-> IF c \in Listening THEN "answered" ELSE at[c]]
        /\ job' = [c \in Call |-> IF c \in Listening
                                  THEN [job[c] EXCEPT !.share = q[2], !.live = FALSE]
                                  ELSE job[c]]
  BY DEF ShareArrives
<1>2. crossed' = crossed /\ server' = server
  BY DEF ShareArrives, history
<1> SUFFICES ASSUME ~crossed PROVE ShareSound'
  BY <1>2 DEF ShareSound
<1>3. ServerShare'
  BY <1>2 DEF ShareSound, ServerShare
<1>4. ASSUME NEW d \in Call
      PROVE  JobShare(job'[d]) /\ ~(at'[d] = "requested" /\ job'[d].live)
  <2>1. job[d] \in JobType /\ JobShare(job[d])
    BY CallFacts DEF ShareSound
  <2>2. CASE d \in Listening
    <3>1. <<d, job[d].key>> \in asked
      BY <2>2 DEF Listening, ShareSound
    <3>2. q = <<d, job[d].key>>
      BY <3>1 DEF ShareSound
    <3>3. q[2] = job[d].key
      BY <3>2
    <3> DEFINE j == [job[d] EXCEPT !.share = q[2], !.live = FALSE]
    <3>4. job'[d] = j /\ at'[d] = "answered"
      BY <1>1, <2>2
    <3>5. JobShare(j)
      BY <2>1, <3>3 DEF JobShare, JobType
    <3> HIDE DEF j
    <3> QED
      BY <3>4, <3>5
  <2>3. CASE d \notin Listening
    BY <1>1, <2>1, <2>3 DEF Listening
  <2> QED
    BY <2>2, <2>3
<1>5. \A p, r \in asked' : p = r
  BY <1>1 DEF ShareSound
<1>6. \A d \in Call : JobShare(job[d])'
  BY <1>4 DEF JobShare
<1> QED
  BY <1>3, <1>4, <1>5, <1>6 DEF ShareSound

LEMMA SocketShare ==
  ASSUME TypeSound, ShareSound, Connect \/ Disconnect \/ Dispose
  PROVE  ShareSound'
<1>1. UNCHANGED <<crossed, server, at>> /\ job' \in Bases
  <2>1. CASE Connect
    BY <2>1 DEF Connect, history, Bases
  <2>2. CASE Disconnect
    BY <2>2 DEF Disconnect, DropSockets, history, Bases, OnSdk, Stages
  <2>3. CASE Dispose
    BY <2>3 DEF Dispose, DropSockets, Bases, OnSdk, Stages
  <2> QED
    BY <2>1, <2>2, <2>3
<1>2. ~crossed => ServerShare' /\ \A d \in Call : JobShare(job'[d])
  BY <1>1, BaseShare DEF ShareSound, ServerShare
<1>3. CASE Connect
  <2>1. asked' = asked /\ job' = job
    BY <1>3 DEF Connect
  <2> QED
    BY <1>1, <1>2, <2>1, ShareKept
<1>4. CASE Disconnect \/ Dispose
  <2>1. asked' = {} /\ job' = Orphaned(job, OnSdk \cup {"requested"})
    BY <1>4 DEF Disconnect, Dispose, DropSockets
  <2>2. \A d \in Call : at[d] = "requested" => ~job'[d].live
    <3>1. \A d \in Call : at[d] = "requested" => job'[d] = [job[d] EXCEPT !.live = FALSE]
      BY <2>1 DEF Orphaned
    <3> QED
      BY <3>1, CallFacts DEF JobType
  <2>3. ~crossed => \A d \in Call : JobShare(job[d])'
    BY <1>2 DEF JobShare
  <2> QED
    BY <1>1, <1>2, <2>1, <2>2, <2>3 DEF ShareSound
<1> QED
  BY <1>3, <1>4

\* The start and the end of a call.
LEMMA EdgesShare ==
  ASSUME TypeSound, ShareSound, NEW c \in Call, UNCHANGED <<crossed, asked, server>>,
         at'[c] # "requested", JobShare(job'[c]),
         \A d \in Call \ {c} : at'[d] = at[d] /\ \E base \in Bases : job'[d] = base[d]
  PROVE  ShareSound'
<1>1. ~crossed => ServerShare' /\ \A d \in Call : JobShare(job'[d])
  BY BaseShare DEF ShareSound, ServerShare
<1>2. \A d \in Call : at'[d] = "requested" /\ job'[d].live =>
                        at[d] = "requested" /\ job[d].live /\ job'[d].key = job[d].key
  BY BaseShare
<1> QED
  BY <1>1, <1>2, ShareKept

\* What the start and the end of a recovery leave of its own locals.
LEMMA RecoveryEdges ==
  ASSUME TypeSound, NEW c \in Call, RecoverFromKit(c) \/ EndRecovery(c)
  PROVE  /\ UNCHANGED <<crossed, asked, server, disposed, cut, priv, h1, raced>>
         /\ at[c] \in {"hashed", "waiting", "opening"} /\ at'[c] \in {"waiting", "done", "failed"}
         /\ job'[c].share \in {job[c].share, "none"} /\ job'[c].got \in {job[c].got, NoKey}
         /\ job'[c].key = job[c].key /\ job'[c].kind = "recover" /\ job[c].kind = "recover"
         /\ \A d \in Call \ {c} : at'[d] = at[d] /\ \E base \in Bases : job'[d] = base[d]
<1>1. job[c] \in JobType
  BY CallFacts
<1>2. Orphaned(job, OnSdk) \in Bases /\ job \in Bases
  BY DEF Bases, OnSdk, Stages
<1>3. CASE RecoverFromKit(c)
  <2>1. PICK kit \in kits : KeepPop(c, kit) \/ Rebind(c, kit)
    BY <1>3 DEF RecoverFromKit
  <2> DEFINE Own(j) == /\ j.share = job[c].share /\ j.got = job[c].got
                       /\ j.key = job[c].key /\ j.kind = job[c].kind
  <2>2. \E base \in Bases : \E j : job' = [base EXCEPT ![c] = j] /\ Own(j)
    <3>1. CASE KeepPop(c, kit)
      <4> DEFINE j == [job[c] EXCEPT !.kit = kit, !.pop = sdk'.pop, !.live = TRUE]
      <4>1. Own(j)
        BY <1>1 DEF JobType
      <4>2. job' = [job EXCEPT ![c] = j]
        BY <3>1 DEF KeepPop
      <4> HIDE DEF j, Own
      <4> QED
        BY <1>2, <4>1, <4>2
    <3>2. CASE Rebind(c, kit)
      <4> DEFINE j == [job[c] EXCEPT !.kit = kit, !.orig = popKey, !.pop = kit.pop, !.live = TRUE]
                 base == Orphaned(job, OnSdk)
      <4>1. Own(j)
        BY <1>1 DEF JobType
      <4>2. job' = [base EXCEPT ![c] = j] /\ base \in Bases
        BY <1>2, <3>2 DEF Rebind
      <4> HIDE DEF j, base, Own
      <4> QED
        BY <4>1, <4>2
    <3> QED
      BY <2>1, <3>1, <3>2
  <2>3. PICK base \in Bases : \E j : job' = [base EXCEPT ![c] = j] /\ Own(j)
    BY <2>2
  <2>4. Own(job'[c]) /\ \A d \in Call \ {c} : job'[d] = base[d]
    <3>1. base \in [Call -> JobType]
      BY BaseSound
    <3> QED
      BY <2>3, <3>1
  <2>5. /\ UNCHANGED <<crossed, asked, server, disposed, cut, priv, h1, raced>>
        /\ at[c] = "hashed" /\ job[c].kind = "recover" /\ at' = [at EXCEPT ![c] = "waiting"]
    BY <1>3 DEF RecoverFromKit
  <2>6. at'[c] = "waiting" /\ \A d \in Call \ {c} : at'[d] = at[d]
    BY <2>5 DEF TypeSound, JobsSound
  <2> QED
    BY <2>4, <2>5, <2>6
<1>4. CASE EndRecovery(c)
  <2> DEFINE j == [NoJob EXCEPT !.kind = job[c].kind, !.key = job[c].key]
  <2>1. /\ j.share = "none" /\ j.got = NoKey
        /\ j.key = job[c].key /\ j.kind = job[c].kind
    BY DEF NoJob
  <2>2. PICK base \in Bases : job' = [base EXCEPT ![c] = j]
    <3>1. RestorePop(c)
      BY <1>4 DEF EndRecovery
    <3> QED
      BY <1>2, <3>1 DEF RestorePop, Settled
  <2> HIDE DEF j
  <2>3. job'[c] = j /\ \A d \in Call \ {c} : job'[d] = base[d]
    BY <2>2, BaseSound
  <2>4. /\ UNCHANGED <<crossed, asked, server, disposed, cut, priv, h1, raced>>
        /\ at[c] \in {"waiting", "opening"} /\ job[c].kind = "recover"
    BY <1>4 DEF EndRecovery, history
  <2>5. at'[c] \in {"done", "failed"} /\ \A d \in Call \ {c} : at'[d] = at[d]
    BY <1>4, EndRecoveryFacts
  <2> QED
    BY <2>1, <2>3, <2>4, <2>5
<1> QED
  BY <1>3, <1>4

LEMMA ShareInductive == TypeSound /\ ShareSound /\ [Next]_vars => ShareSound'
<1> SUFFICES ASSUME TypeSound, ShareSound, [Next]_vars PROVE ShareSound'
  OBVIOUS
<1>1. CASE UNCHANGED vars
  BY <1>1 DEF vars, history, ShareSound, ServerShare, JobShare
<1>2. ASSUME NEW c \in Call, NEW k \in Key, NEW kind \in Kinds,
             Begin(c, kind, k) \/ BeginDisposed(c, kind, k) \/ BeginStatus(c, k)
      PROVE  ShareSound'
  <2>1. UNCHANGED <<crossed, asked, server>>
    BY <1>2 DEF Begin, BeginDisposed, BeginStatus, history
  <2>2. at'[c] # "requested" /\ JobShare(job'[c])
    BY <1>2, BegunFacts DEF JobShare
  <2>3. \A d \in Call \ {c} : at'[d] = at[d] /\ job'[d] = job[d]
    BY <1>2, BegunFacts
  <2>4. job \in Bases
    BY DEF Bases
  <2> QED
    BY <2>1, <2>2, <2>3, <2>4, EdgesShare
<1>3. ASSUME NEW c \in Call, NEW k \in Key, BeginStatus(c, k) PROVE ShareSound'
  BY <1>2, <1>3 DEF Kinds
<1>4. ASSUME NEW c \in Call, Moves(c) PROVE ShareSound'
  BY <1>4, CallShare
<1>5. ASSUME NEW c \in Call, RecoverFromKit(c) \/ EndRecovery(c) PROVE ShareSound'
  <2>1. CASE crossed
    BY <1>5, <2>1, RecoveryEdges DEF ShareSound
  <2>2. CASE ~crossed
    <3>1. JobShare(job[c])
      BY <2>2 DEF ShareSound
    <3>2. JobShare(job'[c]) /\ at'[c] # "requested"
      BY <1>5, <3>1, RecoveryEdges DEF JobShare
    <3> QED
      BY <1>5, <3>2, RecoveryEdges, EdgesShare
  <2> QED
    BY <2>1, <2>2
<1>6. CASE ShareArrives
  BY <1>6, ArrivalShare
<1>7. CASE Connect \/ Disconnect \/ Dispose
  BY <1>7, SocketShare
<1> QED
  BY <1>1, <1>2, <1>3, <1>4, <1>5, <1>6, <1>7 DEF Next, Moves

LEMMA OldIsKey ==
  ASSUME Init, NEW k \in Key, server[k] # NoKey
  PROVE  server[k] = OldKey(k)
<1>1. CASE server = [x \in Key |-> NoKey]
  BY <1>1
<1>2. CASE server = [x \in Key |-> IF x \in Stored THEN OldKey(x) ELSE NoKey]
  BY <1>2
<1> QED
  BY <1>1, <1>2 DEF Init

LEMMA ShareInvariant == Spec => []ShareSound
<1>1. Init => ShareSound
  <2> SUFFICES ASSUME Init PROVE ShareSound
    OBVIOUS
  <2>1. ServerShare
    <3>1. \A k \in Key : OldKey(k).share = k
      BY DEF OldKey
    <3>2. \A k \in Key : server[k] # NoKey => server[k] = OldKey(k)
      BY OldIsKey
    <3> QED
      BY <3>1, <3>2 DEF ServerShare
  <2> QED
    BY <2>1 DEF Init, ShareSound, JobShare, NoJob
<1> QED
  BY <1>1, TypeInvariant, ShareInductive, PTL DEF Spec

-----------------------------------------------------------------------------
(* The registered root.  Unless updates of a key overlap, a container is   *)
(* followed by its root or its call has failed.                            *)

\* What the root of a key may be behind.
Behind(k) ==
  server[k] # NoKey /\ server[k].root # server[k].policy =>
    \E c \in Call : /\ c = server[k].policy /\ job[c].key = k
                    /\ at[c] \in {"patching", "failed"}

RootSound ==
  \A k \in Key \ raced :
    /\ \A c, d \in UpdatesOf(k) : c = d
    /\ \A c \in UpdatesOf(k) : at[c] = "patching" => server[k].policy = c
    /\ Behind(k)

\* A step that neither uploads nor leaves the two calls of an update.
LEMMA RootKept ==
  ASSUME RootSound, UNCHANGED server, raced \subseteq raced',
         \A d \in Call : at'[d] \in {"posting", "patching"} => at'[d] = at[d],
         \A d \in Call : at[d] \in {"patching", "failed"} => at'[d] \in {"patching", "failed"},
         \A d \in Call : at[d] # "ready" => job'[d].kind = job[d].kind /\ job'[d].key = job[d].key
  PROVE  RootSound'
<1> SUFFICES ASSUME NEW k \in Key \ raced'
             PROVE  /\ \A c, d \in UpdatesOf(k)' : c = d
                    /\ \A c \in UpdatesOf(k)' : at'[c] = "patching" => server'[k].policy = c
                    /\ Behind(k)'
  BY DEF RootSound
<1>1. UpdatesOf(k)' \subseteq UpdatesOf(k)
  BY DEF UpdatesOf
<1>2. Behind(k)'
  BY DEF RootSound, Behind
<1>3. \A c \in UpdatesOf(k)' : at'[c] = at[c]
  BY DEF UpdatesOf
<1> QED
  BY <1>1, <1>2, <1>3 DEF RootSound

\* Every call keeps its identity.
LEMMA MovesKeys ==
  ASSUME TypeSound, NEW c \in Call, Moves(c)
  PROVE  job'[c].key = job[c].key
<1>1. job[c] \in JobType
  BY CallFacts
<1>2. ASSUME Resolve(c) \/ \E reason : Reject(c, reason) PROVE job'[c].key = job[c].key
  <2> DEFINE j == [NoJob EXCEPT !.kind = job[c].kind, !.key = job[c].key]
  <2>1. job' = [job EXCEPT ![c] = j] /\ j.key = job[c].key
    BY <1>2 DEF Resolve, Reject, Settled, NoJob
  <2> HIDE DEF j
  <2> QED
    BY <2>1 DEF TypeSound, JobsSound
<1>3. ASSUME NEW s, NEW j, To(c, s, j), j.key = job[c].key PROVE job'[c].key = job[c].key
  BY <1>3, ToOnly
<1>4. CASE RequestShare(c) \/ AwaitHandshake(c) \/ FetchKeyInfo(c) \/ RequestKmc(c)
           \/ PostContainer(c) \/ RequestStatus(c) \/ Aggregate(c) \/ Seal(c) \/ Recompile(c)
  <2>1. /\ [job[c] EXCEPT !.priv = priv, !.live = TRUE].key = job[c].key
        /\ [job[c] EXCEPT !.live = TRUE].key = job[c].key
        /\ [job[c] EXCEPT !.pop = popKey, !.live = FALSE].key = job[c].key
        /\ [job[c] EXCEPT !.live = TRUE, !.pop = sdk'.pop].key = job[c].key
        /\ [job[c] EXCEPT !.pop = popKey, !.h1 = h1].key = job[c].key
        /\ [job[c] EXCEPT !.kek = cred].key = job[c].key
        /\ [job[c] EXCEPT !.slot = cred].key = job[c].key
    BY <1>1 DEF JobType
  <2>2. \E s : \E j : To(c, s, j) /\ j.key = job[c].key
    BY <1>4, <2>1 DEF RequestShare, AwaitHandshake, FetchKeyInfo, RequestKmc, PostContainer,
       RequestStatus, Aggregate, Seal, Recompile
  <2> QED
    BY <1>3, <2>2
<1>5. CASE DeriveSalt(c)
  <2>1. /\ [job[c] EXCEPT !.salt = cred].key = job[c].key
        /\ [job[c] EXCEPT !.salt = cred, !.priv = priv'].key = job[c].key
    BY <1>1 DEF JobType
  <2> QED
    BY <1>3, <1>5, <2>1 DEF DeriveSalt
<1>6. CASE Register(c)
  <2> DEFINE q == IF job[c].kind = "create" THEN h1 ELSE job[c].priv
  <2>1. To(c, "registering", [job[c] EXCEPT !.live = TRUE, !.pop = sdk'.pop, !.h1 = q])
    BY <1>6 DEF Register
  <2> HIDE DEF q
  <2>2. [job[c] EXCEPT !.live = TRUE, !.pop = sdk'.pop, !.h1 = q].key = job[c].key
    BY <1>1 DEF JobType
  <2> QED
    BY <1>3, <2>1, <2>2
<1>7. CASE KeyInfoArrives(c)
  <2>1. [job[c] EXCEPT !.share = job[c].key, !.kek = cred].key = job[c].key
    BY <1>1 DEF JobType
  <2> QED
    BY <1>2, <1>3, <1>7, <2>1 DEF KeyInfoArrives
<1>8. CASE KmcArrives(c)
  <2>1. [job[c] EXCEPT !.got = server[job[c].key], !.kek = cred, !.live = FALSE].key = job[c].key
    BY <1>1 DEF JobType
  <2> QED
    BY <1>2, <1>3, <1>8, <2>1 DEF KmcArrives
<1>9. CASE RecoveryArrives(c)
  <2>1. \A bare \in BOOLEAN :
          [job[c] EXCEPT !.got = server[job[c].key], !.live = FALSE, !.bare = bare].key = job[c].key
    BY <1>1 DEF JobType
  <2> QED
    BY <1>3, <1>9, <2>1 DEF RecoveryArrives
<1>10. CASE Open(c)
  <2>1. [job[c] EXCEPT !.salt = cred, !.share = job[c].got.share,
                       !.priv = job[c].got.client].key = job[c].key
    BY <1>1 DEF JobType
  <2> QED
    BY <1>2, <1>3, <1>10, <2>1 DEF Open
<1>11. CASE ContainerStored(c)
  <2>1. [job[c] EXCEPT !.pop = popKey].key = job[c].key
    BY <1>1 DEF JobType
  <2> QED
    BY <1>2, <1>3, <1>11, <2>1 DEF ContainerStored
<1>12. CASE Registered(c) \/ Export(c) \/ RootPatched(c) \/ StatusArrives(c) \/ GiveUp(c)
  BY <1>2, <1>12 DEF Registered, Export, RootPatched, StatusArrives, GiveUp
<1> QED
  BY <1>4, <1>5, <1>6, <1>7, <1>8, <1>9, <1>10, <1>11, <1>12 DEF Moves

\* The moves that neither upload nor end an update.
Uploads(c) ==
  Registered(c) \/ PostContainer(c) \/ ContainerStored(c) \/ RootPatched(c) \/ GiveUp(c)

LEMMA OtherSteps ==
  ASSUME TypeSound, NEW c \in Call, Moves(c), ~Uploads(c)
  PROVE  /\ UNCHANGED <<server, raced>>
         /\ at[c] \notin {"ready", "patching", "failed"}
         /\ at'[c] \notin {"posting", "patching"}
         /\ \A d \in Call \ {c} : at'[d] = at[d] /\ job'[d] = job[d]
<1>1. ASSUME NEW s, NEW j, To(c, s, j), s \notin {"posting", "patching"}
      PROVE  /\ at'[c] \notin {"posting", "patching"}
             /\ \A d \in Call \ {c} : at'[d] = at[d] /\ job'[d] = job[d]
  BY <1>1, ToOnly DEF MovesOnly
<1>2. ASSUME Resolve(c) \/ \E reason \in Reasons : Reject(c, reason)
      PROVE  /\ at'[c] \notin {"posting", "patching"}
             /\ \A d \in Call \ {c} : at'[d] = at[d] /\ job'[d] = job[d]
  BY <1>2, SettledOnly DEF MovesOnly
<1>3. CASE RequestShare(c) \/ DeriveSalt(c) \/ Aggregate(c) \/ AwaitHandshake(c)
           \/ FetchKeyInfo(c) \/ Seal(c) \/ Register(c) \/ RequestKmc(c)
  <2>1. UNCHANGED <<server, raced>> /\ at[c] \notin {"ready", "patching", "failed"}
    BY <1>3 DEF RequestShare, DeriveSalt, Aggregate, AwaitHandshake, FetchKeyInfo, Seal,
       Register, RequestKmc, history
  <2>2. \E s : \E j : To(c, s, j) /\ s \notin {"posting", "patching"}
    BY <1>3 DEF RequestShare, DeriveSalt, Aggregate, AwaitHandshake, FetchKeyInfo, Seal,
       Register, RequestKmc
  <2> QED
    BY <1>1, <2>1, <2>2
<1>4. CASE Recompile(c) \/ RecoveryArrives(c) \/ RequestStatus(c)
  <2>1. UNCHANGED <<server, raced>> /\ at[c] \notin {"ready", "patching", "failed"}
    BY <1>4 DEF Recompile, RecoveryArrives, RequestStatus, history
  <2>2. PICK s \in {"deriving", "opening", "waiting"} : \E j : To(c, s, j)
    BY <1>4 DEF Recompile, RecoveryArrives, RequestStatus
  <2> QED
    BY <1>1, <2>1, <2>2
<1>5. CASE KeyInfoArrives(c) \/ KmcArrives(c) \/ Open(c)
  <2>1. UNCHANGED <<server, raced>> /\ at[c] \notin {"ready", "patching", "failed"}
    BY <1>5 DEF KeyInfoArrives, KmcArrives, Open, history
  <2>2. \/ \E s : \E j : To(c, s, j) /\ s \notin {"posting", "patching"}
        \/ Resolve(c) \/ \E reason \in Reasons : Reject(c, reason)
    BY <1>5 DEF KeyInfoArrives, KmcArrives, Open, Reasons
  <2> QED
    BY <1>1, <1>2, <2>1, <2>2
<1>6. CASE Export(c) \/ StatusArrives(c)
  <2>1. UNCHANGED <<server, raced>> /\ at[c] \notin {"ready", "patching", "failed"}
    BY <1>6 DEF Export, StatusArrives, history
  <2>2. Resolve(c)
    BY <1>6 DEF Export, StatusArrives
  <2> QED
    BY <1>2, <2>1, <2>2
<1> QED
  BY <1>3, <1>4, <1>5, <1>6 DEF Moves, Uploads

\* The identities after a move.
LEMMA MovesIdentity ==
  ASSUME TypeSound, NEW c \in Call, Moves(c),
         \A d \in Call \ {c} : at'[d] = at[d] /\ job'[d] = job[d]
  PROVE  \A d \in Call : job'[d].kind = job[d].kind /\ job'[d].key = job[d].key
  BY MovesCarry, MovesKeys DEF Carried

LEMMA OtherRoot ==
  ASSUME TypeSound, RootSound, NEW c \in Call, Moves(c), ~Uploads(c)
  PROVE  RootSound'
<1>1. /\ UNCHANGED <<server, raced>>
      /\ at[c] \notin {"ready", "patching", "failed"}
      /\ at'[c] \notin {"posting", "patching"}
      /\ \A d \in Call \ {c} : at'[d] = at[d] /\ job'[d] = job[d]
  BY OtherSteps
<1>2. \A d \in Call : job'[d].kind = job[d].kind /\ job'[d].key = job[d].key
  BY <1>1, MovesIdentity
<1>3. \A d \in Call : at'[d] \in {"posting", "patching"} => at'[d] = at[d]
  BY <1>1
<1>4. \A d \in Call : at[d] \in {"patching", "failed"} => at'[d] \in {"patching", "failed"}
  BY <1>1
<1> QED
  BY <1>1, <1>2, <1>3, <1>4, RootKept

LEMMA UploadRoot ==
  ASSUME TypeSound, RootSound, NEW c \in Call, Uploads(c)
  PROVE  RootSound'
<1>1. job[c] \in JobType /\ StageSound(c) /\ server \in [Key -> StoredKey \cup {NoKey}]
  BY CallFacts
<1>2. \A d \in Call \ {c} : at'[d] = at[d] /\ job'[d] = job[d]
  <2>1. CASE Registered(c) \/ RootPatched(c) \/ GiveUp(c)
    <3>1. Resolve(c) \/ \E reason \in Reasons : Reject(c, reason)
      BY <2>1 DEF Registered, RootPatched, GiveUp, Reasons
    <3> QED
      BY <3>1, SettledOnly DEF MovesOnly
  <2>2. CASE PostContainer(c) \/ ContainerStored(c)
    <3>1. (\E s : \E j : To(c, s, j)) \/ \E reason \in Reasons : Reject(c, reason)
      BY <2>2 DEF PostContainer, ContainerStored, Reasons
    <3> QED
      BY <3>1, ToOnly, SettledOnly DEF MovesOnly
  <2> QED
    BY <2>1, <2>2 DEF Uploads
<1>3. \A d \in Call : job'[d].kind = job[d].kind /\ job'[d].key = job[d].key
  BY <1>2, MovesIdentity DEF Uploads, Moves
<1>4. CASE GiveUp(c)
  <2>1. UNCHANGED <<server, raced>> /\ at'[c] = "failed"
    BY <1>4 DEF GiveUp, Reject, history, TypeSound, JobsSound
  <2> QED
    BY <1>2, <1>3, <2>1, RootKept
<1>5. PICK k0 \in Key : job[c].key = k0
  BY <1>1 DEF Uploads, Registered, PostContainer, ContainerStored, RootPatched, GiveUp, StageSound
<1>6. CASE Registered(c)
  <2>1. raced' = raced /\ at[c] = "registering" /\ at'[c] \in {"done", "failed"}
    BY <1>6 DEF Registered, Resolve, Reject, history, TypeSound, JobsSound
  <2>2. CASE server' = server
    BY <1>2, <1>3, <2>1, <2>2, RootKept
  <2>3. CASE server[k0] = NoKey /\ server' = [server EXCEPT ![k0] = Sealed(c)]
    <3> DEFINE g == Sealed(c)
    <3>0. g.root = c /\ g.policy = c
      BY DEF Sealed
    <3> HIDE DEF g
    <3>1. server'[k0] = g /\ \A k \in Key \ {k0} : server'[k] = server[k]
      BY <1>1, <2>3 DEF g
    <3>2. UpdatesOf(k0) = {}
      BY <2>3, CallFacts DEF UpdatesOf, StageSound
    <3>3. \A k \in Key : UpdatesOf(k)' \subseteq UpdatesOf(k)
      BY <1>2, <1>3, <2>1 DEF UpdatesOf
    <3>4. \A k \in Key \ {k0} : server'[k] = server[k]
      BY <3>1
    <3>5. \A d \in Call : at[d] \in {"patching", "failed"} => at'[d] = at[d]
      BY <1>2, <2>1
    <3>6. \A k \in Key \ raced : k # k0 => Behind(k)'
      BY <1>3, <3>4, <3>5 DEF RootSound, Behind
    <3>7. Behind(k0)'
      BY <3>0, <3>1 DEF Behind
    <3>8. \A d \in Call : at'[d] = "patching" => at[d] = "patching"
      BY <1>2, <2>1
    <3>9. ASSUME NEW k \in Key \ raced
          PROVE  /\ \A a, b \in UpdatesOf(k)' : a = b
                 /\ \A d \in UpdatesOf(k)' : at'[d] = "patching" => server'[k].policy = d
                 /\ Behind(k)'
      <4>1. CASE k = k0
        BY <3>2, <3>3, <3>7, <4>1
      <4>2. CASE k # k0
        <5>1. \A d \in UpdatesOf(k)' : d \in UpdatesOf(k)
          BY <3>3
        <5>2. \A d \in UpdatesOf(k)' : d \in Call
          BY DEF UpdatesOf
        <5> QED
          BY <3>4, <3>6, <3>8, <4>2, <5>1, <5>2 DEF RootSound
      <4> QED
        BY <4>1, <4>2
    <3> QED
      BY <2>1, <3>9 DEF RootSound
  <2> QED
    BY <1>5, <1>6, <2>2, <2>3 DEF Registered
<1>7. CASE PostContainer(c)
  <2>1. /\ server' = server /\ at[c] = "sealing" /\ at'[c] = "posting"
        /\ job[c].kind = "update"
        /\ raced' = IF UpdatesOf(k0) = {} THEN raced ELSE raced \cup {k0}
    BY <1>5, <1>7 DEF PostContainer, To, TypeSound, JobsSound
  <2>2. ASSUME NEW k \in Key \ raced'
        PROVE  /\ \A a, b \in UpdatesOf(k)' : a = b
               /\ \A d \in UpdatesOf(k)' : at'[d] = "patching" => server'[k].policy = d
               /\ Behind(k)'
    <3>1. Behind(k)'
      BY <1>2, <1>3, <2>1 DEF RootSound, Behind
    <3>2. CASE k = k0
      <4>1. UpdatesOf(k) = {}
        BY <2>1, <3>2
      <4>2. UpdatesOf(k)' \subseteq {c}
        BY <1>2, <4>1 DEF UpdatesOf
      <4> QED
        BY <2>1, <3>1, <4>2
    <3>3. CASE k # k0
      <4>1. \A d \in UpdatesOf(k)' : d \in UpdatesOf(k) /\ at'[d] = at[d]
        BY <1>2, <1>3, <1>5, <3>3 DEF UpdatesOf
      <4>2. k \in Key \ raced
        BY <2>1
      <4> QED
        BY <2>1, <3>1, <4>1, <4>2 DEF RootSound
    <3> QED
      BY <3>2, <3>3
  <2> QED
    BY <2>2 DEF RootSound
<1>8. CASE ContainerStored(c)
  <2>1. raced' = raced /\ at[c] = "posting" /\ job[c].kind = "update"
    BY <1>1, <1>8 DEF ContainerStored, history, StageSound
  <2>2. \A d \in Call : at[d] \in {"patching", "failed"} => at'[d] \in {"patching", "failed"}
    BY <1>2, <2>1
  <2>3. \A k \in Key : UpdatesOf(k)' \subseteq UpdatesOf(k)
    BY <1>2, <1>3, <2>1 DEF UpdatesOf
  <2>4. CASE server' = server /\ at'[c] = "failed"
    BY <1>2, <1>3, <2>1, <2>4, RootKept
  <2>5. CASE /\ at'[c] \in {"patching", "failed"}
             /\ server' = [server EXCEPT ![k0] = [Sealed(c) EXCEPT !.root = server[k0].root]]
    <3> DEFINE g == [Sealed(c) EXCEPT !.root = server[k0].root]
    <3>1. g.policy = c
      BY DEF Sealed
    <3> HIDE DEF g
    <3>2. server'[k0] = g /\ \A k \in Key \ {k0} : server'[k] = server[k]
      BY <1>1, <2>5 DEF g
    <3>3. c \in UpdatesOf(k0)
      BY <1>5, <2>1 DEF UpdatesOf
    <3>4. job'[c].key = k0
      BY <1>3, <1>5
    <3>5. Behind(k0)'
      BY <2>5, <3>1, <3>2, <3>4 DEF Behind
    <3>6. \A d \in UpdatesOf(k0) : k0 \notin raced => d = c
      BY <3>3 DEF RootSound
    <3>7. \A k \in Key : k # k0 => c \notin UpdatesOf(k)
      BY <1>5 DEF UpdatesOf
    <3>8. \A k \in Key \ raced : k # k0 => Behind(k)'
      BY <1>3, <2>2, <3>2 DEF RootSound, Behind
    <3>9. ASSUME NEW k \in Key \ raced
          PROVE  /\ \A a, b \in UpdatesOf(k)' : a = b
                 /\ \A d \in UpdatesOf(k)' : at'[d] = "patching" => server'[k].policy = d
                 /\ Behind(k)'
      <4>1. CASE k = k0
        BY <2>3, <3>1, <3>2, <3>5, <3>6, <4>1
      <4>2. CASE k # k0
        <5>1. \A d \in UpdatesOf(k)' : d \in UpdatesOf(k) /\ at'[d] = at[d]
          <6>1. \A d \in UpdatesOf(k)' : d \in Call
            BY DEF UpdatesOf
          <6> QED
            BY <1>2, <2>3, <3>7, <4>2, <6>1
        <5> QED
          BY <2>3, <3>2, <3>8, <4>2, <5>1 DEF RootSound
      <4> QED
        BY <4>1, <4>2
    <3> QED
      BY <2>1, <3>9 DEF RootSound
  <2>6. CASE Verified(c)
    <3>1. server' = [server EXCEPT ![k0] = [Sealed(c) EXCEPT !.root = server[k0].root]]
      BY <1>5, <1>8, <2>6 DEF ContainerStored
    <3>2. (\E j : To(c, "patching", j)) \/ Reject(c, "timeout")
      BY <1>8, <2>6 DEF ContainerStored
    <3>3. at'[c] \in {"patching", "failed"}
      BY <3>2, ToOnly DEF Reject, TypeSound, JobsSound
    <3> QED
      BY <2>5, <3>1, <3>3
  <2>7. CASE ~Verified(c)
    BY <1>8, <2>4, <2>7 DEF ContainerStored, Reject, TypeSound, JobsSound
  <2> QED
    BY <2>6, <2>7
<1>9. CASE RootPatched(c)
  <2>1. raced' = raced /\ at[c] = "patching" /\ job[c].kind = "update"
    BY <1>1, <1>9 DEF RootPatched, history, StageSound
  <2>2. at'[c] \in {"done", "failed"}
    BY <1>9 DEF RootPatched, Resolve, Reject, TypeSound, JobsSound
  <2>3. CASE server' = server /\ at'[c] = "failed"
    BY <1>2, <1>3, <2>1, <2>3, RootKept
  <2>4. CASE server' = [server EXCEPT ![k0].root = c]
    <3>1. k0 \in Key /\ server[k0] \in StoredKey
      BY <1>1, <1>5, <2>1 DEF StageSound
    <3> DEFINE g == [server[k0] EXCEPT !.root = c]
    <3>2. g.policy = server[k0].policy /\ g.root = c
      BY <3>1 DEF StoredKey
    <3> HIDE DEF g
    <3>3. server'[k0] = g /\ \A k \in Key \ {k0} : server'[k] = server[k]
      BY <1>1, <2>4, <3>1 DEF g
    <3>4. c \in UpdatesOf(k0)
      BY <1>5, <2>1 DEF UpdatesOf
    <3>5. k0 \notin raced => server[k0].policy = c
      BY <2>1, <3>1, <3>4 DEF RootSound
    <3>6. k0 \notin raced => Behind(k0)'
      BY <3>2, <3>3, <3>5 DEF Behind
    <3>7. \A d \in Call : job[d].key # k0 => d # c
      BY <1>5
    <3>8. ASSUME NEW k \in Key \ raced, k # k0 PROVE Behind(k)'
      <4> SUFFICES ASSUME server[k] # NoKey, server[k].root # server[k].policy
                   PROVE  \E d \in Call : /\ d = server[k].policy /\ job'[d].key = k
                                          /\ at'[d] \in {"patching", "failed"}
        BY <3>3, <3>8 DEF Behind
      <4>1. PICK d \in Call : /\ d = server[k].policy /\ job[d].key = k
                              /\ at[d] \in {"patching", "failed"}
        BY DEF RootSound, Behind
      <4>2. d # c
        BY <3>7, <3>8, <4>1
      <4> QED
        BY <1>2, <4>1, <4>2
    <3>9. \A k \in Key : \A d \in UpdatesOf(k)' : d \in UpdatesOf(k) \ {c} /\ at'[d] = at[d]
      BY <1>2, <1>3, <2>2 DEF UpdatesOf
    <3>10. ASSUME NEW k \in Key \ raced
           PROVE  /\ \A a, b \in UpdatesOf(k)' : a = b
                  /\ \A d \in UpdatesOf(k)' : at'[d] = "patching" => server'[k].policy = d
                  /\ Behind(k)'
      <4>1. CASE k = k0
        <5>1. UpdatesOf(k)' = {}
          BY <3>4, <3>9, <4>1 DEF RootSound
        <5> QED
          BY <3>6, <4>1, <5>1
      <4>2. CASE k # k0
        <5>1. \A d \in UpdatesOf(k)' : d \in UpdatesOf(k) /\ at'[d] = at[d]
          BY <3>9
        <5> QED
          BY <3>3, <3>8, <4>2, <5>1 DEF RootSound
      <4> QED
        BY <4>1, <4>2
    <3> QED
      BY <2>1, <3>10 DEF RootSound
  <2>5. CASE Verified(c)
    BY <1>5, <1>9, <2>4, <2>5 DEF RootPatched
  <2>6. CASE ~Verified(c)
    BY <1>9, <2>3, <2>6 DEF RootPatched, Reject, TypeSound, JobsSound
  <2> QED
    BY <2>5, <2>6
<1> QED
  BY <1>4, <1>6, <1>7, <1>8, <1>9 DEF Uploads

LEMMA RootInductive == TypeSound /\ RootSound /\ [Next]_vars => RootSound'
<1> SUFFICES ASSUME TypeSound, RootSound, [Next]_vars PROVE RootSound'
  OBVIOUS
<1>1. CASE UNCHANGED vars
  BY <1>1, RootKept DEF vars, history
<1>2. ASSUME NEW c \in Call, NEW k \in Key, NEW kind \in Kinds,
             Begin(c, kind, k) \/ BeginDisposed(c, kind, k) \/ BeginStatus(c, k)
      PROVE  RootSound'
  <2>1. UNCHANGED <<server, raced>>
    BY <1>2 DEF Begin, BeginDisposed, BeginStatus, history
  <2>2. /\ \A d \in Call \ {c} : at'[d] = at[d] /\ job'[d] = job[d]
        /\ at[c] = "ready" /\ at'[c] \in {"hashed", "failed"}
    BY <1>2, BegunFacts
  <2>3. \A d \in Call : at[d] # "ready" => job'[d].kind = job[d].kind /\ job'[d].key = job[d].key
    BY <2>2
  <2>4. \A d \in Call : at'[d] \in {"posting", "patching"} => at'[d] = at[d]
    BY <2>2
  <2>5. \A d \in Call : at[d] \in {"patching", "failed"} => at'[d] \in {"patching", "failed"}
    BY <2>2
  <2> QED
    BY <2>1, <2>3, <2>4, <2>5, RootKept
<1>3. ASSUME NEW c \in Call, NEW k \in Key, BeginStatus(c, k) PROVE RootSound'
  BY <1>2, <1>3 DEF Kinds
<1>4. ASSUME NEW c \in Call, Moves(c) PROVE RootSound'
  BY <1>4, OtherRoot, UploadRoot
<1>5. ASSUME NEW c \in Call, RecoverFromKit(c) \/ EndRecovery(c) PROVE RootSound'
  <2>1. /\ UNCHANGED <<server, raced>>
        /\ at[c] \in {"hashed", "waiting", "opening"} /\ at'[c] \in {"waiting", "done", "failed"}
        /\ job'[c].key = job[c].key /\ job'[c].kind = "recover" /\ job[c].kind = "recover"
        /\ \A d \in Call \ {c} : at'[d] = at[d] /\ \E base \in Bases : job'[d] = base[d]
    BY <1>5, RecoveryEdges
  <2>2. \A d \in Call : job'[d].kind = job[d].kind /\ job'[d].key = job[d].key
    BY <2>1, BaseCarries, BaseShare
  <2>3. \A d \in Call : at'[d] \in {"posting", "patching"} => at'[d] = at[d]
    BY <2>1
  <2>4. \A d \in Call : at[d] \in {"patching", "failed"} => at'[d] \in {"patching", "failed"}
    BY <2>1
  <2> QED
    BY <2>1, <2>2, <2>3, <2>4, RootKept
<1>6. CASE ShareArrives
  <2>1. PICK q \in asked :
          /\ at' = [c \in Call |-> IF c \in Listening THEN "answered" ELSE at[c]]
          /\ job' = [c \in Call |-> IF c \in Listening
                                    THEN [job[c] EXCEPT !.share = q[2], !.live = FALSE]
                                    ELSE job[c]]
    BY <1>6 DEF ShareArrives
  <2>2. \A d \in Call : job'[d].kind = job[d].kind /\ job'[d].key = job[d].key
    <3>1. \A d \in Call : job[d] \in JobType
      BY CallFacts
    <3>2. \A d \in Call : /\ [job[d] EXCEPT !.share = q[2], !.live = FALSE].kind = job[d].kind
                          /\ [job[d] EXCEPT !.share = q[2], !.live = FALSE].key = job[d].key
      BY <3>1 DEF JobType
    <3>3. \A d \in Call : job'[d] \in {job[d], [job[d] EXCEPT !.share = q[2], !.live = FALSE]}
      BY <2>1
    <3> QED
      BY <3>2, <3>3
  <2>3. \A d \in Call : at'[d] = at[d] \/ (at[d] = "requested" /\ at'[d] = "answered")
    BY <2>1 DEF Listening
  <2>4. UNCHANGED <<server, raced>>
    BY <1>6 DEF ShareArrives, history
  <2>5. \A d \in Call : at'[d] \in {"posting", "patching"} => at'[d] = at[d]
    BY <2>3
  <2>6. \A d \in Call : at[d] \in {"patching", "failed"} => at'[d] \in {"patching", "failed"}
    BY <2>3
  <2> QED
    BY <2>2, <2>4, <2>5, <2>6, RootKept
<1>7. CASE Connect \/ Disconnect \/ Dispose
  <2>1. UNCHANGED <<server, raced, at>> /\ job' \in Bases
    <3>1. CASE Connect
      BY <3>1 DEF Connect, history, Bases
    <3>2. CASE Disconnect
      BY <3>2 DEF Disconnect, DropSockets, history, Bases, OnSdk, Stages
    <3>3. CASE Dispose
      BY <3>3 DEF Dispose, DropSockets, Bases, OnSdk, Stages
    <3> QED
      BY <1>7, <3>1, <3>2, <3>3
  <2>2. \A d \in Call : job'[d].kind = job[d].kind /\ job'[d].key = job[d].key
    BY <2>1, BaseCarries, BaseShare
  <2> QED
    BY <2>1, <2>2, RootKept
<1> QED
  BY <1>1, <1>2, <1>3, <1>4, <1>5, <1>6, <1>7 DEF Next, Moves

LEMMA RootInvariant == Spec => []RootSound
<1>1. Init => RootSound
  <2> SUFFICES ASSUME Init PROVE RootSound
    OBVIOUS
  <2>1. \A k \in Key : UpdatesOf(k) = {}
    BY DEF Init, UpdatesOf
  <2>2. \A k \in Key : OldKey(k).root = OldKey(k).policy
    BY DEF OldKey
  <2>3. \A k \in Key : server[k] # NoKey => server[k] = OldKey(k)
    BY OldIsKey
  <2>4. \A k \in Key : Behind(k)
    BY <2>2, <2>3 DEF Behind
  <2> QED
    BY <2>1, <2>4 DEF RootSound
<1> QED
  BY <1>1, TypeInvariant, RootInductive, PTL DEF Spec

-----------------------------------------------------------------------------
(* The commitment.  A client that holds a MuSig2 key keeps it, so what a   *)
(* call uploads as commitment is the key of its container or the client's. *)

\* The locals of a call, beside the key h the client has committed to.
JobCommit(s, j, h) ==
  /\ j.got # NoKey => j.got.client # "none"
  /\ j.kind = "create" /\ s = "hashed" => h # "none"
  /\ j.kind = "create" /\ s \in {"requested", "answered", "salting", "deriving", "sealing",
                                  "registering"} => h # "none" /\ j.priv = h
  /\ j.kind = "createAuth" /\ s \in {"salting", "connecting", "fetching", "deriving", "sealing",
                                      "registering"} => j.priv # "none"
  /\ s = "registering" => j.h1 = j.priv
  /\ j.kind = "update" /\ s \in {"salting", "deriving", "sealing", "posting"} =>
       h # "none" /\ j.priv # "none"
  /\ s = "posting" => h # "none" /\ j.h1 = h

ServerCommit ==
  \A k \in Key : server[k] # NoKey =>
    /\ server[k].client # "none" /\ server[k].h1 # "none"
    /\ server[k].h1 \in {server[k].client, h1}

CommitSound ==
  ~cut =>
    /\ ~disposed => priv = h1
    /\ ServerCommit
    /\ \A c \in Call : JobCommit(at[c], job[c], h1)

\* The client's key is kept, or is its first.
Holds == h1' = h1 \/ (h1 = "none" /\ h1' # "none")

LEMMA CommitHolds ==
  ASSUME Holds, NEW s, NEW j, JobCommit(s, j, h1)
  PROVE  JobCommit(s, j, h1')
  BY DEF Holds, JobCommit

LEMMA ServerHolds ==
  ASSUME Holds, ServerCommit, server' = server
  PROVE  ServerCommit'
  BY DEF Holds, ServerCommit

LEMMA MovesCommit ==
  ASSUME TypeSound, CommitSound, ~cut, NEW c \in Call, Moves(c), Holds, ~disposed => priv' = h1',
         \A d \in Call \ {c} : at'[d] = at[d] /\ job'[d] = job[d],
         JobCommit(at'[c], job'[c], h1'), ServerCommit'
  PROVE  CommitSound'
<1>1. \A d \in Call \ {c} : JobCommit(at[d], job[d], h1')
  BY CommitHolds DEF CommitSound
<1>2. \A d \in Call : JobCommit(at'[d], job'[d], h1')
  BY <1>1
<1>3. \A d \in Call : JobCommit(at[d], job[d], h1)'
  BY <1>2 DEF JobCommit
<1> QED
  BY <1>3, MovesKeep DEF CommitSound

LEMMA ToCommit ==
  ASSUME TypeSound, CommitSound, ~cut, NEW c \in Call, Moves(c), Holds, ~disposed => priv' = h1',
         NEW s, NEW j, To(c, s, j), JobCommit(s, j, h1'), ServerCommit'
  PROVE  CommitSound'
<1>1. MovesOnly(c, {}) /\ at'[c] = s /\ job'[c] = j
  BY ToOnly
<1> QED
  BY <1>1, MovesCommit DEF MovesOnly

LEMMA SettledCommit ==
  ASSUME TypeSound, CommitSound, ~cut, NEW c \in Call, Moves(c), Holds, ~disposed => priv' = h1',
         Resolve(c) \/ \E reason \in Reasons : Reject(c, reason), ServerCommit'
  PROVE  CommitSound'
<1>1. MovesOnly(c, Reasons) /\ at'[c] \in {"done", "failed"}
  BY SettledOnly
<1> DEFINE j == [NoJob EXCEPT !.kind = job[c].kind, !.key = job[c].key]
<1>2. job' = [job EXCEPT ![c] = j]
  BY DEF Resolve, Reject, Settled
<1>3. j.got = NoKey
  BY DEF NoJob
<1> HIDE DEF j
<1>4. job'[c] = j
  BY <1>2 DEF TypeSound, JobsSound
<1>5. JobCommit(at'[c], job'[c], h1')
  BY <1>1, <1>3, <1>4 DEF JobCommit
<1> QED
  BY <1>1, <1>5, MovesCommit DEF MovesOnly

\* Most moves leave the client's key pair alone.
LEMMA MovesPair ==
  ASSUME NEW c \in Call, Moves(c), ~DeriveSalt(c), ~Aggregate(c), ~Open(c)
  PROVE  UNCHANGED <<priv, h1>>
<1>1. ASSUME RequestShare(c) \/ AwaitHandshake(c) \/ FetchKeyInfo(c) \/ KeyInfoArrives(c)
             \/ Seal(c) \/ Register(c) \/ Registered(c) \/ RequestKmc(c) \/ KmcArrives(c)
             \/ Export(c)
      PROVE  UNCHANGED <<priv, h1>>
  BY <1>1 DEF RequestShare, AwaitHandshake, FetchKeyInfo, KeyInfoArrives, Seal, Register,
     Registered, RequestKmc, KmcArrives, Export, client
<1>2. ASSUME Recompile(c) \/ PostContainer(c) \/ ContainerStored(c) \/ RootPatched(c)
             \/ RecoveryArrives(c) \/ RequestStatus(c) \/ StatusArrives(c) \/ GiveUp(c)
      PROVE  UNCHANGED <<priv, h1>>
  BY <1>2 DEF Recompile, PostContainer, ContainerStored, RootPatched, RecoveryArrives,
     RequestStatus, StatusArrives, GiveUp, client
<1> QED
  BY <1>1, <1>2 DEF Moves

LEMMA CallCommit ==
  ASSUME TypeSound, QuietSound, CommitSound, NEW c \in Call, Moves(c)
  PROVE  CommitSound'
<1> SUFFICES ASSUME ~cut PROVE CommitSound'
  BY MovesKeep DEF CommitSound
<1>1. /\ job[c] \in JobType /\ StageSound(c) /\ JobCommit(at[c], job[c], h1)
      /\ ServerCommit /\ (~disposed => priv = h1)
      /\ server \in [Key -> StoredKey \cup {NoKey}]
  BY CallFacts DEF CommitSound
<1>2. job[c].kind # "status" => ~disposed /\ priv = h1
  BY <1>1, MovesRun DEF QuietSound
<1>3. UNCHANGED <<priv, h1>> => Holds /\ (~disposed => priv' = h1')
  BY <1>1 DEF Holds
<1>4. Holds /\ server' = server => ServerCommit'
  BY <1>1, ServerHolds
<1>5. CASE RequestShare(c)
  <2> DEFINE j == [job[c] EXCEPT !.priv = priv, !.live = TRUE]
  <2>1. /\ To(c, "requested", j) /\ UNCHANGED <<priv, h1, server>>
        /\ at[c] = "hashed" /\ job[c].kind = "create"
    BY <1>5 DEF RequestShare
  <2>2. JobCommit("requested", j, h1')
    BY <1>1, <1>2, <2>1 DEF JobCommit, JobType
  <2> HIDE DEF j
  <2> QED
    BY <1>3, <1>4, <2>1, <2>2, ToCommit
<1>6. CASE DeriveSalt(c)
  <2>1. CASE at[c] = "answered"
    <3> DEFINE j == [job[c] EXCEPT !.salt = cred]
    <3>1. To(c, "salting", j) /\ UNCHANGED <<priv, h1, server>>
      BY <1>6, <2>1 DEF DeriveSalt, client
    <3>2. JobCommit("salting", j, h1')
      BY <1>1, <2>1, <3>1 DEF JobCommit, JobType, StageSound
    <3> HIDE DEF j
    <3> QED
      BY <1>3, <1>4, <3>1, <3>2, ToCommit
  <2>2. CASE at[c] = "hashed"
    <3> DEFINE j == [job[c] EXCEPT !.salt = cred, !.priv = priv']
    <3>1. /\ To(c, "salting", j) /\ server' = server /\ EnsureKeypair
          /\ job[c].kind = "createAuth"
      BY <1>6, <2>2 DEF DeriveSalt
    <3>2. Holds /\ priv' = h1' /\ priv' # "none"
      BY <1>2, <3>1 DEF EnsureKeypair, Holds
    <3>3. JobCommit("salting", j, h1')
      BY <1>1, <3>1, <3>2 DEF JobCommit, JobType
    <3> HIDE DEF j
    <3> QED
      BY <1>4, <3>1, <3>2, <3>3, ToCommit
  <2> QED
    BY <1>6, <2>1, <2>2 DEF DeriveSalt
<1>7. CASE Aggregate(c)
  <2> DEFINE j == [job[c] EXCEPT !.kek = cred]
  <2>1. /\ To(c, "deriving", j) /\ server' = server /\ h1' = job[c].priv /\ priv' = priv
        /\ at[c] = "salting" /\ job[c].kind = "create"
    BY <1>7 DEF Aggregate
  <2>2. UNCHANGED <<priv, h1>>
    BY <1>1, <2>1 DEF JobCommit
  <2>3. JobCommit("deriving", j, h1')
    BY <1>1, <2>1, <2>2 DEF JobCommit, JobType
  <2> HIDE DEF j
  <2> QED
    BY <1>3, <1>4, <2>1, <2>2, <2>3, ToCommit
<1>8. CASE Open(c)
  <2>1. server' = server /\ job[c].got \in StoredKey /\ job[c].kind # "status"
        /\ at[c] = "opening"
    BY <1>1, <1>8 DEF Open, StageSound
  <2>2. job[c].got.client # "none"
    BY <1>1, <2>1, StoredIsKey DEF JobCommit
  <2>3. Holds /\ (~disposed => priv' = h1')
        /\ (Reject(c, "sealed") \/ h1' # "none")
    BY <1>1, <1>3, <1>8, <2>2 DEF Open, Holds
  <2>4. CASE Resolve(c) \/ Reject(c, "sealed")
    BY <1>4, <2>1, <2>3, <2>4, SettledCommit DEF Reasons
  <2>5. CASE ~Reject(c, "sealed") /\ job[c].kind = "update"
    <3> DEFINE g == job[c].got
               j == [job[c] EXCEPT !.salt = cred, !.share = g.share, !.priv = g.client]
    <3>1. To(c, "salting", j)
      BY <1>8, <2>5 DEF Open
    <3> HIDE DEF g
    <3>2. g.client # "none"
      BY <2>2 DEF g
    <3>3. j.priv = g.client /\ j.got = job[c].got /\ j.kind = job[c].kind
      BY <1>1 DEF JobType
    <3> HIDE DEF j
    <3>4. JobCommit("salting", j, h1')
      BY <1>1, <2>3, <2>5, <3>2, <3>3 DEF JobCommit
    <3> QED
      BY <1>4, <2>1, <2>3, <3>1, <3>4, ToCommit
  <2> QED
    BY <1>8, <2>4, <2>5 DEF Open
<1>9. CASE ~DeriveSalt(c) /\ ~Aggregate(c) /\ ~Open(c)
  <2>1. UNCHANGED <<priv, h1>> /\ Holds /\ (~disposed => priv' = h1')
    BY <1>3, <1>9, MovesPair
  <2>2. CASE AwaitHandshake(c)
    <3> DEFINE j == [job[c] EXCEPT !.live = TRUE]
    <3>1. /\ To(c, "connecting", j) /\ server' = server
          /\ at[c] = "salting" /\ job[c].kind = "createAuth"
      BY <2>2 DEF AwaitHandshake
    <3>2. JobCommit("connecting", j, h1')
      BY <1>1, <2>1, <3>1 DEF JobCommit, JobType
    <3> HIDE DEF j
    <3> QED
      BY <1>4, <2>1, <3>1, <3>2, ToCommit
  <2>3. CASE FetchKeyInfo(c)
    <3> DEFINE j == [job[c] EXCEPT !.pop = popKey, !.live = FALSE]
    <3>1. To(c, "fetching", j) /\ server' = server /\ at[c] = "connecting"
      BY <2>3 DEF FetchKeyInfo
    <3>2. JobCommit("fetching", j, h1')
      BY <1>1, <2>1, <3>1 DEF JobCommit, JobType, StageSound
    <3> HIDE DEF j
    <3> QED
      BY <1>4, <2>1, <3>1, <3>2, ToCommit
  <2>4. CASE KeyInfoArrives(c)
    <3> DEFINE j == [job[c] EXCEPT !.share = job[c].key, !.kek = cred]
    <3>1. /\ To(c, "deriving", j) \/ Reject(c, "refused")
          /\ server' = server /\ at[c] = "fetching"
      BY <2>4 DEF KeyInfoArrives
    <3>2. JobCommit("deriving", j, h1')
      BY <1>1, <2>1, <3>1 DEF JobCommit, JobType, StageSound
    <3> HIDE DEF j
    <3> QED
      BY <1>4, <2>1, <3>1, <3>2, ToCommit, SettledCommit DEF Reasons
  <2>5. CASE Seal(c)
    <3> DEFINE j == [job[c] EXCEPT !.slot = cred]
    <3>1. To(c, "sealing", j) /\ server' = server /\ at[c] = "deriving"
      BY <2>5 DEF Seal
    <3>2. JobCommit("sealing", j, h1')
      BY <1>1, <2>1, <3>1 DEF JobCommit, JobType
    <3> HIDE DEF j
    <3> QED
      BY <1>4, <2>1, <3>1, <3>2, ToCommit
  <2>6. CASE Register(c)
    <3> DEFINE q == IF job[c].kind = "create" THEN h1 ELSE job[c].priv
               j == [job[c] EXCEPT !.live = TRUE, !.pop = sdk'.pop, !.h1 = q]
    <3>1. /\ To(c, "registering", j) /\ server' = server
          /\ at[c] = "sealing" /\ job[c].kind \in {"create", "createAuth"}
      BY <2>6 DEF Register
    <3>2. q = job[c].priv
      BY <1>1, <3>1 DEF JobCommit
    <3> HIDE DEF q
    <3>3. JobCommit("registering", j, h1')
      BY <1>1, <2>1, <3>1, <3>2 DEF JobCommit, JobType
    <3> HIDE DEF j
    <3> QED
      BY <1>4, <2>1, <3>1, <3>3, ToCommit
  <2>7. CASE Registered(c)
    <3>1. Resolve(c) \/ \E reason \in Reasons : Reject(c, reason)
      BY <2>7 DEF Registered, Reasons
    <3>2. CASE server' = server
      BY <1>4, <2>1, <3>1, <3>2, SettledCommit
    <3>3. CASE server' = [server EXCEPT ![job[c].key] = Sealed(c)]
      <4> DEFINE g == Sealed(c)
      <4>1. g.client = job[c].priv /\ g.h1 = job[c].priv /\ job[c].priv # "none"
        BY <1>1, <2>7 DEF Registered, Sealed, JobCommit, StageSound
      <4> HIDE DEF g
      <4>2. \A k \in Key : server'[k] = IF k = job[c].key THEN g ELSE server[k]
        BY <1>1, <3>3 DEF g
      <4>3. ServerCommit'
        BY <1>1, <2>1, <4>1, <4>2 DEF ServerCommit
      <4> QED
        BY <2>1, <3>1, <4>3, SettledCommit
    <3> QED
      BY <2>7, <3>2, <3>3 DEF Registered
  <2>8. CASE RequestKmc(c)
    <3> DEFINE j == [job[c] EXCEPT !.live = TRUE, !.pop = sdk'.pop]
    <3>1. /\ To(c, "waiting", j) /\ server' = server
          /\ job[c].kind \in {"get", "export", "update"}
      BY <2>8 DEF RequestKmc
    <3>2. JobCommit("waiting", j, h1')
      BY <1>1, <2>1, <3>1 DEF JobCommit, JobType
    <3> HIDE DEF j
    <3> QED
      BY <1>4, <2>1, <3>1, <3>2, ToCommit
  <2>9. CASE KmcArrives(c) \/ RecoveryArrives(c)
    <3>1. server' = server /\ job[c].key \in Key /\ job[c].kind \in {"get", "export", "update", "recover"}
      BY <1>1, <2>9 DEF KmcArrives, RecoveryArrives, StageSound
    <3>2. CASE Reject(c, "server")
      BY <1>4, <2>1, <3>1, <3>2, SettledCommit DEF Reasons
    <3>3. CASE server[job[c].key] # NoKey
      <4> DEFINE g == server[job[c].key]
                 Own(j) == j.got = g /\ j.kind = job[c].kind
      <4>1. g.client # "none"
        BY <1>1, <3>1, <3>3 DEF ServerCommit
      <4> HIDE DEF g
      <4>2. \E j : To(c, "opening", j) /\ Own(j)
        <5>1. CASE KmcArrives(c)
          <6> DEFINE j == [job[c] EXCEPT !.got = g, !.kek = cred, !.live = FALSE]
          <6>1. To(c, "opening", j)
            BY <3>3, <5>1 DEF KmcArrives, g
          <6>2. Own(j)
            BY <1>1 DEF JobType
          <6> HIDE DEF j, Own
          <6> QED
            BY <6>1, <6>2
        <5>2. CASE RecoveryArrives(c)
          <6>1. PICK b \in BOOLEAN : To(c, "opening", [job[c] EXCEPT !.got = g, !.live = FALSE, !.bare = b])
            BY <5>2 DEF RecoveryArrives, g
          <6> DEFINE j == [job[c] EXCEPT !.got = g, !.live = FALSE, !.bare = b]
          <6>2. Own(j)
            BY <1>1 DEF JobType
          <6>3. To(c, "opening", j)
            BY <6>1
          <6> HIDE DEF j, Own
          <6> QED
            BY <6>2, <6>3
        <5> QED
          BY <2>9, <5>1, <5>2
      <4>3. PICK j : To(c, "opening", j) /\ Own(j)
        BY <4>2
      <4>4. JobCommit("opening", j, h1')
        BY <4>1, <4>3 DEF JobCommit
      <4> QED
        BY <1>4, <2>1, <3>1, <4>3, <4>4, ToCommit
    <3> QED
      BY <2>9, <3>2, <3>3 DEF KmcArrives, RecoveryArrives
  <2>10. CASE Export(c) \/ StatusArrives(c) \/ GiveUp(c)
    <3>1. server' = server /\ (Resolve(c) \/ \E reason \in Reasons : Reject(c, reason))
      BY <2>10 DEF Export, StatusArrives, GiveUp, Reasons
    <3> QED
      BY <1>4, <2>1, <3>1, SettledCommit
  <2>11. CASE Recompile(c)
    <3> DEFINE j == [job[c] EXCEPT !.kek = cred]
    <3>1. /\ To(c, "deriving", j) /\ server' = server
          /\ at[c] = "salting" /\ job[c].kind = "update"
      BY <2>11 DEF Recompile
    <3>2. JobCommit("deriving", j, h1')
      BY <1>1, <2>1, <3>1 DEF JobCommit, JobType
    <3> HIDE DEF j
    <3> QED
      BY <1>4, <2>1, <3>1, <3>2, ToCommit
  <2>12. CASE PostContainer(c)
    <3> DEFINE j == [job[c] EXCEPT !.pop = popKey, !.h1 = h1]
    <3>1. /\ To(c, "posting", j) /\ server' = server
          /\ at[c] = "sealing" /\ job[c].kind = "update"
      BY <2>12 DEF PostContainer
    <3>2. JobCommit("posting", j, h1')
      BY <1>1, <2>1, <3>1 DEF JobCommit, JobType
    <3> HIDE DEF j
    <3> QED
      BY <1>4, <2>1, <3>1, <3>2, ToCommit
  <2>13. CASE ContainerStored(c)
    <3>1. at[c] = "posting" /\ job[c].kind = "update"
      BY <1>1, <2>13 DEF ContainerStored, StageSound
    <3>2. ServerCommit'
      <4>1. CASE server' = server
        BY <1>4, <2>1, <4>1
      <4>2. CASE server' = [server EXCEPT ![job[c].key] =
                              [Sealed(c) EXCEPT !.root = server[job[c].key].root]]
        <5> DEFINE g == [Sealed(c) EXCEPT !.root = server[job[c].key].root]
        <5>1. g.client = job[c].priv /\ g.h1 = job[c].h1
          BY DEF Sealed
        <5>2. job[c].priv # "none" /\ job[c].h1 = h1 /\ h1 # "none"
          BY <1>1, <3>1 DEF JobCommit
        <5>3. server' = [server EXCEPT ![job[c].key] = g]
          BY <4>2
        <5> HIDE DEF g
        <5>4. \A k \in Key : server'[k] = IF k = job[c].key THEN g ELSE server[k]
          BY <1>1, <5>3
        <5> QED
          BY <1>1, <2>1, <5>1, <5>2, <5>4 DEF ServerCommit
      <4> QED
        BY <2>13, <4>1, <4>2 DEF ContainerStored
    <3>3. CASE \E reason \in Reasons : Reject(c, reason)
      BY <2>1, <3>2, <3>3, SettledCommit
    <3>4. CASE To(c, "patching", [job[c] EXCEPT !.pop = popKey])
      <4> DEFINE j == [job[c] EXCEPT !.pop = popKey]
      <4>1. JobCommit("patching", j, h1')
        BY <1>1, <3>1 DEF JobCommit, JobType
      <4>2. To(c, "patching", j)
        BY <3>4
      <4> HIDE DEF j
      <4> QED
        BY <2>1, <3>2, <4>1, <4>2, ToCommit
    <3> QED
      BY <2>13, <3>3, <3>4 DEF ContainerStored, Reasons
  <2>14. CASE RootPatched(c)
    <3>1. Resolve(c) \/ \E reason \in Reasons : Reject(c, reason)
      BY <2>14 DEF RootPatched, Reasons
    <3>2. CASE server' = server
      BY <1>4, <2>1, <3>1, <3>2, SettledCommit
    <3>3. CASE server' = [server EXCEPT ![job[c].key].root = c]
      <4>1. job[c].key \in Key /\ server[job[c].key] \in StoredKey
            /\ server[job[c].key] # NoKey
        BY <1>1, <2>14 DEF RootPatched, StageSound
      <4> DEFINE g == [server[job[c].key] EXCEPT !.root = c]
      <4>2. g.client = server[job[c].key].client /\ g.h1 = server[job[c].key].h1
        BY <4>1 DEF StoredKey
      <4>3. server' = [server EXCEPT ![job[c].key] = g]
        BY <3>3
      <4> HIDE DEF g
      <4>4. \A k \in Key : server'[k] = IF k = job[c].key THEN g ELSE server[k]
        BY <1>1, <4>3
      <4>5. ServerCommit'
        BY <1>1, <2>1, <4>1, <4>2, <4>4 DEF ServerCommit
      <4> QED
        BY <2>1, <3>1, <4>5, SettledCommit
    <3> QED
      BY <2>14, <3>2, <3>3 DEF RootPatched
  <2>15. CASE RequestStatus(c)
    <3>1. To(c, "waiting", job[c]) /\ server' = server
      BY <2>15 DEF RequestStatus
    <3>2. JobCommit("waiting", job[c], h1')
      BY <1>1 DEF JobCommit
    <3> QED
      BY <1>4, <2>1, <3>1, <3>2, ToCommit
  <2> QED
    BY <1>5, <1>9, <2>2, <2>3, <2>4, <2>5, <2>6, <2>7, <2>8, <2>9, <2>10, <2>11, <2>12, <2>13,
       <2>14, <2>15 DEF Moves
<1> QED
  BY <1>6, <1>7, <1>8, <1>9

LEMMA CommitKept ==
  ASSUME CommitSound, cut => cut', Holds, server' = server,
         ~cut' => \A d \in Call : JobCommit(at'[d], job'[d], h1'),
         ~cut /\ ~disposed' => priv' = h1'
  PROVE  CommitSound'
<1> SUFFICES ASSUME ~cut' PROVE CommitSound'
  BY DEF CommitSound
<1>1. ServerCommit'
  BY ServerHolds DEF CommitSound
<1>2. \A d \in Call : JobCommit(at[d], job[d], h1)'
  BY DEF JobCommit
<1> QED
  BY <1>1, <1>2 DEF CommitSound

LEMMA BaseCommit ==
  ASSUME TypeSound, NEW base \in Bases, NEW d \in Call, NEW s, NEW h, JobCommit(s, job[d], h)
  PROVE  JobCommit(s, base[d], h)
<1>1. base[d] \in {job[d], [job[d] EXCEPT !.live = FALSE]} /\ job[d] \in JobType
  BY BaseSound, CallFacts
<1> DEFINE j == [job[d] EXCEPT !.live = FALSE]
<1>2. JobCommit(s, j, h)
  BY <1>1 DEF JobCommit, JobType
<1> HIDE DEF j
<1> QED
  BY <1>1, <1>2 DEF j

LEMMA CommitInductive == TypeSound /\ QuietSound /\ CommitSound /\ [Next]_vars => CommitSound'
<1> SUFFICES ASSUME TypeSound, QuietSound, CommitSound, [Next]_vars PROVE CommitSound'
  OBVIOUS
<1>1. CASE UNCHANGED vars
  BY <1>1, CommitKept DEF vars, client, history, Holds, CommitSound
<1>2. ASSUME NEW c \in Call, NEW k \in Key, NEW kind \in Kinds,
             Begin(c, kind, k) \/ BeginDisposed(c, kind, k) \/ BeginStatus(c, k)
      PROVE  CommitSound'
  <2>1. cut' = cut /\ disposed' = disposed /\ server' = server
    BY <1>2 DEF Begin, BeginDisposed, BeginStatus, client, history
  <2> SUFFICES ASSUME ~cut PROVE CommitSound'
    BY <2>1 DEF CommitSound
  <2>2. Holds /\ (~disposed => priv' = h1')
        /\ (Begin(c, kind, k) /\ kind = "create" => h1' # "none")
    <3>1. CASE Begin(c, kind, k)
      BY <3>1 DEF Begin, EnsureKeypair, Holds, CommitSound
    <3>2. CASE BeginDisposed(c, kind, k)
      BY <3>2 DEF BeginDisposed, Begin, client, Holds, CommitSound
    <3>3. CASE BeginStatus(c, k)
      BY <3>3 DEF BeginStatus, Begin, EnsureKeypair, Holds, CommitSound
    <3> QED
      BY <1>2, <3>1, <3>2, <3>3
  <2>3. /\ \A d \in Call \ {c} : at'[d] = at[d] /\ job'[d] = job[d]
        /\ at'[c] \in {"hashed", "failed"} /\ job'[c].got = NoKey
        /\ job'[c].kind \in {kind, "status"}
    BY <1>2, BegunFacts
  <2>4. at'[c] = "hashed" => Begin(c, kind, k) \/ job'[c].kind = "status"
    <3>1. CASE BeginStatus(c, k)
      <4> DEFINE b == Begun(c, "status", k)
                 j == [b EXCEPT !.live = TRUE, !.pop = sdk'.pop]
      <4>1. b \in JobType /\ b.kind = "status"
        BY BegunTyped DEF Kinds
      <4>2. To(c, "hashed", j)
        BY <3>1 DEF BeginStatus
      <4> HIDE DEF b
      <4>3. j.kind = "status"
        BY <4>1 DEF JobType
      <4> HIDE DEF j
      <4> QED
        BY <4>2, <4>3, ToOnly
    <3>2. CASE BeginDisposed(c, kind, k)
      BY <3>2 DEF BeginDisposed, TypeSound, JobsSound
    <3> QED
      BY <1>2, <3>1, <3>2
  <2>5. JobCommit(at'[c], job'[c], h1')
    BY <2>2, <2>3, <2>4 DEF JobCommit
  <2>6. \A d \in Call : JobCommit(at[d], job[d], h1')
    BY <2>2, CommitHolds DEF CommitSound
  <2>7. \A d \in Call : JobCommit(at'[d], job'[d], h1')
    BY <2>3, <2>5, <2>6
  <2> QED
    BY <2>1, <2>2, <2>7, CommitKept
<1>3. ASSUME NEW c \in Call, NEW k \in Key, BeginStatus(c, k) PROVE CommitSound'
  BY <1>2, <1>3 DEF Kinds
<1>4. ASSUME NEW c \in Call, Moves(c) PROVE CommitSound'
  BY <1>4, CallCommit
<1>5. ASSUME NEW c \in Call, RecoverFromKit(c) \/ EndRecovery(c) PROVE CommitSound'
  <2>1. /\ UNCHANGED <<server, disposed, cut, priv, h1>>
        /\ at'[c] \in {"waiting", "done", "failed"}
        /\ job'[c].got \in {job[c].got, NoKey} /\ job'[c].kind = "recover"
        /\ \A d \in Call \ {c} : at'[d] = at[d] /\ \E base \in Bases : job'[d] = base[d]
    BY <1>5, RecoveryEdges
  <2> SUFFICES ASSUME ~cut PROVE CommitSound'
    BY <2>1 DEF CommitSound
  <2>2. \A d \in Call : JobCommit(at[d], job[d], h1)
    BY DEF CommitSound
  <2>3. \A d \in Call \ {c} : JobCommit(at'[d], job'[d], h1')
    BY <2>1, <2>2, BaseCommit
  <2>4. JobCommit(at'[c], job'[c], h1')
    BY <2>1, <2>2 DEF JobCommit
  <2>5. \A d \in Call : JobCommit(at'[d], job'[d], h1')
    BY <2>3, <2>4
  <2> QED
    BY <2>1, <2>5, CommitKept DEF Holds, CommitSound
<1>6. CASE ShareArrives
  <2>1. PICK q \in asked :
          /\ at' = [c \in Call |-> IF c \in Listening THEN "answered" ELSE at[c]]
          /\ job' = [c \in Call |-> IF c \in Listening
                                    THEN [job[c] EXCEPT !.share = q[2], !.live = FALSE]
                                    ELSE job[c]]
    BY <1>6 DEF ShareArrives
  <2>2. UNCHANGED <<server, disposed, cut, priv, h1>>
    BY <1>6 DEF ShareArrives, client, history
  <2> SUFFICES ASSUME ~cut PROVE CommitSound'
    BY <2>2 DEF CommitSound
  <2>3. ASSUME NEW d \in Call PROVE JobCommit(at'[d], job'[d], h1')
    <3>1. job[d] \in JobType /\ JobCommit(at[d], job[d], h1) /\ StageSound(d)
      BY CallFacts DEF CommitSound
    <3>2. CASE d \in Listening
      <4> DEFINE j == [job[d] EXCEPT !.share = q[2], !.live = FALSE]
      <4>1. at'[d] = "answered" /\ job'[d] = j /\ at[d] = "requested"
        BY <2>1, <3>2 DEF Listening
      <4>2. JobCommit("answered", j, h1)
        BY <3>1, <4>1 DEF JobCommit, JobType, StageSound
      <4> HIDE DEF j
      <4> QED
        BY <2>2, <4>1, <4>2
    <3>3. CASE d \notin Listening
      BY <2>1, <2>2, <3>1, <3>3
    <3> QED
      BY <3>2, <3>3
  <2> QED
    BY <2>2, <2>3, CommitKept DEF Holds, CommitSound
<1>7. CASE Connect \/ Disconnect \/ Dispose
  <2>1. UNCHANGED <<server, at, h1>> /\ (cut => cut') /\ job' \in Bases
        /\ (~disposed' => ~disposed /\ priv' = priv)
    <3>1. CASE Connect
      BY <3>1 DEF Connect, history, Bases
    <3>2. CASE Disconnect
      BY <3>2 DEF Disconnect, DropSockets, history, Bases, OnSdk, Stages
    <3>3. CASE Dispose
      BY <3>3 DEF Dispose, DropSockets, Bases, OnSdk, Stages
    <3> QED
      BY <1>7, <3>1, <3>2, <3>3
  <2>2. ~cut => \A d \in Call : JobCommit(at'[d], job'[d], h1')
    BY <2>1, BaseCommit DEF CommitSound
  <2> QED
    BY <2>1, <2>2, CommitKept DEF Holds, CommitSound
<1> QED
  BY <1>1, <1>2, <1>3, <1>4, <1>5, <1>6, <1>7 DEF Next, Moves

\* What the server stores under a key belongs together: the share of the key's
\* network, the container's own root once its update is through, and a
\* commitment to a key the client holds.
THEOREM StoredIsCoherent == Spec => []StoredCoherent
<1>1. Init => CommitSound
  <2> SUFFICES ASSUME Init PROVE CommitSound
    OBVIOUS
  <2>1. \A k \in Key : OldKey(k).client = k /\ OldKey(k).h1 = k /\ k # "none"
    BY KeysAssumption DEF OldKey
  <2>2. \A k \in Key : server[k] # NoKey => server[k] = OldKey(k)
    BY OldIsKey
  <2>3. ServerCommit
    BY <2>1, <2>2 DEF ServerCommit
  <2>4. \A c \in Call : JobCommit(at[c], job[c], h1)
    BY DEF Init, JobCommit, NoJob
  <2> QED
    BY <2>3, <2>4 DEF Init, CommitSound
<1>2. Spec => []CommitSound
  BY <1>1, TypeInvariant, QuietInvariant, CommitInductive, PTL DEF Spec
<1>3. ShareSound => ShareOfOwnNetwork
  BY DEF ShareSound, ServerShare, ShareOfOwnNetwork
<1>4. RootSound => RootFollowsContainer
  BY DEF RootSound, Behind, RootFollowsContainer
<1>5. CommitSound => CommitmentIsLoaded
  BY DEF CommitSound, ServerCommit, CommitmentIsLoaded
<1> QED
  BY <1>2, <1>3, <1>4, <1>5, ShareInvariant, RootInvariant, PTL DEF StoredCoherent

=============================================================================
