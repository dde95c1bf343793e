# A TLA+ verification of the Sigbash SDK

The SDK is a TypeScript client for a co-signing service: it keeps keys as
encrypted envelopes on a server, compiles spending policies, and runs a Go WASM
module that proves a transaction satisfies its policy and co-signs it. The proofs
run on a pool of workers, requests go over a socket whose messages are signed,
and several principals may share a key. This directory holds TLA+ modules of the
parts in which order, concurrency and failure decide correctness, the TLC runs
that check them, and TLAPS proofs about them.

Paths below are relative to the repository root (`src/...` is the SDK's source).
In the comments of the modules a bare file name such as `socket.ts:160` is a file
of `src/`.

## Inventory

| Component | State it keeps | Operations | What is hard |
|---|---|---|---|
| Prove worker pool, `src/prove-worker-manager.ts` | memoised init promise, worker wrappers (busy, role, warmed), prove and witness-and-prove queues, pending map with timers | `init`, `proveAsync`, `witnessAndProveAsync`, `_dispatch`, answers, `warmCircuits`, `destroy` | timers against late answers, shutdown during start, dead workers, dispatch in every order |
| Socket request registry, `src/socket.ts`, signing of emits in `src/SigbashClient.ts` | per event a list of pending requests and a pair of dispatchers; a timer per request | `request`, response and error dispatch, timeout | servers that echo no ID, late, repeated and reordered answers, connection-wide errors, overtaking while signing |
| Principal access, `src/principalAccess.ts` | none of its own; access rows, generations and envelopes on the server | `grant`, `revoke`, `rebind`, `status`, `list` | multi-call ceremonies that fail halfway, concurrent ceremonies, stale envelopes and generations |
| Sessions: `signPSBT`, `authorizePSBT`, `verifyPSBT` in `src/SigbashClient.ts` | properties of `globalThis`: `fetch`, `sigbashBaseUrl`, covenant state, prove dispatchers, `sharedMusigSocket` | preflight, prefetch, install, WASM call, restore, `disconnect` | overlapping calls of one or several clients (`server.js` makes a client per HTTP request), throws between install and try |
| Key life cycle, `src/SigbashClient.ts` | sockets, `_popKey`, client key and commitment, credentials, `#disposed`; stored keys at the server | `createKey`, `getKey`, `recoverFromKit`, `exportRecoveryKit`, `updatePolicy`, `getAuthorizationStatus`, `disconnect`, `dispose` | uncorrelated `key_request_response`, PoP key swapped during recovery, two-step update, dispose under a running call |
| Authentication, proof of possession, crypto: `src/auth.ts`, `pop.ts`, `totp.ts`, `crypto.ts`, `credentials.ts` | none | derive, sign, seal, open, load or generate credentials | byte-exact canonicalisation |
| WASM loader, `src/wasm-loader.ts` | the loaded instance, URLs and pinned hash on `globalThis` | `loadWasm`, integrity check, Go runtime start | concurrent and repeated loads |
| Wallet provisioning, `src/wallet/provisioning.ts` | staged life cycle on the server; the application keeps the intent and a template | reserve, assemble, compile, seal, activate, abandon; template and resolution | order of stages, lost answers, positions that mean other signers after sorting |
| Wallet construction: `walletBuilder.ts`, `taptree.ts`, `reqkeyTemplate.ts`, ... | none | build, import, templates, leaves, tree, candidates, canonical text | two orders, equal roots under two texts, script numbers, boundaries |
| Authorization artifacts, `src/authorization/`, `authorizePSBT` | key set cache of the process; allowances and artifacts at the server | challenge, envelope, load key set, issue, receive, verify | order of refusals, key rotation, replays, concurrent loads |
| Policy language: `policy-builder.ts`, `templates.ts`, `src/contracts/policy*.ts`, `systemPolicy.ts` | none; the caller's object is rewritten by `createKey` | build, canonicalize, compose, encode, decode, gate, select, normalise | sorting where order means something, half-done rewriting, optional fields |
| Contracts, `src/contracts/` (the rest) | data types | encode, decode, digest | - |
| HTTP server `server.js`; Arkade identity; types, errors, logging | none | forwarding, declarations | - |
| `wasm/wasm_exec.js` and the WASM binary | third party | - | not in scope; the binary is not in the repository |

They interact as follows. A session call checks its credentials with a socket
request, prefetches covenant state with another, wraps `globalThis.fetch`, asks
the pool to start and to warm circuits, and calls the WASM export, which reaches
back through `globalThis` for proofs (the pool), for HTTP (the wrapper) and for
the musig2 socket. Principal ceremonies call the server over signed HTTP.
`authorizePSBT` ends by caching the issuer's key set, which later verifications
share. A wallet's clause is the one REQKEY condition that is composed into a
policy, and the composed policy is what `createKey` normalises, compiles and seals.

What makes each correct:

* pool - each call settles exactly once and does settle; a task is neither lost
  nor proved twice; a worker serves one task; a queued task does not wait beside
  an idle worker; one pool is spawned;
* registry - a response completes the request it answers or none; the registry
  holds exactly what is waiting; each request settles;
* principal access - a rebind never leaves the organisation without a working
  principal; rows and envelope slots agree;
* sessions - a pipeline runs in its own environment; the host gets its own back;
* keys - the user can open what is stored, the parts stored under a key belong
  together, and every call signs with the user's own key, which the server knows;
* wallets - one wallet has one identity however it is written down; what its tree
  commits to is what the wallet says; the server's records are of its own signers;
* authorizations - an accepted artifact binds the transaction that was proved; an
  allowance is not lost but to a key rotation;
* policies - a policy means the same after everything that is done to it.

## Modules

| Module | Models |
|---|---|
| `RequestContract` | abstract: what any asynchronous call of the SDK promises - made at most once, settled at most once, for good |
| `ProveWorkerPool` | the prove worker manager; implements `RequestContract` |
| `SocketRequests` | the socket's request registry, the signing stage and the key identity check; implements `RequestContract` |
| `PrincipalAccess` | grant, revoke and rebind against an external server |
| `SignSession` | the global environment of signing, authorizing and verifying calls |
| `ClientKeys` | the life of keys on one client: its calls, sockets and secrets against an external server |
| `StableSorting` | operator: `Array.prototype.sort`, which the wallet's builder and the policy's canonical form use |
| `WalletBuilder`, `WalletTree`, `ReqkeyTemplate` | operators: construction and canonical order; leaves, tap tree, candidates, text; the template and its resolution |
| `WalletProvisioning` | composes those three with the staged reservation life cycle |
| `AuthorizationSubject`, `IssuerKeys` | operators: challenge, envelope and subject check; key set documents and the order of verdicts |
| `AuthorizationLane` | composes those two with `authorizePSBT`, the key set cache and an external server |
| `PolicyAst`, `PolicyEncoding`, `PolicyBuilder`, `PolicyTemplates` | operators: canonical tree and composition; binary form; builder; gate, catalogue and selection records |
| `PolicyLane` | composes those four into what an application does with one policy, `createKey`'s normalisation included |
| `*_proofs` | the theorems about each |
| `MC*` | definitions the `.cfg` files give to constants |

### ProveWorkerPool

JavaScript runs a handler to its end, so one action is one handler: `Call` and
`Submit` are `proveAsync` before and after `await this.init()`, `Spawn` one
settled spawn, `FinishInit` what `_doInit` does after its await, `WorkerAnswer`
the answer listener, `Timeout` the task's timer, `Destroy` and `WarmCircuits`
the methods. The loops of `_dispatch()` end every handler that queues or frees;
they are unrolled under the flag `dispatching`, which disables everything else,
so they stay atomic. A promise is its `stage`; a worker is a pair of the
`_doInit` run that spawned it and its position, with the operating-system side
in `thread`. After `destroy()` the same manager may be used again by whoever
still holds it, which is what the second run of `_doInit` stands for.
`witnessAndProveAsync` is the same code over the other queue: `Wap` says which
task comes that way, `Unified` which role it prefers.

Left out: how the pool size is computed, the flat-share relay between workers,
the worker-side scripts, a `postMessage` that throws. `nextId` is not bounded by
itself; each task takes one.

### SocketRequests

`IssueRequest` is `request()` up to the emit, `EmitSigned` the end of the
asynchronous signature (`_wrapSocketEmitForPoP`), `OnResponse`, `OnTaggedError`
and `OnUntaggedError` the two dispatchers, `Timeout` the request's timer, which
nobody clears. `Resume` is the caller after its await, with the identity check
of `_validateKmcResponseIdentity`. The server answers any emitted request up to
`MaxCopies` times in any order; a message is handled when it is delivered, so a
delay is a later answer. `echoes` is the server a behaviour is connected to, one of
`Servers`, told by the events on which it echoes `request_id`; `Numbered` are those on
which it sends `key_index`. Older servers are those where these are empty.

### PrincipalAccess

A ceremony is a chain of server calls. Each call may be refused (`Throw`), or take
effect and lose its response (`Served` with outcome `failed`). The envelope is the
set of principals with a slot. The caller's envelopes and observed generation are
fetched at `Start` and never again, which is what the code's options are. `row`,
`generation` and `stored` belong to the server and follow
`src/contracts/policyKeyAccess.ts`; a guarded row change with a stale generation is
refused (`Fresh`). Whether the server also compares the generation that the upload
carries - which the ceremony's own row change has moved by then - is not said in
the repository, so an upload may be accepted or refused. A credential is granted
by one ceremony (`FreshCredentials`), since each generates its own.

### SignSession

A step is what runs between two awaits. `fetch` is the chain of wrappers around
the native one; the name of a call in it stands for the origin and credentials
its wrapper adds. `Prefetched` to `InstallFetch` spans `await this._popKey`, where
`fetch` has been saved and not yet replaced. `ThrowEarly` is a throw after the
installation and before the `try`. The initial base URL is one `loadWasm` was
given; with none set the finally block deletes instead of restoring, which is
the same with another value. The mocked clock (tests only), the pipeline
itself and the audit log are left out; what `authorizePSBT` does after its finally
block is in `AuthorizationLane`.

### ClientKeys

A step is what runs between two awaits; `at` is the await a call is in and `job`
its locals, so that what a call reads of the client after an await is what other
calls left there. A secret is where it comes from: `right` is what the user
registered with, `lost` what a client built from another `userSecretKey` has,
`blank` what `dispose()` leaves. Keys derived from the credentials (KEK, salt, PoP
seed) stand for their credentials. `createKey` has both of its paths: `create`
asks the server for its share over the musig2 socket, `createAuth` is
`_createAuthorizationKey`. `updatePolicy` is its
two server calls, `ContainerStored` and `RootPatched`. `Rebind`, `RecoveryArrives`,
`RestoreKeyOnly` and `RestorePop` are `recoverFromKit` with what it swaps in and puts back.
The server accepts what the registered PoP key signed, and `GiveUp` is any throw or
lost answer at an await. History variables say what a property excuses: `mixed` (a
recovery ran beside another call), `cut` (a `dispose()` did), `crossed` (two
uncorrelated key requests were open), `raced` (two updates of one key overlapped).

Left out: TOTP, `adminRecoverKey`, `listKeys` and the other administrative REST
calls, and the bytes of every derivation and seal.

### WalletProvisioning and its operators

Extended keys are numbers, so that text order is `<`; `RootOf` says which key one
carries, and two may carry the same. Refusals are the value `Refused`. A hash is
the record of what is hashed. The application may write the same intent down again
between calls, in another order or with other origins (`Rebuild`). A call is a
request and an answer, either of which may be lost or late (`Lose`, `ServeLate`);
the server accepts a stage only after the one before it and numbers slots as they
were sent or canonically, which the repository leaves open. A reservation may
expire at any time.

An array sort is `StableSort`: an element's place is the number of those before it, ties
in their given order. The runs of leaves that `split` visits are pairs of bounds, and
`Subtree` and `Siblings` are recursive functions over them. What a threshold promises
(`ThresholdSound`) is said in signer roots, of signers as the template declares them,
and not in positions, which mean nothing before sorting. What a pushed number means
(`NumberOf`) is read as the script interpreter reads it: an opcode, or the shortest
form behind its length, top bit the sign.

Left out: the bytes of base58, bech32, checksums and curve checks (a key that
fails them is `private` or of another network here), the execution credential,
`psbtInputCount.ts`, the organisation's protocol key. A wallet's fingerprint text
leaves out unused signers and policy key ids, as in the code.

### AuthorizationLane and its operators

A transaction is what parsing leaves of a PSBT; the challenge is the record of the
parts that are hashed, so that a part left out of it would show as two
transactions with one challenge. `Receive` is everything `authorizePSBT` does with
an answer, in the order of its cross-checks; `FetchInCall` the fill of the cache at
its end. `BeginLoad`, `ServeLoad`, `FinishLoad` are a `fetchIssuerKeySet` of the
application, which may overlap it. The issuer rotates its key (`Rotate`), the server
replays the artifact of a consumed allowance or says that it was consumed, and
answers get lost. `VerdictOf` is the checklist of `verify.ts` in its order.

Left out: `keyModel.ts`, wire parsing (an envelope that does not parse leaves
`verify.ts:184` as an exception where other mismatches are verdicts), 64-bit times.

### PolicyLane and its operators

A node is a record; an optional field is a sequence of at most one element; a
parameter is a pair of its JSON type and its content. A recursive function of the
source is a `Walk`: a function over all the nodes a root reaches, each after those below
it. The order of JSON texts, which sorting depends on, is the place of a text in `Texts`; a list is
its elements, each behind a comma, and a closing bracket, an absent field the empty list, so
that a text shows where it ends. A number stands for its digits and is compared by its value, which differs
from ten up; nothing proved depends on which order it is.
`IsNode` and `IsConfig` are the types of `types.ts` and `policy-builder.ts`; that
documents and configurations have them, end after `MaxDepth` levels and use `Texts` that
hold the program's own `Vocabulary` is `LaneAssumption`. An encoding is a sequence of
fields without names, so that the decoder knows a field by its place alone. The lane
has one policy: authored (configuration, template or document), canonicalized,
composed with the system clause, stored and loaded, and handed to `createKey`,
which normalises that very object and may throw halfway; or one selection record,
tampered with in storage and validated. Composing and encoding take an AST (`IsAst`):
canonicalization made the object, or the decoder did, in which case composing may still
throw, since the decoder promotes nothing.
`MeaningKept` compares with `Satisfied`, the
truth of the policy as its author wrote it under every assignment to its conditions. What
a condition asks (`AtomOf`) is read from `docs/policy-reference.md` and not from
`normalisePolicy`: which value `expected_value` demands, which byte a name stands for, what
a missing selector means; so a normalisation that changed any of these, however
consistently, would break the property. What a configuration means (`MeantNode`)
honours the fields its form declares. The builder does not where `useNot` is
put on a unary NOT: `MeaningKept` excepts that form by name (`NoNegatedNot`), and the run
`PolicyUseNot` shows what happens to it.

Left out: string escapes and UTF-8 of `canonicalJson.ts`, the table of descriptions
in `conditions.ts`, what the compiler in the WASM binary does.

## Runs

Passing runs, each over its whole state space:

| Run | Shows | Bounds |
|---|---|---|
| `PoolSafety` | one task per worker; sent in order; stranded only by a late answer; the contract; every call settles | 3 tasks (two `prove`, one witness-and-prove, both roles), 2 workers, 1 death |
| `PoolLifecycle` | no task lost, proved once, no leaked thread | 2 tasks, 2 workers, 2 initialisations, 1 `destroy` |
| `Socket` | the registry is what waits; each response consumed once; FIFO pairing when undisturbed, pairing by ID where it is echoed; key identity; the contract; every request settles | 3 requests for 2 keys on one event, 2 copies of each answer, a server that echoes IDs and one that does not |
| `Access` | slots follow rows while ceremonies follow each other; a rebind grants before it revokes | 2 grants, 1 revoke, a rebind over 2 keys, 2 at a time |
| `Session` | host restored and own environment when calls follow each other; `fetch` and base URL restored when calls nest | 4 calls of all kinds, 2 clients, 3 at a time, one early throw |
| `Keys` | the PoP key comes back; the owner opens what is stored; what is stored belongs together; no call before the server knows its key; a disposed client is quiet | 3 calls, one of them a recovery and two of any kind, 2 at a time, 2 keys of which one exists, a client with the right or a lost secret; symmetric in the two calls |
| `Wallet` | reservations are of their own intent; what was reported is done; the template restores the wallet; the tree commits to what the wallet says | one reservation; 4 staged intents (three of them one intent in three presentations, one with two Sigbash signers), records with every shape of recovery, those to be refused and both templates at every threshold; children 0 and 1; the source's limits of 255 signers and 255 sets |
| `Authorization` | cached sets were published; an accepted artifact binds its transaction and verdicts are exact; action keys name their record; burns are lost to rotation only; results verify | 2 calls under 4 options (two subjects, a foreign network, a lifetime too long), one allowance, 2 sessions, 1 rotation per network, 15 transactions, symmetric in calls and sessions |
| `Policy` | meaning kept; one normal form; one REQKEY; objects whole; reuse compiles the same; selections judged | one policy of about 200 documents and 28 configurations up to three levels deep, 11 inputs of key templates, or one of 18 selections under 15 ways of tampering |

Where several facts are one claim they are checked as one property: `Registry`
(types, the pending list is what waits, listeners stand where it is not empty),
`OwnerOpens` (`SealedForOwner`, `KitSurvivesUpdates`), `StoredCoherent`
(`ShareOfOwnNetwork`, `RootFollowsContainer`, `CommitmentIsLoaded`),
`ReservationSound`, `TemplateRoundTrip` (`CanonicalForm`, `TemplateRestores`),
`TreeSound`, `ArtifactExact`, `NormalForm`, `ObjectsWhole` and `SelectionJudged`; the parts are defined beside them.

Why the bounds are enough: the pool's hazards need a task on a worker, one that
timed out, and one queued behind it - three tasks and one or two workers; two
workers are the smallest pool with two roles. The registry's need one request
given up, one answered and one waiting on an event. The ceremonies' need two keys
for a rebind and two ceremonies on one key. The sessions' need a save between
another call's save and restore, and a third call around both. Those of keys
need a kit exported, an update after it, and a recovery beside either; and two
keys for a share of the wrong one. The reservation's need a late request that
overtakes the answer of a repeated one, and an intent presented in three orders so
that a position means another signer in each. The authorization's need one call that
consumes the allowance, one that is answered by its record, and one rotation between a
load and a verification. The policy's need an operator under another, so that
flattening brings new siblings together, with one of them under a negation.

Runs that find a disagreement between the code and what it says of itself:

| Run | Property | The code |
|---|---|---|
| `AccessRebindSlot` | `RebindLeavesWorking` | the revoking half of `rebind()` uploads envelopes without the slot the granting half added |
| `KeysRecoveryPop` | `OwnPopAfterRecovery` | of two overlapping recoveries the second saves the first one's kit key as the client's own and, ending last, leaves it in place |
| `PolicyUseNot` | `UseNotIsHonoured` | `UnaryConditionConfig` declares `useNot` as every form does, and the builder's branch for a unary NOT never reads it: the policy means the opposite |

Beside each stands a property that says what the code does keep: `RebindGrantsFirst` and
`SlotFollowsRow`; `PopRestored`, whose provision is that no recovery ran beside
another call; `MeaningKept`, whose provision is that no unary NOT has `useNot`.

### What the models show besides

No run is spent on these; each follows from the module named.

* `ProveWorkerPool`: a late answer frees its worker and returns before
  `_dispatch()`, so that queued tasks wait beside an idle worker;
  `StrandedOnlyByLateAnswer` says that nothing else strands one. A `destroy()`
  during `_doInit` is overtaken by it and live workers are installed afterwards;
  `NoThreadLeak` bounds them. A task submitted after a `destroy()` that ran
  during its `await init()` is queued on an empty pool and waits for its timer. Each
  signing call warms workers that earlier calls left cold (line 209), so that
  `DEFAULT_WARM_COUNT` bounds one call and not the pool.
* `SocketRequests`: with neither ID nor `key_index`, as older servers answer, a
  request resolves with another key's material. `CorrelationCovers` proves that
  either one suffices. Messages leave in the order their signatures finish.
* `SignSession`: overlapping calls of two clients wrap each other's `fetch`, and
  any client's `disconnect()` deletes the shared musig2 socket. Two calls that
  overlap without nesting leave a wrapper installed.
* `PrincipalAccess`: one observed generation guards two changes in a row
  (`principalAccess.ts:515`), the first of which moves it.
* `ClientKeys`: a musig2 socket created while a recovery has the kit's PoP key in
  place captures that key for as long as it lives (`SigbashClient.ts:3316`).
  `getAuthorizationStatus` on a disposed client opens a socket.
* `AuthorizationLane`: an older server whose preflight echoes no network lets the
  SDK go on with its own (`SigbashClient.ts:2411`); by `ResultVerifies` the result
  does not verify for a network that is not the key's.
* `ReqkeyTemplate`: two spellings of an origin give two clause digests, although
  the template is said to carry none; nothing in the SDK compares them.
* `PolicyAst`, `PolicyTemplates`, `PolicyLane`: the deprecated `threshold` is
  promoted to `k` without the checks `k` passes (`policyAst.ts:185`); the system
  clause need not be first once children are sorted (`systemPolicy.ts:119`); a
  VETO of more than one child is refused where the docs describe more; `createKey` rewrites the caller's object in place and
  throws a TypeError on a frozen operator; `updatePolicy` does not normalise at all
  (`SigbashClient.ts:3880`); the default selector is set for four condition types;
  a policy that was decoded need not canonicalize, as the decoder checks no threshold;
  the catalogue's time window does not compare its dates, `templates.ts` does; the
  gate accepts unknown operators and empty operators that canonicalization
  refuses; weights and thresholds above 32 bits canonicalize and do not encode.

`CHECK_DEADLOCK FALSE` is set everywhere: each system stops when its bounded
number of calls is done, or its one policy or wallet has been through everything.

Each property of a passing run has a mutant, an operator beside the definition it
replaces, that a plausible slip in the code would turn it into and that breaks
the property under the same configuration.

## Fairness

Only `PoolSafety` and `Socket` are run with fairness, for their liveness
property. `ProveWorkerPool!Fairness`: weak fairness of the
dispatch loop (it runs synchronously), of spawns (each has a 30 s timeout), of
continuations after an await, and of the task timers. Nothing is assumed of the
workers, so `CallSettles` rests on the timers alone. A task on the main thread
is awaited without a timer, and is as far as the property follows it.
`SocketRequests!Fairness`: timers fire and continuations run; nothing is assumed of
the server. The other modules have no liveness property: their calls end when an
external server answers, of which nothing is assumed, or by a timer of the registry.

## Proofs

All theorems hold for every value of the constants that satisfies the named
assumptions. These type the constants (`PoolAssumption`, `SocketAssumption`,
`AccessAssumption`, `SessionAssumption`, `KeysAssumption`, `LaneAssumption`,
`WalletAssumption`, `IndexAssumption`, `ProbeAssumption`, `ProvisioningAssumption`), and
say besides:

* credentials are fresh (`FreshCredentials`), and placeholders (`Old`, `"none"`, `None`,
  `NoSalt`, the identifier `"other"`) are not values;
* a source that takes a first signer has one, and there are finitely many reservations
  (`ProvisioningAssumption`);
* `MaxSets` is at least 125, room for every list of up to three of five places (255 in
  the source), and `MaxDecay` at most 65535 (65534 in the source), so that a delay is two
  bytes (`WalletAssumption`);
* the texts of a policy hold `true` and `false` (`PolicyAstAssumption`), which JSON always can;
* a list of days is a text, `DaysOf` the numbers in it, and for every list there is a text of
  the same days in order, each once (`TemplatesAssumption`), which is what `assertActiveDays`
  returns.

* `ProveWorkerPool_proofs`: `TypeCorrect`, `OneTask`, `NoLoss`, `StrandedOnlyLate`,
  `Once`, `InOrder`, `NoLeak`, `KeepsContract`. `OneTaskPerWorker` and `NoTaskLost` are inductive together with
  the types. `StrandedOnlyByLateAnswer` is not: its strengthening says that before
  a late answer or a destroy every call shares the first initialisation, that
  nothing is submitted before the pool is installed, and that at the end of each
  handler that did not dispatch, no pending task is queued beside an idle worker.
  `Once` and `InOrder` follow a task from queue to worker: queues are ascending, and what
  a worker holds was taken from the front. `NoLeak` counts threads: until a
  `destroy()` there is one initialisation whoever asked for it, and what it spawned is
  in the pool or about to be.
  `KeepsContract` is a refinement of `RequestContract`: the invariant is that a
  task is pending exactly if its promise stands at `submitted`, so that timers,
  answers and `destroy()` settle only open calls.
* `SocketRequests_proofs`: `TypeCorrect`, `RegistryConsistent`, `TaggedPaired`,
  `KeyIdentified`, `CorrelationCovers`, `Consumed`, `FifoPaired`, `KeepsContract`. The
  inductive invariant is the registry's: each
  list is duplicate-free and holds exactly the waiting requests, and dispatchers
  stand where lists are not empty. The lemmas on removal from a list are stated
  once and used in every settling action. `Consumed` counts (`ConsumedInv`): at most as
  many requests were completed with the responses to a request as copies of it
  arrived. `FifoPaired` follows the position (`FifoInv`): on an undisturbed
  event the first m requests issued are answered and the pending list is the rest,
  in order.
* `Admission_proofs`, of `PrincipalAccess`: `AccessTypeCorrect`, `GrantsFirst`,
  `SlotsFollow`. (One module proves about who is admitted to a key and what an authorization
  admits; `PrincipalAccess` names its specification `AccessSpec` so that both can be extended.) The
  first invariant follows the rebind: at each of its calls it says on which keys the
  successor's row stands
  (`GrantsSoFar`), and that rows of the successor are never taken away because no
  ceremony but this one names it or the replaced principal. The second (`AloneInv`)
  says that a ceremony that runs alone knows the stored envelope, and accounts for every
  slot and row that differ by a ceremony between its two calls.
* `SignSession_proofs`: `TypeCorrect`, `NestedRestore`, `SerialRestore`, `SerialOwn`. The
  invariant of nesting is a stack: calls
  between save and restore are on it once each, and as long as they leave in
  reverse order the lowest holds the host's values. `SerialInv` says what each
  stage of the only running call finds in the environment, with and without
  an earlier throw.
* `ClientKeys_proofs`: `TypeCorrect`, `PopComesBack`, `StaysDisposed`, `CallsAreKnown`,
  `OwnerAlwaysOpens`, `StoredIsCoherent`. The type invariant is the base of the rest:
  `StageSound` says which locals a call has at each of its awaits. On it stand
  `PopSound` (only a recovery has another PoP key in place, it saved the right one,
  and outside one the sockets hold it too), `QuietSound` (after `dispose()` no call is left that could bring
  a key or socket back), `KnownSound` (a call signs with a key the server
  has by then), `SealSound` (whatever is being sealed or was, is under the user's own
  secrets, and a kit opens its key's wrapping), `ShareSound` (with one request
  open, the answer is the asker's), `RootSound` (a root other than the container's is
  that of the update between its calls) and `CommitSound` (the commitment a call
  carries is its client key's or the loaded one).
* `Admission_proofs`, of `AuthorizationLane`: `TypeCorrect`, `CachePublished`, `ActionKeyFound`,
  `BurnKept`, `ResultVerified`, `ArtifactIsExact`. `LaneInv` says what a call knows at each phase, what
  an open load and the cache hold (`CacheSound`), and that issued records are of provable subjects. The
  lemmas on the operators say that a commitment determines session and subject, and
  what each cross-check decides of an honest record. `ResultVerified` is an action
  property: the step that ends a call is judged against every document, from `LaneInv`.
  `ArtifactIsExact` is about every transaction that could be shown with an issued record:
  `ChallengeBinds` says that equal challenges have equal parts whatever envelope is shown,
  `RecordVerdict` which check of `verify.ts` fails first for an honest record.
* `WalletProvisioning_proofs`: `OneWallet`, `TypeCorrect`, `ReservationIsSound`, `ToldIsDone`,
  `OneForm`, `RoundTrip`, `TreeIsSound`. First the builder and the tree. A stable
  sort under a weak order is a rearrangement in which no later element is less
  (`CanonicalOrderSorts`, `LexicographicSorts`), and of distinct elements there is only one.
  So one intent, however its lists and origins are written, is refused every time or makes
  one wallet. Of the tree: `Subtree` and `Siblings` exist for every number of leaves, by
  induction on the length of a run, every path climbs to the root, and the root determines
  the leaves (`RootDetermines`). The library's induction theorems take an operator as
  a parameter, which the prover cannot instantiate; the induction here is over a set of
  numbers (`MinNat`, `CountUp`, from the well-foundedness of `<`).
  Then the provisioning. Its inductive invariant is `Provisioned`: every stored
  reservation came of one presentation of the intent held (`ServerSound`), so did what is
  under way or late (`CallSound`, `LateSound`), the view has the reservation's kinds
  (`ViewSound`), and what was told is done (`DoneSound`), which no late request can
  undo since each stage follows only its own. `CommittedDigest` is not inductive
  without it: the digest travels in requests that outlive the order they were made of.
  `RoundTrip` needs `Restorable` as well: the stored template is that of one
  presentation of the intent still held, and decoding gives back the builder a wallet in its
  canonical form, where it is a fixed point. `TreeIsSound` is a fact about each wallet a source
  constructs, the rest of the state does not enter it. It says of every wallet what `Wallet`
  computes for a few: a leaf per set and recovery branch with the keys it should demand
  and a path to the root, for every branch and index (`LeavesAreSound`); candidates that are
  all the addresses, once each (`CandidatesAreSound`); a decay push that means its
  blocks (`DecayIsSound`); and templates whose leaves are exactly the groups of the
  threshold (`ThresholdsAreSound`, from `SubsetsListed`: the enumeration lists every
  choice once).

* `PolicyAst_proofs`: `KeysTell`. The lemmas about trees that the next module stands on.
  Every walk has its recursion equation (`JsonTextRule` and its like, from `SubtreeFacts`: a tree of
  finitely many levels is its root and the trees below it), and there is an induction over trees
  (`TreeInduction`; again over a set). A canonical tree is normal - flattened, sorted, unrepeated, `k`
  in its place - and a normal tree is its own canonical form (`CanonicalIsNormal`,
  `NormalIsCanonical`). Sort keys tell canonical trees apart: a key delimits itself, so of
  two different ones neither begins with the other (`Telling`, `ListedTells`, `KeysTell`); so the
  source may compare keys where the model compares nodes, and keys order siblings strictly. Then
  siblings are settled by which they are where repetition does not matter (`AscendingUnique`,
  `ChildrenOfSet`), and by how often each occurs elsewhere (`SameCounts`, `OrderUnique`,
  `ChildrenOfCounts`).
* `PolicyLane_proofs`: `MeaningIsKept`, `ReqkeyStaysOne`, `ObjectsStayWhole`, `ReuseIsSame`,
  `SelectionIsJudged`, `EncodingReturnsAlways`, `CanonicalOnce`, `GateSurvivesAlways`,
  `LayoutForgottenAlways`, `CanonicalIsNormalForm`, `RewritingForgotten`. The first part
  says what each operation makes of a tree: normalising a condition keeps what it asks
  by the documentation (`NormalConditionFacts`, which compares the independent reading of the
  parameters before and after), and normalising a tree, completed or not, keeps its
  meaning and its REQKEY conditions and leaves a frozen tree alone (`Walked`); the decoder reads
  back what was encoded wherever it stands in the bytes (`TreeDecoded`). The second compares
  meanings: flattening, reordering and dropping repetitions do not matter to the
  operators they are done under (`CanonicalMeans`), and the builder's node means what its configuration does
  (`PoetNodeMeans`, where a weight that is not listed counts as 0, and where no unary NOT is to be negated: `Negatable`). The inductive invariants are
  `LaneInv` (what is held is a tree with its one clause, normal while frozen, and while it is
  an AST one its bytes can tell, `PlainTree`; what was stored
  is the encoding of such a tree; what was compiled is left alone by
  normalisation) and, on it, `MeaningInv` (what is held and what would be loaded mean
  what was authored, under every environment). `MeaningKept` alone is not inductive: a load brings back
  a policy that is not the one held. `RecordInv` says that an untampered record is the
  selection of parameters its template accepts, and each template's policy passes
  the gate (`LeafFacts` and the lemmas after it).

  That the gate accepts a canonical form when it accepts the policy rests on what canonicalizing does
  to conditions: none appears, those under no negation stay so, and no two occurrences of a family
  arise from one (`PartsKept`, `FewerKept`, `ApartKept`). That every writing has one canonical form
  follows from the lemmas on siblings: each way of writing a node differently leaves that alone
  (`ReversedReturns`, `RepeatedReturns`, `GroupedReturns`, `RenamedReturns`), and an induction over the tree
  takes it to any depth (`RearrangedReturns`). `LayoutForgotten` speaks of one such change, as the
  run does; `RewritingForgotten` of any number in a row, since what a policy that
  canonicalizes is rewritten to canonicalizes too (`RearrangedWritable`).

Only model-checked: liveness (`CallSettles`, `RequestSettles`), which is out of the prover's
reach. Every other property the passing runs check is stated by a theorem.

## Not modelled

* The bytes of cryptography, base58 and bech32, JSON escapes and UTF-8, PSBT
  parsing: they are functions of one input, where the models keep what order and
  state depend on.
* `wasm-loader.ts`: one load per page and a pinned hash; what it loads is not in the
  repository, and neither is what the policy compiler answers.
* The pool's flat-share relay, its scripts inside the workers, pool sizing, a
  `postMessage` that throws; reconnection of the socket's transport.
* `conditions.ts`, `types.ts`, `errors.ts`, the other contracts, Arkade identity and
  template hashes, the audit log: tables, declarations and one-value encodings.
* `server.js`: forwards to a client per request, which the two clients of
  `SignSession` stand for.
* TOTP, `adminRecoverKey`, `listKeys` and the administrative REST calls:
  single server calls that change nothing on the client.

## Plan

Done, in this order: pool, registry, principal access and sessions; keys;
wallets; authorizations; policies; the proofs above. Left, most useful first:

1. Composition of `ClientKeys` with `SocketRequests` through the wrapped emit, so
   that a socket's captured PoP key meets timers and late answers, and of
   `SignSession` with `ProveWorkerPool` through the prove dispatchers.
2. The pool's flat-share relay and a `postMessage` that throws.
3. `WasmLoader`: concurrent loads and hash pinning.

## Running

    tlc -workers 2 -config PoolSafety.cfg MCProveWorkerPool.tla
    tlapm ProveWorkerPool_proofs.tla

Most runs take seconds; `Socket`, `Access`, `Keys`, `Wallet`, `Authorization` and `Policy` take one to
three minutes.
`ClientKeys_proofs`, `WalletProvisioning_proofs`, `PolicyAst_proofs` and `PolicyLane_proofs` take five to fifteen
minutes. `PROJECT.json` lists the runs with their
modules, the mutants, the mapping from definitions to source lines, the findings, the
hazards and the theorems.
