------------------------------ MODULE SignSession ------------------------------
(***************************************************************************)
(* The environment a WASM pipeline runs in: signPSBT, authorizePSBT and    *)
(* verifyPSBT (src/SigbashClient.ts) save properties of globalThis,        *)
(* install their own, call the WASM export and restore them in a finally   *)
(* block.  Each awaits in between, so calls that overlap - on one client,  *)
(* or on the clients server.js makes for each HTTP request - interleave    *)
(* their saves, installs and restores.                                     *)
(*                                                                         *)
(* A step is what runs between two awaits.  The value of globalThis.fetch  *)
(* is the chain of wrappers around the native one, outermost first; that a *)
(* wrapper was built by a call stands for its origin and credentials.      *)
(***************************************************************************)
EXTENDS Naturals, FiniteSets, SequencesExt

CONSTANTS
  Client,
  Sign, Authorize, Verify,  \* the calls of each method
  ClientOf,                 \* the client a call is made on
  Home,                     \* initial sigbashBaseUrl (loadWasm), no client's
  Nobody,                   \* a property that is not set
  Pooled,                   \* whether the prove pool has workers
  MaxConcurrent,            \* bound: calls under way at once
  MaxThrows                 \* bound: calls that throw after installing and
                            \* before their try block

Call == Sign \cup Authorize \cup Verify

ASSUME SessionAssumption ==
  /\ Sign \cap Authorize = {} /\ Sign \cap Verify = {} /\ Authorize \cap Verify = {}
  /\ ClientOf \in [Call -> Client]
  /\ Home \notin Client
  /\ Nobody \notin Client \cup Call \cup {Home}
  /\ Pooled \in BOOLEAN
  /\ MaxConcurrent \in Nat \ {0}
  /\ MaxThrows \in Nat

VARIABLES
  fetch,       \* globalThis.fetch
  baseUrl,     \* globalThis.sigbashBaseUrl
  covenant,    \* whose sigbashPreFetchedCovenantState is set
  prove,       \* _sigbashProveAsync and _sigbashWitnessAndProveAsync are set
  musigSocket, \* whose socket sharedMusigSocket is
  pc,          \* the await a call is in
  baseFetch,   \* what a call saved of fetch
  priorUrl,    \* and of sigbashBaseUrl
  throws,      \* history: calls that threw before their try block
  open,        \* history: calls between their save and their restore, in order
  order        \* history: how the calls so far followed each other

globals == <<fetch, baseUrl, covenant, prove, musigSocket>>
vars == <<globals, pc, baseFetch, priorUrl, throws, open, order>>

Pc == {"idle", "preflight", "covenant", "popKey", "init", "wasm", "done"}

TypeOK ==
  /\ fetch \in Seq(Call)
  /\ baseUrl \in Client \cup {Home}
  /\ covenant \in Call \cup {Nobody}
  /\ prove \in BOOLEAN
  /\ musigSocket \in Client \cup {Nobody}
  /\ pc \in [Call -> Pc]
  /\ baseFetch \in [Call -> Seq(Call)]
  /\ priorUrl \in [Call -> Client \cup {Home}]
  /\ throws \in 0 .. MaxThrows
  /\ open \in Seq(Call)
  /\ order \in {"serial", "nested", "crossed"}

Init ==
  /\ fetch = <<>>
  /\ baseUrl = Home
  /\ covenant = Nobody
  /\ prove = FALSE
  /\ musigSocket = Nobody
  /\ pc = [c \in Call |-> "idle"]
  /\ baseFetch = [c \in Call |-> <<>>]
  /\ priorUrl = [c \in Call |-> Home]
  /\ throws = 0
  /\ open = <<>>
  /\ order = "serial"

-----------------------------------------------------------------------------
Running(c) == pc[c] \notin {"idle", "done"}

GoTo(c, next) == pc' = [pc EXCEPT ![c] = next]

\* The history: calls are serial until one starts beside another.
MayStart(c) ==
  /\ pc[c] = "idle"
  /\ Cardinality({d \in Call : Running(d)}) < MaxConcurrent
  /\ order' = IF order = "serial" /\ \E d \in Call : Running(d) THEN "nested" ELSE order

\* Mutants of SaveAndSetUrl: the URL is saved and not replaced; it is replaced
\* before it is saved.
SaveAndKeepUrl(c) ==
  /\ priorUrl' = [priorUrl EXCEPT ![c] = baseUrl]
  /\ baseFetch' = [baseFetch EXCEPT ![c] = fetch]
  /\ open' = Append(open, c)
  /\ UNCHANGED baseUrl

SetAndSaveUrl(c) ==
  /\ priorUrl' = [priorUrl EXCEPT ![c] = ClientOf[c]]
  /\ baseUrl' = ClientOf[c]
  /\ baseFetch' = [baseFetch EXCEPT ![c] = fetch]
  /\ open' = Append(open, c)

\* Saving fetch and sigbashBaseUrl and replacing the latter.
SaveAndSetUrl(c) ==
  /\ priorUrl' = [priorUrl EXCEPT ![c] = baseUrl]
  /\ baseUrl' = ClientOf[c]
  /\ baseFetch' = [baseFetch EXCEPT ![c] = fetch]
  /\ open' = Append(open, c)

\* signPSBT registers its musig2 socket before the preflight request;
\* authorizePSBT only sends the request.
Begin(c) ==
  /\ c \in Sign \cup Authorize
  /\ MayStart(c)
  /\ musigSocket' = IF c \in Sign THEN ClientOf[c] ELSE musigSocket
  /\ GoTo(c, "preflight")
  /\ UNCHANGED <<fetch, baseUrl, covenant, prove, baseFetch, priorUrl, throws,
                 open>>

\* Mutant of Preflight: the marker is set before the verdict is looked at.
MarkThenPreflight(c) ==
  /\ pc[c] = "preflight"
  /\ GoTo(c, "done") \/ GoTo(c, "covenant")
  /\ covenant' = c
  /\ UNCHANGED <<fetch, baseUrl, prove, musigSocket, baseFetch, priorUrl,
                 throws, open, order>>

\* The preflight answered: refuse, or start prefetching covenant state, which
\* sets the empty marker first.
Preflight(c) ==
  /\ pc[c] = "preflight"
  /\ \/ GoTo(c, "done") /\ UNCHANGED covenant
     \/ GoTo(c, "covenant") /\ covenant' = c
  /\ UNCHANGED <<fetch, baseUrl, prove, musigSocket, baseFetch, priorUrl,
                 throws, open, order>>

\* The prefetch answered - its map replaces the marker - or failed, which is
\* not fatal.  What is left before the next await: save, set the base URL.
Prefetched(c) ==
  /\ pc[c] = "covenant"
  /\ covenant' \in {covenant, c}
  /\ SaveAndSetUrl(c)
  /\ GoTo(c, "popKey")
  /\ UNCHANGED <<fetch, prove, musigSocket, throws, order>>

\* "await this._popKey" over, the wrapper goes around the fetch saved before it.
InstallFetch(c) ==
  /\ pc[c] = "popKey"
  /\ fetch' = <<c>> \o baseFetch[c]
  /\ GoTo(c, "init")
  /\ UNCHANGED <<baseUrl, covenant, prove, musigSocket, baseFetch, priorUrl,
                 throws, open, order>>

\* The prove workers are up, or there are none; then the WASM export is called.
CallWasm(c) ==
  /\ pc[c] = "init"
  /\ prove' = (prove \/ Pooled)
  /\ GoTo(c, "wasm")
  /\ UNCHANGED <<fetch, baseUrl, covenant, musigSocket, baseFetch, priorUrl,
                 throws, open, order>>

\* Deriving the policy seed or the PoP key throws: the try block is not
\* reached and nothing is restored.
ThrowEarly(c) ==
  /\ pc[c] \in {"popKey", "init"}
  /\ throws < MaxThrows
  /\ throws' = throws + 1
  /\ GoTo(c, "done")
  /\ UNCHANGED <<globals, baseFetch, priorUrl, open, order>>

\* verifyPSBT installs its wrapper and calls the export without an await.
BeginVerify(c) ==
  /\ c \in Verify
  /\ MayStart(c)
  /\ SaveAndSetUrl(c)
  /\ fetch' = <<c>> \o fetch
  /\ GoTo(c, "wasm")
  /\ UNCHANGED <<covenant, prove, musigSocket, throws>>

\* The history of c's restore: out of the open calls, which it crosses unless
\* it is the one that saved last.
Close(c) ==
  \E i \in DOMAIN open :
    /\ open[i] = c
    /\ open' = RemoveAt(open, i)
    /\ order' = IF i = Len(open) THEN order ELSE "crossed"

\* The export settled: the finally block.
Finally(c) ==
  /\ pc[c] = "wasm"
  /\ fetch' = baseFetch[c]
  /\ baseUrl' = priorUrl[c]
  /\ covenant' = IF c \in Verify THEN covenant ELSE Nobody
  /\ prove' = (c \in Verify /\ prove)
  /\ GoTo(c, "done")
  /\ Close(c)
  /\ UNCHANGED <<musigSocket, baseFetch, priorUrl, throws>>

\* disconnect() of a client that has no call under way deletes the shared
\* socket, whoever set it.
Disconnect(k) ==
  /\ \A c \in Call : ClientOf[c] = k => ~Running(c)
  /\ musigSocket # Nobody
  /\ musigSocket' = Nobody
  /\ UNCHANGED <<fetch, baseUrl, covenant, prove, pc, baseFetch, priorUrl,
                 throws, open, order>>

Next ==
  \/ \E c \in Call :
       \/ Begin(c)
       \/ Preflight(c)
       \/ Prefetched(c)
       \/ InstallFetch(c)
       \/ CallWasm(c)
       \/ ThrowEarly(c)
       \/ BeginVerify(c)
       \/ Finally(c)
  \/ \E k \in Client : Disconnect(k)

Spec == Init /\ [][Next]_vars

-----------------------------------------------------------------------------
(* Properties.                                                             *)

\* When no call is under way the host's fetch and base URL are what they were
\* ("Both are restored in the finally block", SigbashClient.ts:2123), and no
\* covenant state or prove dispatcher is left behind - provided the calls
\* followed each other and none threw before its try block.
Restored ==
  /\ fetch = <<>>
  /\ baseUrl = Home
  /\ covenant = Nobody
  /\ ~prove

RestoredIfSerial ==
  order = "serial" /\ throws = 0 /\ (\A c \in Call : ~Running(c)) => Restored

\* What the code keeps of it when calls overlap: as long as they finish in the
\* reverse order of their saves (one that threw early never does), the chain of
\* wrappers unwinds to the native fetch and the base URL to the initial one.
RestoredIfNested ==
  order # "crossed" /\ open = <<>> => fetch = <<>> /\ baseUrl = Home

\* "the fetch wrapper the WASM pipeline runs under: relative-URL resolution
\* against the server origin plus the auth and PoP signature headers the
\* WASM-issued HTTP calls require" (SigbashClient.ts:3240-3242): a pipeline
\* runs under its own call's wrapper and origin, with its own covenant state
\* and the prove dispatcher.
OwnEnvironment ==
  \A c \in Call : pc[c] = "wasm" =>
    /\ fetch # <<>> /\ Head(fetch) = c
    /\ baseUrl = ClientOf[c]
    /\ c \notin Verify => covenant = c /\ prove = Pooled

\* It does when calls follow each other: an earlier one that threw does no harm,
\* and the musig2 socket is the signing call's own unless disconnect() of another
\* client deleted it.
OwnIfSerial ==
  order = "serial" =>
    /\ OwnEnvironment
    /\ \A c \in Sign : pc[c] = "wasm" => musigSocket \in {ClientOf[c], Nobody}

=============================================================================
