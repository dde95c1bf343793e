---------------------------- MODULE SocketRequests ----------------------------
(***************************************************************************)
(* The request registry of the socket (src/socket.ts), the signing         *)
(* stage its emits pass through and the identity check on key responses    *)
(* (src/SigbashClient.ts).                                                 *)
(*                                                                         *)
(* A request is pushed on the pending list of its event and emitted.  The  *)
(* emit is wrapped: it awaits a signature, so the message leaves later and *)
(* requests may overtake each other there.  A response finds its request   *)
(* by the request_id the server echoed, or, from a server that echoes      *)
(* none, by being the oldest pending one.  The server is any server: it    *)
(* answers emitted requests in any order, late, twice or never, and is an  *)
(* older one, which echoes no ID, or a newer one.  A message is handled in *)
(* the step that delivers it, so a delay is a later answer.                *)
(***************************************************************************)
EXTENDS SequencesExt

CONSTANTS
  Req,        \* requests, each made at most once
  Event,      \* base event names
  Key,        \* the keys of the organization
  EventOf,    \* the event a request is made on
  KeyOf,      \* the key a request names, and its response carries
  Checked,    \* events whose response passes _validateKmcResponseIdentity
  Servers,    \* the servers there are: each a set of events, those whose
              \* responses and errors echo request_id
  Numbered,   \* events whose response carries a numeric key_index
  Identified, \* requests that name their key by number or give opts.keyIndex
  MaxCopies   \* bound: answers the server sends to one request

ASSUME SocketAssumption ==
  /\ EventOf \in [Req -> Event]
  /\ KeyOf \in [Req -> Key]
  /\ Servers \subseteq SUBSET Event
  /\ Checked \subseteq Event
  /\ Numbered \subseteq Event
  /\ Identified \subseteq Req
  /\ MaxCopies \in Nat

VARIABLES
  echoes,       \* the server that is connected to, an older or a newer one
  pending,      \* per event, the outstanding requests
  dispatchers,  \* events with a response/error dispatcher pair attached
  timers,       \* requests whose setTimeout has not fired yet
  emitted,      \* where each request's message stands
  copies,       \* answers sent to each request
  stage,        \* where each request's promise stands
  source,       \* history: whose responses a request was completed with
  issued,       \* history: the requests of each event in the order made
  outOfTurn     \* history: events with a response to another request than
                \* the first unanswered one

vars == <<echoes, pending, dispatchers, timers, emitted, copies, stage, source,
          issued, outOfTurn>>

\* "answered" is the continuation of an await that has not run yet.
Settled == {"used", "mismatch", "failed", "timedOut"}
Stage == {"new", "waiting", "answered"} \cup Settled

TypeOK ==
  /\ echoes \in Servers
  /\ pending \in [Event -> Seq(Req)]
  /\ dispatchers \subseteq Event
  /\ timers \subseteq Req
  /\ emitted \in [Req -> {"no", "signing", "signed", "unsigned"}]
  /\ copies \in [Req -> 0 .. MaxCopies]
  /\ stage \in [Req -> Stage]
  /\ source \in [Req -> SUBSET Req]
  /\ issued \in [Event -> Seq(Req)]
  /\ outOfTurn \subseteq Event

Init ==
  /\ echoes \in Servers
  /\ pending = [e \in Event |-> <<>>]
  /\ dispatchers = {}
  /\ timers = {}
  /\ emitted = [r \in Req |-> "no"]
  /\ copies = [r \in Req |-> 0]
  /\ stage = [r \in Req |-> "new"]
  /\ source = [r \in Req |-> {}]
  /\ issued = [e \in Event |-> <<>>]
  /\ outOfTurn = {}

-----------------------------------------------------------------------------
(* The caller's side.                                                      *)

\* Mutant of IssueRequest: no timer is started.
IssueUntimed(r) ==
  LET e == EventOf[r]
  IN /\ stage[r] = "new"
     /\ stage' = [stage EXCEPT ![r] = "waiting"]
     /\ dispatchers' = dispatchers \cup {e}
     /\ pending' = [pending EXCEPT ![e] = Append(@, r)]
     /\ issued' = [issued EXCEPT ![e] = Append(@, r)]
     /\ emitted' = [emitted EXCEPT ![r] = "signing"]
     /\ UNCHANGED <<echoes, timers, copies, source, outOfTurn>>

\* request(): attach the dispatchers, register, start the timer, emit.
IssueRequest(r) ==
  LET e == EventOf[r]
  IN /\ stage[r] = "new"
     /\ stage' = [stage EXCEPT ![r] = "waiting"]
     /\ dispatchers' = dispatchers \cup {e}
     /\ pending' = [pending EXCEPT ![e] = Append(@, r)]
     /\ issued' = [issued EXCEPT ![e] = Append(@, r)]
     /\ timers' = timers \cup {r}
     /\ emitted' = [emitted EXCEPT ![r] = "signing"]
     /\ UNCHANGED <<echoes, copies, source, outOfTurn>>

\* The wrapped emit: signing ends, in whatever order, and the message leaves;
\* when signing throws it leaves unsigned.  A request that has timed out
\* meanwhile is sent all the same.
EmitSigned(r) ==
  /\ emitted[r] = "signing"
  /\ \E s \in {"signed", "unsigned"} : emitted' = [emitted EXCEPT ![r] = s]
  /\ UNCHANGED <<echoes, pending, dispatchers, timers, copies, stage, source,
                 issued, outOfTurn>>

\* Mutant of IdentityAccepted: the response is used unseen.
AnyIdentity(r, q) == TRUE

\* _validateKmcResponseIdentity: a response whose key_index is missing passes,
\* and so does one to a request that named its key by something else than a
\* number and gave no index.
IdentityAccepted(r, q) ==
  \/ EventOf[r] \notin Checked \cap Numbered
  \/ r \notin Identified
  \/ KeyOf[q] = KeyOf[r]

\* The caller resumes after "await socket.request(...)".
Resume(r) ==
  /\ stage[r] = "answered"
  /\ stage' = [stage EXCEPT ![r] =
       IF \A q \in source[r] : IdentityAccepted(r, q) THEN "used" ELSE "mismatch"]
  /\ UNCHANGED <<echoes, pending, dispatchers, timers, emitted, copies, source,
                 issued, outOfTurn>>

-----------------------------------------------------------------------------
(* Settling: complete and fail of an entry.                                *)

\* Mutant of RemoveFromPending: an entry that is not there is spliced at -1,
\* which takes the last one out.
SpliceAtMinusOne(e, r) ==
  LET list == pending[e]
      rest == IF r \in ToSet(list) \/ list = <<>> THEN RemoveFirst(list, r) ELSE Front(list)
  IN /\ pending' = [pending EXCEPT ![e] = rest]
     /\ dispatchers' = IF rest = <<>> THEN dispatchers \ {e} ELSE dispatchers

\* removeFromPending: no entry is removed that is not in the list, and the
\* dispatchers go with the last one.
RemoveFromPending(e, r) ==
  LET rest == RemoveFirst(pending[e], r)
  IN /\ pending' = [pending EXCEPT ![e] = rest]
     /\ dispatchers' = IF rest = <<>> THEN dispatchers \ {e} ELSE dispatchers

\* Mutant of SettleWith: the later outcome replaces the earlier one.
SettleAgain(r, s) == stage' = [stage EXCEPT ![r] = s]

\* resolve and reject of a promise that is settled already do nothing.
SettleWith(r, s) ==
  stage' = [stage EXCEPT ![r] = IF @ = "waiting" THEN s ELSE @]

\* Mutant of Complete: the request stays in the list.
CompleteInPlace(r, q) ==
  /\ SettleWith(r, "answered")
  /\ source' = [source EXCEPT ![r] = @ \cup {q}]
  /\ UNCHANGED <<pending, dispatchers>>

Complete(r, q) ==
  /\ RemoveFromPending(EventOf[r], r)
  /\ SettleWith(r, "answered")
  /\ source' = [source EXCEPT ![r] = @ \cup {q}]

Fail(r, s) ==
  /\ RemoveFromPending(EventOf[r], r)
  /\ SettleWith(r, s)
  /\ UNCHANGED source

Ignored == UNCHANGED <<pending, dispatchers, stage, source>>

\* The timer of a request; nobody clears it when the request is answered.
Timeout(r) ==
  /\ r \in timers
  /\ timers' = timers \ {r}
  /\ Fail(r, "timedOut")
  /\ UNCHANGED <<echoes, emitted, copies, issued, outOfTurn>>

-----------------------------------------------------------------------------
(* Messages from the server.                                               *)

\* An answer to q: one more copy of it, and q's turn or not.
Answers(q) ==
  LET e == EventOf[q]
  IN /\ copies[q] < MaxCopies
     /\ copies' = [copies EXCEPT ![q] = @ + 1]
     /\ outOfTurn' =
          IF \E i \in DOMAIN issued[e] :
               /\ issued[e][i] = q
               /\ copies[q] = 0
               /\ \A j \in 1 .. i - 1 : copies[issued[e][j]] > 0
          THEN outOfTurn ELSE outOfTurn \cup {e}
     /\ UNCHANGED <<echoes, timers, emitted, issued>>

\* Mutants of Addressee: the newest pending request; the oldest one whatever
\* the ID; the oldest one when the ID is unknown.
NewestPending(q) ==
  LET list == pending[EventOf[q]] IN {list[i] : i \in DOMAIN list \cap {Len(list)}}

OldestPending(q) ==
  LET list == pending[EventOf[q]] IN {list[i] : i \in DOMAIN list \cap {1}}

OldestIfUnknown(q) ==
  IF q \in ToSet(pending[EventOf[q]]) THEN {q} ELSE OldestPending(q)

\* Who a response to q is for: the request whose ID it carries while that one
\* is pending, else nobody; without an ID the oldest pending one.
Addressee(q) ==
  LET list == pending[EventOf[q]]
  IN IF EventOf[q] \in echoes
     THEN {q} \cap ToSet(list)
     ELSE {list[i] : i \in DOMAIN list \cap {1}}

\* onResponse.
OnResponse(q) ==
  /\ emitted[q] = "signed"
  /\ Answers(q)
  /\ IF EventOf[q] \in dispatchers /\ Addressee(q) # {}
     THEN \E r \in Addressee(q) : Complete(r, q)
     ELSE Ignored

\* onError with a request_id.
OnTaggedError(q) ==
  /\ emitted[q] \in {"signed", "unsigned"}
  /\ EventOf[q] \in echoes
  /\ Answers(q)
  /\ IF EventOf[q] \in dispatchers /\ Addressee(q) # {}
     THEN Fail(q, "failed")
     ELSE Ignored

\* onError without one: whatever request or condition caused it, it rejects
\* every pending request of the event.
OnUntaggedError(e) ==
  /\ e \in dispatchers
  /\ pending[e] # <<>>
  /\ stage' = [r \in Req |-> IF r \in ToSet(pending[e]) THEN "failed" ELSE stage[r]]
  /\ pending' = [pending EXCEPT ![e] = <<>>]
  /\ dispatchers' = dispatchers \ {e}
  /\ UNCHANGED <<echoes, timers, emitted, copies, source, issued, outOfTurn>>

-----------------------------------------------------------------------------
Next ==
  \/ \E r \in Req :
       \/ IssueRequest(r)
       \/ EmitSigned(r)
       \/ Resume(r)
       \/ Timeout(r)
       \/ OnResponse(r)
       \/ OnTaggedError(r)
  \/ \E e \in Event : OnUntaggedError(e)

Spec == Init /\ [][Next]_vars

\* Timers fire and continuations run; nothing is assumed of the server.
Fairness == \A r \in Req : WF_vars(Timeout(r)) /\ WF_vars(Resume(r))

FairSpec == Spec /\ Fairness

-----------------------------------------------------------------------------
(* Properties.                                                             *)

Waiting(e) == {r \in Req : EventOf[r] = e /\ stage[r] = "waiting"}

\* The registry agrees with the promises: an event's list holds each request
\* still waiting for it exactly once, and nothing else.  A timer that fires
\* after its request was answered must not take another one out.
PendingIsWaiting ==
  \A e \in Event :
    /\ ToSet(pending[e]) = Waiting(e)
    /\ IsInjective(pending[e])

\* Nobody waits on an event nobody listens to, and no dispatcher outlives the
\* requests it was attached for.
ListeningIsPending == dispatchers = {e \in Event : pending[e] # <<>>}

\* The registry is sound: the two together, with the types of the variables
\* (socket.ts:162-223).
Registry == TypeOK /\ PendingIsWaiting /\ ListeningIsPending

\* "resolves exactly the matching request and any response carrying an unknown
\* ID ... is dropped" (socket.ts:157-160): with an echoing server no request
\* is completed with the response to another, however late or often it comes.
TaggedPairing ==
  \A r \in Req : EventOf[r] \in echoes => source[r] \subseteq {r}

\* "each incoming response is consumed at most once" (socket.ts:106-107): the
\* responses to q complete no more requests than there were of them, and no
\* request is completed twice.
ConsumedOnce ==
  /\ \A q \in Req : Cardinality({r \in Req : q \in source[r]}) <= copies[q]
  /\ \A r \in Req : Cardinality(source[r]) <= 1

\* "responses resolve the oldest pending request FIFO" (socket.ts:160-161): the
\* pairing without IDs is right as long as the server answers each request
\* once, in the order they were made, and none was given up.
Undisturbed(e) ==
  /\ e \notin outOfTurn
  /\ \A r \in Req : EventOf[r] = e => stage[r] \notin {"failed", "timedOut"}

FifoPairing ==
  \A r \in Req : Undisturbed(EventOf[r]) => source[r] \subseteq {r}

\* "reject it rather than hand the caller another key's material"
\* (SigbashClient.ts:3031): whatever the pairing did, a caller that identified
\* its key uses the response of that key or none, given a numbered response.
KeyIdentity ==
  \A r \in Identified :
    stage[r] = "used" /\ EventOf[r] \in Checked \cap Numbered =>
      \A q \in source[r] : KeyOf[q] = KeyOf[r]

\* "A missing or non-numeric key_index is tolerated (older servers), since the
\* request-level correlation ID already covers response pairing there"
\* (SigbashClient.ts:3032-3033): the same without the condition on the response.
CorrelationCoversIdentity ==
  \A r \in Identified :
    stage[r] = "used" /\ EventOf[r] \in Checked =>
      \A q \in source[r] : KeyOf[q] = KeyOf[r]

\* The requests as their callers see them.
OpenCalls == {r \in Req : stage[r] \in {"waiting", "answered"}}
Outcome == [r \in {q \in Req : stage[q] \in Settled} |-> stage[r]]

Contract == INSTANCE RequestContract WITH
  Request <- Req, Answer <- Settled, open <- OpenCalls, answer <- Outcome

\* Each request is settled at most once and keeps its outcome.
ImplementsContract == Contract!Spec

\* Every request is settled in the end, whatever the server does:  requests are
\* made at most once, so from some moment on none is waiting or unread.
RequestSettles == <>[](\A r \in Req : stage[r] \in {"new"} \cup Settled)

=============================================================================
