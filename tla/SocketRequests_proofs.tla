------------------------ MODULE SocketRequests_proofs ------------------------
(***************************************************************************)
(* Proofs about the socket's request registry, for every set of requests,  *)
(* events and keys and every server.  The inductive invariant is the type  *)
(* invariant together with the agreement of the pending lists with the     *)
(* promises and with the attached dispatchers: the response to a request   *)
(* that is no longer waiting finds no entry because of it.                 *)
(***************************************************************************)
EXTENDS SocketRequests, SequenceTheorems, FiniteSetTheorems, TLAPS

-----------------------------------------------------------------------------
(* Lists.                                                                  *)

\* The index removeFromPending finds is that of the first occurrence.
LEMMA RemoveAtIndex ==
  ASSUME NEW S, NEW s \in Seq(S), NEW e, NEW i \in 1..Len(s), s[i] = e,
         \A j \in 1..(i-1) : s[j] # e
  PROVE  RemoveFirst(s, e) = RemoveAt(s, i)
<1> DEFINE I == {j \in 1..Len(s) : s[j] = e}
<1>1. i \in I /\ \A j \in I : i <= j
  OBVIOUS
<1>2. Min(I) = i
  BY <1>1, SMT DEF Min
<1>3. SelectInSeq(s, LAMBDA v : v = e) = i
  BY <1>1, <1>2 DEF SelectInSeq
<1> QED
  BY <1>3 DEF RemoveFirst

\* What splicing one element out of a list leaves.
LEMMA RemoveAtElements ==
  ASSUME NEW S, NEW s \in Seq(S), NEW i \in 1..Len(s)
  PROVE  /\ RemoveAt(s, i) \in Seq(S)
         /\ Len(RemoveAt(s, i)) = Len(s) - 1
         /\ \A j \in 1..(Len(s)-1) :
              RemoveAt(s, i)[j] = IF j < i THEN s[j] ELSE s[j+1]
<1> DEFINE a == SubSeq(s, 1, i-1)
           b == SubSeq(s, i+1, Len(s))
<1>1. a \in Seq(S) /\ Len(a) = i-1 /\ \A j \in 1..(i-1) : a[j] = s[j]
  BY SubSeqProperties
<1>2. b \in Seq(S) /\ Len(b) = Len(s)-i /\ \A j \in 1..(Len(s)-i) : b[j] = s[i+j]
  BY SubSeqProperties
<1> HIDE DEF a, b
<1>3. a \o b \in Seq(S) /\ Len(a \o b) = Len(s) - 1
  <2>1. a \o b \in Seq(S) /\ Len(a \o b) = Len(a) + Len(b)
    BY <1>1, <1>2, ConcatProperties
  <2> QED
    BY <1>1, <1>2, <2>1
<1>4. \A j \in 1..(Len(s)-1) : (a \o b)[j] = IF j < i THEN s[j] ELSE s[j+1]
  <2> TAKE j \in 1..(Len(s)-1)
  <2>1. CASE j < i
    BY <1>1, <1>2, <2>1
  <2>2. CASE ~(j < i)
    <3>1. j - Len(a) \in 1..(Len(s)-i) /\ i + (j - Len(a)) = j + 1
      BY <1>1, <2>2
    <3>2. (a \o b)[j] = b[j - Len(a)]
      BY <1>1, <1>2, <2>2
    <3> QED
      BY <1>2, <2>2, <3>1, <3>2
  <2> QED
    BY <2>1, <2>2
<1> QED
  BY <1>3, <1>4 DEF RemoveAt, a, b

\* Removing an entry from a list without duplicates (removeFromPending,
\* socket.ts:191-200): the others stay, once each, and no entry that is not
\* in the list is touched.
LEMMA RemoveFirstProperties ==
  ASSUME NEW S, NEW s \in Seq(S), NEW e, IsInjective(s)
  PROVE  /\ RemoveFirst(s, e) \in Seq(S)
         /\ ToSet(RemoveFirst(s, e)) = ToSet(s) \ {e}
         /\ IsInjective(RemoveFirst(s, e))
<1>1. CASE \E i \in 1..Len(s) : s[i] = e
  <2> PICK i \in 1..Len(s) : s[i] = e
    BY <1>1
  <2>1. \A j \in 1..Len(s) : s[j] = e => j = i
    BY DEF IsInjective
  <2> DEFINE t == RemoveAt(s, i)
  <2>2. RemoveFirst(s, e) = t
    BY <2>1, RemoveAtIndex
  <2>3. t \in Seq(S) /\ Len(t) = Len(s) - 1
        /\ \A j \in 1..(Len(s)-1) : t[j] = IF j < i THEN s[j] ELSE s[j+1]
    BY RemoveAtElements
  <2> HIDE DEF t
  <2>4. ToSet(t) \subseteq ToSet(s) \ {e}
    <3>1. ASSUME NEW j \in 1..Len(t)
          PROVE  t[j] \in {s[k] : k \in 1..Len(s)} /\ t[j] # e
      <4>1. CASE j < i
        BY <2>1, <2>3, <4>1
      <4>2. CASE ~(j < i)
        <5>1. j + 1 \in 1..Len(s) /\ j + 1 # i /\ t[j] = s[j + 1]
          BY <2>3, <4>2
        <5> QED
          BY <2>1, <5>1
      <4> QED
        BY <4>1, <4>2
    <3>2. DOMAIN t = 1..Len(t) /\ DOMAIN s = 1..Len(s)
      BY <2>3
    <3>3. ToSet(t) = {t[j] : j \in 1..Len(t)} /\ ToSet(s) = {s[k] : k \in 1..Len(s)}
      BY <3>2 DEF ToSet
    <3> QED
      BY <3>1, <3>3
  <2>5. ToSet(s) \ {e} \subseteq ToSet(t)
    <3> SUFFICES ASSUME NEW k \in 1..Len(s), s[k] # e
                 PROVE  \E j \in 1..Len(t) : t[j] = s[k]
      BY <2>3 DEF ToSet
    <3>1. CASE k < i
      BY <2>3, <3>1
    <3>2. CASE k > i
      <4>1. k-1 \in 1..Len(t) /\ t[k-1] = s[k]
        BY <2>3, <3>2
      <4> QED
        BY <4>1
    <3> QED
      BY <3>1, <3>2
  <2>6. IsInjective(t)
    <3> SUFFICES ASSUME NEW j \in 1..Len(t), NEW k \in 1..Len(t), t[j] = t[k]
                 PROVE  j = k
      BY <2>3 DEF IsInjective
    <3> DEFINE J == IF j < i THEN j ELSE j+1
               K == IF k < i THEN k ELSE k+1
    <3>1. J \in DOMAIN s /\ K \in DOMAIN s /\ s[J] = s[K]
      BY <2>3
    <3>2. J = K
      BY <3>1 DEF IsInjective
    <3> QED
      BY <3>2
  <2> QED
    BY <2>2, <2>3, <2>4, <2>5, <2>6
<1>2. CASE ~\E i \in 1..Len(s) : s[i] = e
  BY <1>2 DEF RemoveFirst, ToSet
<1> QED
  BY <1>1, <1>2
-----------------------------------------------------------------------------
(* The registry.  It is an inductive invariant as it stands.               *)

\* Settling one request by complete or fail keeps the registry consistent,
\* also when it was settled before.
LEMMA SettleOne ==
  ASSUME Registry, NEW r \in Req, NEW s \in Stage \ {"new", "waiting"},
         RemoveFromPending(EventOf[r], r), SettleWith(r, s)
  PROVE  /\ pending' \in [Event -> Seq(Req)]
         /\ dispatchers' \subseteq Event
         /\ stage' \in [Req -> Stage]
         /\ PendingIsWaiting'
         /\ ListeningIsPending'
<1> DEFINE e == EventOf[r]
           rest == RemoveFirst(pending[e], r)
<1>1. e \in Event /\ pending[e] \in Seq(Req) /\ IsInjective(pending[e])
  BY SocketAssumption DEF Registry, TypeOK, PendingIsWaiting
<1>2. rest \in Seq(Req) /\ ToSet(rest) = ToSet(pending[e]) \ {r} /\ IsInjective(rest)
  BY <1>1, RemoveFirstProperties
<1> HIDE DEF rest
<1>3. /\ pending' = [pending EXCEPT ![e] = rest]
      /\ dispatchers' = IF rest = <<>> THEN dispatchers \ {e} ELSE dispatchers
  BY DEF RemoveFromPending, rest
<1>4. /\ stage' \in [Req -> Stage]
      /\ stage'[r] # "waiting"
      /\ \A q \in Req \ {r} : stage'[q] = stage[q]
  BY DEF SettleWith, Registry, TypeOK, Stage
<1> HIDE DEF e
<1>5. pending' \in [Event -> Seq(Req)] /\ dispatchers' \subseteq Event
  BY <1>1, <1>2, <1>3 DEF Registry, TypeOK
<1>6. /\ pending'[e] = rest
      /\ \A f \in Event \ {e} : pending'[f] = pending[f]
  BY <1>1, <1>3 DEF Registry, TypeOK
<1>7. PendingIsWaiting'
  <2>1. \A f \in Event : Waiting(f)' = Waiting(f) \ {r}
    BY <1>4 DEF Waiting
  <2>2. \A f \in Event \ {e} : r \notin Waiting(f)
    BY DEF Waiting, e
  <2>3. \A f \in Event : ToSet(pending[f]) = Waiting(f) /\ IsInjective(pending[f])
    BY DEF Registry, PendingIsWaiting
  <2> SUFFICES ASSUME NEW f \in Event
               PROVE  ToSet(pending'[f]) = Waiting(f)' /\ IsInjective(pending'[f])
    BY DEF PendingIsWaiting
  <2>4. CASE f = e
    BY <1>2, <1>6, <2>1, <2>3, <2>4
  <2>5. CASE f # e
    <3>1. Waiting(f)' = Waiting(f)
      BY <2>1, <2>2, <2>5
    <3> QED
      BY <1>6, <2>3, <2>5, <3>1
  <2> QED
    BY <2>4, <2>5
<1>8. ListeningIsPending'
  <2>1. dispatchers = {f \in Event : pending[f] # <<>>}
    BY DEF Registry, ListeningIsPending
  <2>2. ASSUME NEW f \in Event
        PROVE  f \in dispatchers' <=> pending'[f] # <<>>
    <3>1. CASE f = e /\ rest = <<>>
      BY <1>3, <1>6, <3>1
    <3>2. CASE f = e /\ rest # <<>>
      <4>1. pending[e] # <<>>
        BY <3>2 DEF rest, RemoveFirst
      <4> QED
        BY <1>1, <1>3, <1>6, <2>1, <3>2, <4>1
    <3>3. CASE f # e
      BY <1>3, <1>6, <2>1, <3>3
    <3> QED
      BY <3>1, <3>2, <3>3
  <2> QED
    BY <1>5, <2>2 DEF ListeningIsPending
<1> QED
  BY <1>4, <1>5, <1>7, <1>8

LEMMA InitRegistry == Init => Registry
<1> SUFFICES ASSUME Init
             PROVE  Registry
  OBVIOUS
<1>1. TypeOK
  BY SocketAssumption DEF Init, TypeOK, Stage
<1>2. PendingIsWaiting
  BY DEF Init, PendingIsWaiting, Waiting, ToSet, IsInjective
<1>3. ListeningIsPending
  BY DEF Init, ListeningIsPending
<1> QED
  BY <1>1, <1>2, <1>3 DEF Registry

\* request() appends an entry that is not in the list yet.
LEMMA IssueRequestRegistry ==
  ASSUME Registry, NEW r \in Req, IssueRequest(r)
  PROVE  Registry'
<1> DEFINE e == EventOf[r]
           list == Append(pending[e], r)
<1>1. e \in Event /\ pending[e] \in Seq(Req) /\ issued[e] \in Seq(Req)
  BY SocketAssumption DEF Registry, TypeOK
<1>2. r \notin ToSet(pending[e])
  BY <1>1 DEF Registry, PendingIsWaiting, Waiting, IssueRequest
<1>3. list \in Seq(Req) /\ list # <<>> /\ DOMAIN list = 1 .. Len(pending[e]) + 1
      /\ list[Len(pending[e]) + 1] = r
      /\ \A i \in 1 .. Len(pending[e]) : list[i] = pending[e][i]
  BY <1>1, AppendProperties, LenProperties
<1>4. pending' = [pending EXCEPT ![e] = list]
  BY DEF IssueRequest
<1> HIDE DEF list
<1> DEFINE n == Len(pending[e])
<1>a. n \in Nat /\ DOMAIN pending[e] = 1 .. n
  BY <1>1
<1>5. ToSet(list) = ToSet(pending[e]) \cup {r}
  <2>1. \A i \in 1 .. n + 1 : i \in 1 .. n \/ i = n + 1
    BY <1>a
  <2>2. n + 1 \in DOMAIN list /\ 1 .. n \subseteq DOMAIN list
    BY <1>a, <1>3
  <2> QED
    BY <1>a, <1>3, <2>1, <2>2 DEF ToSet
<1>6. IsInjective(list)
  <2>1. IsInjective(pending[e])
    BY <1>1 DEF Registry, PendingIsWaiting
  <2> SUFFICES ASSUME NEW i \in 1 .. n + 1, NEW j \in 1 .. n + 1, list[i] = list[j]
               PROVE  i = j
    BY <1>3 DEF IsInjective
  <2>2. \A k \in 1 .. n : list[k] = pending[e][k] /\ list[k] # r
    BY <1>a, <1>2, <1>3 DEF ToSet
  <2>3. CASE i \in 1 .. n /\ j \in 1 .. n
    BY <1>a, <2>1, <2>2, <2>3 DEF IsInjective
  <2>4. CASE i = n + 1 \/ j = n + 1
    BY <1>a, <1>3, <2>2, <2>4
  <2> QED
    BY <1>a, <2>3, <2>4
<1>7. TypeOK'
  <2>1. pending' \in [Event -> Seq(Req)] /\ dispatchers' \subseteq Event
    BY <1>1, <1>3, <1>4 DEF Registry, TypeOK, IssueRequest
  <2>2. issued' \in [Event -> Seq(Req)]
    BY <1>1 DEF Registry, TypeOK, IssueRequest
  <2> QED
    BY <2>1, <2>2 DEF Registry, TypeOK, IssueRequest, Stage
<1>8. /\ pending'[e] = list
      /\ \A f \in Event \ {e} : pending'[f] = pending[f]
  BY <1>1, <1>4 DEF Registry, TypeOK
<1>9. PendingIsWaiting'
  <2>1. /\ stage'[r] = "waiting"
        /\ \A q \in Req \ {r} : stage'[q] = stage[q]
    BY DEF Registry, TypeOK, IssueRequest
  <2>2. /\ Waiting(e)' = Waiting(e) \cup {r}
        /\ \A f \in Event \ {e} : Waiting(f)' = Waiting(f)
    BY <2>1 DEF Waiting
  <2> QED
    BY <1>1, <1>5, <1>6, <1>8, <2>2 DEF Registry, PendingIsWaiting
<1>10. ListeningIsPending'
  BY <1>1, <1>3, <1>8 DEF Registry, ListeningIsPending, IssueRequest
<1> QED
  BY <1>7, <1>9, <1>10 DEF Registry

\* An untagged error empties one list and settles exactly who was in it.
LEMMA OnUntaggedErrorRegistry ==
  ASSUME Registry, NEW e \in Event, OnUntaggedError(e)
  PROVE  Registry'
<1>1. /\ pending'[e] = <<>>
      /\ \A f \in Event \ {e} : pending'[f] = pending[f]
  BY DEF Registry, TypeOK, OnUntaggedError
<1>2. TypeOK'
  <2>1. stage' \in [Req -> Stage]
    BY DEF Registry, TypeOK, OnUntaggedError, Stage, Settled
  <2> QED
    BY <2>1 DEF Registry, TypeOK, OnUntaggedError
<1>3. PendingIsWaiting'
  <2>1. \A r \in Req : stage'[r] = IF r \in Waiting(e) THEN "failed" ELSE stage[r]
    BY DEF Registry, PendingIsWaiting, OnUntaggedError
  <2>2. /\ Waiting(e)' = {}
        /\ \A f \in Event \ {e} : Waiting(f)' = Waiting(f)
    BY <2>1 DEF Waiting
  <2>3. ToSet(<<>>) = {} /\ IsInjective(<<>>)
    BY DEF ToSet, IsInjective
  <2> QED
    BY <1>1, <2>2, <2>3 DEF Registry, PendingIsWaiting
<1>4. ListeningIsPending'
  BY <1>1 DEF Registry, ListeningIsPending, OnUntaggedError
<1> QED
  BY <1>2, <1>3, <1>4 DEF Registry

\* Who gets the response to q is a pending request of q's event.
LEMMA AddresseePending ==
  ASSUME Registry, NEW q \in Req, NEW r \in Addressee(q)
  PROVE  r \in Waiting(EventOf[q])
<1> DEFINE list == pending[EventOf[q]]
<1>1. EventOf[q] \in Event
  BY SocketAssumption
<1>2. r \in ToSet(list)
  BY DEF Addressee, ToSet
<1> QED
  BY <1>1, <1>2 DEF Registry, PendingIsWaiting

\* An answer changes the counts of answers and the record of turns only.
LEMMA AnswersType ==
  ASSUME Registry, NEW q \in Req, Answers(q)
  PROVE  /\ copies' \in [Req -> 0 .. MaxCopies]
         /\ outOfTurn' \subseteq Event
         /\ UNCHANGED <<echoes, timers, emitted, issued>>
<1>1. copies' \in [Req -> 0 .. MaxCopies]
  BY SocketAssumption DEF Answers, Registry, TypeOK
<1>2. EventOf[q] \in Event
  BY SocketAssumption
<1>3. outOfTurn' \in {outOfTurn, outOfTurn \cup {EventOf[q]}}
  BY Zenon DEF Answers
<1> QED
  BY <1>1, <1>2, <1>3 DEF Answers, Registry, TypeOK

\* The three ways an answer is handled: it completes a pending request, fails
\* its own, or is dropped.
LEMMA OnResponseRegistry ==
  ASSUME Registry, NEW q \in Req, OnResponse(q)
  PROVE  Registry'
<1>1. copies' \in [Req -> 0 .. MaxCopies] /\ outOfTurn' \subseteq Event
  BY AnswersType DEF OnResponse
<1>2. UNCHANGED <<echoes, timers, emitted, issued>>
  BY AnswersType DEF OnResponse
<1>3. CASE Ignored
  <2>1. TypeOK'
    BY <1>1, <1>2, <1>3 DEF Registry, TypeOK, Ignored
  <2> QED
    BY <1>3, <2>1 DEF Registry, Ignored, PendingIsWaiting, Waiting, ListeningIsPending
<1>4. CASE \E r \in Addressee(q) : Complete(r, q)
  <2> PICK r \in Addressee(q) : Complete(r, q)
    BY <1>4
  <2>1. r \in Req
    BY AddresseePending DEF Waiting
  <2>2. "answered" \in Stage \ {"new", "waiting"}
    BY DEF Stage
  <2>3. /\ pending' \in [Event -> Seq(Req)]
        /\ dispatchers' \subseteq Event
        /\ stage' \in [Req -> Stage]
        /\ PendingIsWaiting'
        /\ ListeningIsPending'
    BY <2>1, <2>2, SettleOne DEF Complete
  <2>4. source' \in [Req -> SUBSET Req]
    BY <2>1 DEF Complete, Registry, TypeOK
  <2> QED
    BY <1>1, <1>2, <2>3, <2>4 DEF Registry, TypeOK
<1> QED
  BY <1>3, <1>4 DEF OnResponse

LEMMA OnTaggedErrorRegistry ==
  ASSUME Registry, NEW q \in Req, OnTaggedError(q)
  PROVE  Registry'
<1>1. copies' \in [Req -> 0 .. MaxCopies] /\ outOfTurn' \subseteq Event
  BY AnswersType DEF OnTaggedError
<1>2. UNCHANGED <<echoes, timers, emitted, issued>>
  BY AnswersType DEF OnTaggedError
<1>3. CASE Ignored
  <2>1. TypeOK'
    BY <1>1, <1>2, <1>3 DEF Registry, TypeOK, Ignored
  <2> QED
    BY <1>3, <2>1 DEF Registry, Ignored, PendingIsWaiting, Waiting, ListeningIsPending
<1>4. CASE Fail(q, "failed")
  <2>1. "failed" \in Stage \ {"new", "waiting"}
    BY DEF Stage, Settled
  <2>2. /\ pending' \in [Event -> Seq(Req)]
        /\ dispatchers' \subseteq Event
        /\ stage' \in [Req -> Stage]
        /\ PendingIsWaiting'
        /\ ListeningIsPending'
    BY <1>4, <2>1, SettleOne DEF Fail
  <2> QED
    BY <1>1, <1>2, <1>4, <2>2 DEF Registry, TypeOK, Fail
<1> QED
  BY <1>3, <1>4 DEF OnTaggedError

LEMMA TimeoutRegistry ==
  ASSUME Registry, NEW r \in Req, Timeout(r)
  PROVE  Registry'
<1>1. "timedOut" \in Stage \ {"new", "waiting"}
  BY DEF Stage, Settled
<1>2. /\ pending' \in [Event -> Seq(Req)]
      /\ dispatchers' \subseteq Event
      /\ stage' \in [Req -> Stage]
      /\ PendingIsWaiting'
      /\ ListeningIsPending'
  BY <1>1, SettleOne DEF Fail, Timeout
<1> QED
  BY <1>2 DEF Registry, TypeOK, Timeout, Fail

LEMMA NextRegistry ==
  ASSUME Registry, [Next]_vars
  PROVE  Registry'
<1>1. ASSUME NEW r \in Req, IssueRequest(r)
      PROVE  Registry'
  BY <1>1, IssueRequestRegistry
<1>2. ASSUME NEW r \in Req, EmitSigned(r)
      PROVE  Registry'
  BY <1>2 DEF EmitSigned, Registry, TypeOK, PendingIsWaiting, Waiting, ListeningIsPending
<1>3. ASSUME NEW r \in Req, Resume(r)
      PROVE  Registry'
  <2>1. TypeOK'
    BY <1>3 DEF Resume, Registry, TypeOK, Stage, Settled
  <2>2. \A e \in Event : Waiting(e)' = Waiting(e)
    BY <1>3 DEF Resume, Registry, TypeOK, Waiting
  <2>3. pending' = pending /\ dispatchers' = dispatchers
    BY <1>3 DEF Resume
  <2> QED
    BY <2>1, <2>2, <2>3 DEF Registry, PendingIsWaiting, ListeningIsPending
<1>4. ASSUME NEW r \in Req, Timeout(r)
      PROVE  Registry'
  BY <1>4, TimeoutRegistry
<1>5. ASSUME NEW r \in Req, OnResponse(r)
      PROVE  Registry'
  BY <1>5, OnResponseRegistry
<1>6. ASSUME NEW r \in Req, OnTaggedError(r)
      PROVE  Registry'
  BY <1>6, OnTaggedErrorRegistry
<1>7. ASSUME NEW e \in Event, OnUntaggedError(e)
      PROVE  Registry'
  BY <1>7, OnUntaggedErrorRegistry
<1>8. CASE UNCHANGED vars
  BY <1>8 DEF vars, Registry, TypeOK, PendingIsWaiting, Waiting, ListeningIsPending
<1> QED
  BY <1>1, <1>2, <1>3, <1>4, <1>5, <1>6, <1>7, <1>8 DEF Next

LEMMA Inductive == Spec => []Registry
  BY InitRegistry, NextRegistry, PTL DEF Spec

\* Every variable of the registry keeps its type.
THEOREM TypeCorrect == Spec => []TypeOK
<1>1. Registry => TypeOK
  BY DEF Registry
<1> QED
  BY <1>1, Inductive, PTL

\* The pending lists hold each waiting request once and nobody else, and an
\* event is listened to exactly while somebody waits on it: no request waits
\* unheard, no dispatcher is left behind (_attach, _detach, removeFromPending).
THEOREM RegistryConsistent == Spec => []Registry
BY Inductive

-----------------------------------------------------------------------------
(* Pairing.                                                                *)

\* The server that is connected to stays the same.
LEMMA SameServer == [Next]_vars => echoes' = echoes
BY DEF Next, vars, IssueRequest, EmitSigned, Resume, Timeout, OnResponse,
       OnTaggedError, OnUntaggedError, Answers

\* A step that completes a request completes one that is waiting, with the
\* response the dispatcher addressed to it; nobody else's outcome changes hands.
LEMMA SourceStep ==
  ASSUME Registry, [Next]_vars, NEW r \in Req, source'[r] # source[r]
  PROVE  \E q \in Req :
           /\ r \in Addressee(q)
           /\ Complete(r, q)
<1>1. ASSUME UNCHANGED source
      PROVE  FALSE
  BY <1>1
<1>2. \E q \in Req : OnResponse(q) /\ ~Ignored
  BY <1>1 DEF Next, vars, IssueRequest, EmitSigned, Resume, Timeout, OnResponse,
              OnTaggedError, OnUntaggedError, Fail, Ignored
<1>3. PICK q \in Req : \E p \in Addressee(q) : Complete(p, q)
  BY <1>2 DEF OnResponse
<1>4. PICK p \in Addressee(q) : Complete(p, q)
  BY <1>3
<1>5. p = r
  BY <1>4 DEF Complete, Registry, TypeOK
<1> QED
  BY <1>4, <1>5

\* With a server that echoes request_id no request is ever completed with the
\* response to another one (onResponse, socket.ts:235-246).
THEOREM TaggedPaired == Spec => []TaggedPairing
<1>1. Init => TaggedPairing
  BY DEF Init, TaggedPairing
<1>2. ASSUME Registry, TaggedPairing, [Next]_vars
      PROVE  TaggedPairing'
  <2> SUFFICES ASSUME NEW r \in Req, EventOf[r] \in echoes
               PROVE  source'[r] \subseteq {r}
    BY <1>2, SameServer DEF TaggedPairing
  <2>1. CASE source'[r] = source[r]
    BY <1>2, <2>1 DEF TaggedPairing
  <2>2. CASE source'[r] # source[r]
    <3>1. PICK q \in Req : r \in Addressee(q) /\ Complete(r, q)
      BY <1>2, <2>2, SourceStep
    <3>2. EventOf[r] = EventOf[q]
      BY <1>2, <3>1, AddresseePending DEF Waiting
    <3>3. q = r
      BY <3>1, <3>2 DEF Addressee
    <3> QED
      BY <1>2, <3>1, <3>3 DEF Complete, TaggedPairing, Registry, TypeOK
  <2> QED
    BY <2>1, <2>2
<1> QED
  BY <1>1, <1>2, Inductive, PTL DEF Spec

\* Whatever response a request was paired with, a caller that named its key by
\* number or index never uses the material of another key when the response
\* says whose it is (_validateKmcResponseIdentity).
THEOREM KeyIdentified == Spec => []KeyIdentity
<1>1. Init => KeyIdentity
  BY SocketAssumption DEF Init, KeyIdentity
<1>2. ASSUME Registry, KeyIdentity, [Next]_vars
      PROVE  KeyIdentity'
  <2> SUFFICES ASSUME NEW r \in Identified, stage'[r] = "used",
                      EventOf[r] \in Checked \cap Numbered,
                      NEW q \in source'[r]
               PROVE  KeyOf[q] = KeyOf[r]
    BY DEF KeyIdentity
  <2>1. r \in Req
    BY SocketAssumption
  <2>2. CASE stage[r] = "used"
    <3>1. source'[r] = source[r]
      <4> SUFFICES ASSUME source'[r] # source[r]
                   PROVE  FALSE
        OBVIOUS
      <4>1. PICK p \in Req : r \in Addressee(p)
        BY <1>2, <2>1, SourceStep
      <4> QED
        BY <1>2, <2>2, <4>1, AddresseePending DEF Waiting
    <3> QED
      BY <1>2, <2>2, <3>1 DEF KeyIdentity
  <2>3. CASE stage[r] # "used"
    <3>1. Resume(r)
      BY <1>2, <2>1, <2>3 DEF Next, vars, IssueRequest, EmitSigned, Resume,
        Timeout, OnResponse, OnTaggedError, OnUntaggedError, Fail, Complete,
        Ignored, SettleWith, Registry, TypeOK
    <3>2. \A p \in source[r] : IdentityAccepted(r, p)
      BY <1>2, <2>1, <3>1 DEF Resume, Registry, TypeOK
    <3>3. q \in source[r]
      BY <3>1 DEF Resume
    <3> QED
      BY <3>2, <3>3 DEF IdentityAccepted
  <2> QED
    BY <2>2, <2>3
<1> QED
  BY <1>1, <1>2, Inductive, PTL DEF Spec

\* Given the response carries its request's ID or its key's number, no caller
\* that identified its key uses another key's material: where the identity
\* check passes a response without key_index, the pairing by ID covers it
\* (SigbashClient.ts:3032).
THEOREM CorrelationCovers ==
  ASSUME \A server \in Servers : Checked \subseteq Numbered \cup server
  PROVE  Spec => []CorrelationCoversIdentity
<1>1. TypeOK => Checked \subseteq Numbered \cup echoes
  BY DEF TypeOK
<1>2. Checked \subseteq Numbered \cup echoes /\ TaggedPairing /\ KeyIdentity
      => CorrelationCoversIdentity
  BY SocketAssumption DEF TaggedPairing, KeyIdentity, CorrelationCoversIdentity
<1> QED
  BY <1>1, <1>2, TypeCorrect, TaggedPaired, KeyIdentified, PTL

\* A step that changes what requests were completed with delivers one response,
\* to one pending request.
LEMMA CompletingStep ==
  ASSUME Registry, [Next]_vars, source' # source
  PROVE  \E q \in Req : \E r \in Addressee(q) : Answers(q) /\ Complete(r, q)
<1>1. \E q \in Req : OnResponse(q) /\ ~Ignored
  BY DEF Next, vars, IssueRequest, EmitSigned, Resume, Timeout, OnResponse,
         OnTaggedError, OnUntaggedError, Fail, Ignored
<1> QED
  BY <1>1 DEF OnResponse

\* No answer is taken back.
LEMMA CopiesGrow ==
  ASSUME Registry, [Next]_vars, NEW q \in Req
  PROVE  copies[q] \in Nat /\ copies'[q] \in Nat /\ copies'[q] >= copies[q]
<1>1. copies \in [Req -> 0 .. MaxCopies] /\ MaxCopies \in Nat
  BY SocketAssumption DEF Registry, TypeOK
<1>2. CASE \E p \in Req : Answers(p)
  BY <1>1, <1>2 DEF Answers
<1>3. CASE copies' = copies
  BY <1>1, <1>3
<1> QED
  BY <1>2, <1>3 DEF Next, vars, IssueRequest, EmitSigned, Resume, Timeout,
       OnResponse, OnTaggedError, OnUntaggedError

\* Who was completed with the responses to q.
Completed(q) == {r \in Req : q \in source[r]}

ConsumedInv ==
  /\ \A q \in Req : IsFiniteSet(Completed(q)) /\ Cardinality(Completed(q)) <= copies[q]
  /\ \A r \in Req : /\ source[r] = {} \/ \E q \in Req : source[r] = {q}
                    /\ stage[r] \in {"new", "waiting"} => source[r] = {}

LEMMA ConsumedInit == Init => ConsumedInv
<1> SUFFICES ASSUME Init PROVE ConsumedInv
  OBVIOUS
<1>1. \A q \in Req : Completed(q) = {}
  BY DEF Init, Completed
<1> QED
  BY <1>1, FS_EmptySet DEF Init, ConsumedInv

LEMMA ConsumedStep == Registry /\ ConsumedInv /\ [Next]_vars => ConsumedInv'
<1> SUFFICES ASSUME Registry, ConsumedInv, [Next]_vars
             PROVE  ConsumedInv'
  OBVIOUS
<1>1. CASE source' = source
  <2>1. \A q \in Req : Completed(q)' = Completed(q)
    BY <1>1 DEF Completed
  <2>2. ASSUME NEW q \in Req
        PROVE  IsFiniteSet(Completed(q)') /\ Cardinality(Completed(q)') <= copies'[q]
    <3>1. Cardinality(Completed(q)) \in Nat
      BY FS_CardinalityType DEF ConsumedInv
    <3> QED
      BY <2>1, <3>1, CopiesGrow DEF ConsumedInv
  <2>3. ASSUME NEW r \in Req, stage'[r] \in {"new", "waiting"}
        PROVE  stage[r] \in {"new", "waiting"}
    BY <2>3 DEF Next, vars, IssueRequest, EmitSigned, Resume, Timeout, OnResponse,
         OnTaggedError, OnUntaggedError, Fail, Complete, Ignored, SettleWith, Registry, TypeOK
  <2> QED
    BY <1>1, <2>2, <2>3 DEF ConsumedInv
<1>2. CASE source' # source
  <2>1. PICK q \in Req : \E r \in Addressee(q) : Answers(q) /\ Complete(r, q)
    BY <1>2, CompletingStep
  <2>2. PICK r \in Addressee(q) : Answers(q) /\ Complete(r, q)
    BY <2>1
  <2>3. r \in Req /\ stage[r] = "waiting" /\ source[r] = {}
    BY AddresseePending DEF Waiting, ConsumedInv
  <2>4. /\ source' = [source EXCEPT ![r] = {q}]
        /\ stage' = [stage EXCEPT ![r] = "answered"]
        /\ copies' = [copies EXCEPT ![q] = @ + 1]
    BY <2>2, <2>3 DEF Complete, SettleWith, Answers, Registry, TypeOK
  <2>5. /\ Completed(q)' = Completed(q) \cup {r}
        /\ r \notin Completed(q)
        /\ \A p \in Req \ {q} : Completed(p)' = Completed(p)
    BY <2>3, <2>4 DEF Completed, Registry, TypeOK
  <2>6. copies'[q] = copies[q] + 1 /\ \A p \in Req \ {q} : copies'[p] = copies[p]
    BY <2>4 DEF Registry, TypeOK
  <2>7. copies[q] \in Nat
    BY CopiesGrow
  <2>8. IsFiniteSet(Completed(q)') /\ Cardinality(Completed(q)') <= copies'[q]
    <3>1. /\ IsFiniteSet(Completed(q)) /\ Cardinality(Completed(q)) <= copies[q]
          /\ Cardinality(Completed(q)) \in Nat
      BY FS_CardinalityType DEF ConsumedInv
    <3>2. /\ IsFiniteSet(Completed(q) \cup {r})
          /\ Cardinality(Completed(q) \cup {r}) = Cardinality(Completed(q)) + 1
      BY <2>5, <3>1, FS_AddElement
    <3> QED
      BY <2>5, <2>6, <2>7, <3>1, <3>2
  <2>9. \A p \in Req : IsFiniteSet(Completed(p)') /\ Cardinality(Completed(p)') <= copies'[p]
    BY <2>5, <2>6, <2>8 DEF ConsumedInv
  <2>10. \A p \in Req : /\ source'[p] = {} \/ \E o \in Req : source'[p] = {o}
                        /\ stage'[p] \in {"new", "waiting"} => source'[p] = {}
    BY <2>3, <2>4 DEF ConsumedInv, Registry, TypeOK
  <2> QED
    BY <2>9, <2>10 DEF ConsumedInv
<1> QED
  BY <1>1, <1>2

\* No response is consumed by two requests and no request by two responses,
\* with and without IDs, whatever is lost, repeated or reordered
\* (socket.ts:106).
THEOREM Consumed == Spec => []ConsumedOnce
<1>1. ConsumedInv => ConsumedOnce
  <2> SUFFICES ASSUME ConsumedInv PROVE ConsumedOnce
    OBVIOUS
  <2>1. \A r \in Req : Cardinality(source[r]) <= 1
    <3>1. \A r \in Req : source[r] = {} \/ \E q \in Req : source[r] = {q}
      BY DEF ConsumedInv
    <3>2. Cardinality({}) = 0 /\ \A q \in Req : Cardinality({q}) = 1
      BY FS_EmptySet, FS_Singleton
    <3> QED
      BY <3>1, <3>2
  <2> QED
    BY <2>1 DEF ConsumedInv, ConsumedOnce, Completed
<1> QED
  BY <1>1, ConsumedInit, ConsumedStep, Inductive, PTL DEF Spec

-----------------------------------------------------------------------------
(* First in, first out.  While a server without request IDs answers an     *)
(* event's requests once each and in their order, and none is given up,    *)
(* the list of the event is what is left of the requests after the first m,*)
(* and these m are the answered ones.                                      *)

Pairs(e, m) ==
  /\ m \in 0 .. Len(issued[e])
  /\ Len(pending[e]) = Len(issued[e]) - m
  /\ \A j \in 1 .. Len(pending[e]) : pending[e][j] = issued[e][m + j]
  /\ \A i \in 1 .. Len(issued[e]) : copies[issued[e][i]] > 0 <=> i <= m

FifoInv ==
  /\ \A r \in Req : /\ stage[r] = "new" => emitted[r] = "no"
                    /\ emitted[r] = "no" => copies[r] = 0
  /\ \A e \in Event : \A i \in 1 .. Len(issued[e]) : EventOf[issued[e][i]] = e
  /\ \A e \in Event \ echoes : Undisturbed(e) =>
       /\ \E m \in Nat : Pairs(e, m)
       /\ \A r \in Req : EventOf[r] = e => source[r] \subseteq {r}

LEMMA FifoInit == Init => FifoInv
<1> SUFFICES ASSUME Init PROVE FifoInv
  OBVIOUS
<1>1. \A e \in Event : Pairs(e, 0)
  BY DEF Init, Pairs
<1> QED
  BY <1>1 DEF Init, FifoInv

\* What disturbs an event stays: a request that was given up, an answer out of
\* turn.
LEMMA StaysDisturbed ==
  ASSUME Registry, [Next]_vars, NEW e \in Event, Undisturbed(e)'
  PROVE  Undisturbed(e)
<1>1. e \notin outOfTurn
  <2>1. outOfTurn \subseteq outOfTurn'
    BY DEF Next, vars, IssueRequest, EmitSigned, Resume, Timeout, OnResponse,
           OnTaggedError, OnUntaggedError, Answers
  <2> QED
    BY <2>1 DEF Undisturbed
<1>2. ASSUME NEW r \in Req, EventOf[r] = e, stage[r] \in {"failed", "timedOut"}
      PROVE  FALSE
  <2>1. \A f \in Event : r \notin ToSet(pending[f])
    BY <1>2 DEF Registry, PendingIsWaiting, Waiting
  <2>2. stage'[r] = stage[r]
    BY <1>2, <2>1 DEF Next, vars, IssueRequest, EmitSigned, Resume, Timeout, OnResponse,
         OnTaggedError, OnUntaggedError, Fail, Complete, Ignored, SettleWith,
         Registry, TypeOK
  <2> QED
    BY <1>2, <2>2 DEF Undisturbed
<1> QED
  BY <1>1, <1>2 DEF Undisturbed

\* A step leaves the pairing of an event alone whose lists, answers and
\* completions it leaves alone.
LEMMA PairsFrame ==
  ASSUME FifoInv, NEW e \in Event, NEW m \in Nat, Pairs(e, m),
         pending'[e] = pending[e], issued'[e] = issued[e],
         \A r \in Req : EventOf[r] = e => copies'[r] = copies[r],
         issued[e] \in Seq(Req)
  PROVE  Pairs(e, m)'
<1>1. \A i \in 1 .. Len(issued[e]) : issued[e][i] \in Req /\ EventOf[issued[e][i]] = e
  BY DEF FifoInv
<1> QED
  BY <1>1 DEF Pairs

\* The answer in turn completes the request it answers, which is the first of
\* the list, and moves the boundary by one.
LEMMA PairsInTurn ==
  ASSUME Registry, FifoInv, NEW q \in Req, EventOf[q] \notin echoes,
         Undisturbed(EventOf[q]), OnResponse(q), EventOf[q] \notin outOfTurn',
         NEW m \in Nat, Pairs(EventOf[q], m)
  PROVE  Pairs(EventOf[q], m + 1)' /\ source' = [source EXCEPT ![q] = @ \cup {q}]
<1> DEFINE e == EventOf[q]
           line == issued[e]
           list == pending[e]
<1>1. /\ e \in Event /\ line \in Seq(Req) /\ list \in Seq(Req)
      /\ Len(line) \in Nat /\ Len(list) \in Nat /\ DOMAIN line = 1 .. Len(line)
  BY SocketAssumption DEF Registry, TypeOK
<1>2. /\ m \in 0 .. Len(line) /\ Len(list) = Len(line) - m
      /\ \A j \in 1 .. Len(list) : list[j] = line[m + j]
      /\ \A i \in 1 .. Len(line) : copies[line[i]] > 0 <=> i <= m
  BY DEF Pairs
<1>3. PICK i \in 1 .. Len(line) :
        /\ line[i] = q
        /\ copies[q] = 0
        /\ \A j \in 1 .. i - 1 : copies[line[j]] > 0
  <2>1. \E i \in DOMAIN line : /\ line[i] = q
                               /\ copies[q] = 0
                               /\ \A j \in 1 .. i - 1 : copies[line[j]] > 0
    BY <1>1 DEF OnResponse, Answers
  <2> QED
    BY <1>1, <2>1
<1>4. i = m + 1
  <2>1. ~(i <= m)
    BY <1>2, <1>3
  <2>2. ~(i > m + 1)
    <3> SUFFICES ASSUME i > m + 1 PROVE FALSE
      OBVIOUS
    <3>1. m + 1 \in 1 .. i - 1 /\ m + 1 \in 1 .. Len(line) /\ ~(m + 1 <= m)
      BY <1>2
    <3> QED
      BY <1>2, <1>3, <3>1
  <2> QED
    BY <1>1, <1>2, <2>1, <2>2
<1>5. Len(list) >= 1 /\ list[1] = q /\ list # <<>> /\ 1 \in DOMAIN list
  BY <1>1, <1>2, <1>3, <1>4
<1>6. Addressee(q) = {q} /\ e \in dispatchers
  BY <1>1, <1>5 DEF Addressee, Registry, ListeningIsPending
<1>7. Complete(q, q) /\ Answers(q)
  BY <1>6 DEF OnResponse
<1>8. IsInjective(list)
  BY <1>1 DEF Registry, PendingIsWaiting
<1>9. /\ pending'[e] \in Seq(Req)
      /\ Len(pending'[e]) = Len(list) - 1
      /\ \A j \in 1 .. Len(list) - 1 : pending'[e][j] = list[j + 1]
  <2>1. 1 \in 1 .. Len(list)
    BY <1>1, <1>5
  <2>2. RemoveFirst(list, q) = RemoveAt(list, 1)
    BY <1>1, <1>5, <2>1, RemoveAtIndex
  <2>3. pending'[e] = RemoveFirst(list, q)
    BY <1>1, <1>7 DEF Complete, RemoveFromPending, Registry, TypeOK
  <2>4. /\ RemoveAt(list, 1) \in Seq(Req)
        /\ Len(RemoveAt(list, 1)) = Len(list) - 1
        /\ \A j \in 1 .. Len(list) - 1 :
             RemoveAt(list, 1)[j] = IF j < 1 THEN list[j] ELSE list[j + 1]
    BY <1>1, <2>1, RemoveAtElements
  <2> QED
    BY <2>2, <2>3, <2>4
<1>10. /\ issued'[e] = line
       /\ copies'[q] = 1
       /\ \A r \in Req \ {q} : copies'[r] = copies[r]
  BY <1>3, <1>7 DEF Answers, Registry, TypeOK
<1>11. \A k \in 1 .. Len(line) : copies'[line[k]] > 0 <=> k <= m + 1
  <2> SUFFICES ASSUME NEW k \in 1 .. Len(line)
               PROVE  copies'[line[k]] > 0 <=> k <= m + 1
    OBVIOUS
  <2>0. line[k] \in Req
    BY <1>1
  <2>1. CASE k = m + 1
    BY <1>3, <1>4, <1>10, <2>1
  <2>2. CASE k <= m
    <3>1. copies[line[k]] > 0 /\ line[k] # q
      BY <1>2, <1>3, <2>2
    <3> QED
      BY <1>10, <2>0, <2>2, <3>1
  <2>3. CASE k > m + 1
    <3>1. k - m \in 1 .. Len(list) /\ k - m # 1 /\ list[k - m] = line[m + (k - m)]
      BY <1>1, <1>2, <2>3
    <3>2. list[k - m] # list[1]
      BY <1>1, <1>5, <1>8, <3>1 DEF IsInjective
    <3>3. line[k] # q
      BY <1>5, <3>1, <3>2
    <3> QED
      BY <1>2, <1>10, <2>0, <2>3, <3>3
  <2> QED
    BY <1>1, <1>2, <2>1, <2>2, <2>3
<1>12. Pairs(e, m + 1)'
  <2>0. \A a, b, c \in Nat : c <= a /\ b = a - c /\ b >= 1 =>
          c + 1 \in 0 .. a /\ b - 1 = a - (c + 1)
    OBVIOUS
  <2>1. m + 1 \in 0 .. Len(line) /\ Len(pending'[e]) = Len(line) - (m + 1)
    <3>1. /\ Len(line) \in Nat /\ Len(list) \in Nat /\ m \in Nat /\ m <= Len(line)
          /\ Len(list) = Len(line) - m /\ Len(list) >= 1
      BY <1>1, <1>2, <1>5
    <3>2. Len(pending'[e]) = Len(list) - 1
      BY <1>9
    <3> HIDE DEF line, list
    <3>3. m + 1 \in 0 .. Len(line) /\ Len(list) - 1 = Len(line) - (m + 1)
      BY <2>0, <3>1
    <3> QED
      BY <3>2, <3>3
  <2>2. \A j \in 1 .. Len(pending'[e]) : pending'[e][j] = line[m + 1 + j]
    <3> SUFFICES ASSUME NEW j \in 1 .. Len(pending'[e])
                 PROVE  pending'[e][j] = line[m + 1 + j]
      OBVIOUS
    <3>1. j \in 1 .. Len(list) - 1 /\ j + 1 \in 1 .. Len(list) /\ m + (j + 1) = m + 1 + j
      BY <1>1, <1>9
    <3> QED
      BY <1>2, <1>9, <3>1
  <2> QED
    BY <1>10, <1>11, <2>1, <2>2 DEF Pairs
<1> QED
  BY <1>7, <1>12 DEF Complete

\* A new request is the last of both lists and has no answer.
LEMMA PairsIssued ==
  ASSUME Registry, FifoInv, NEW r \in Req, IssueRequest(r),
         NEW m \in Nat, Pairs(EventOf[r], m)
  PROVE  Pairs(EventOf[r], m)'
<1> DEFINE e == EventOf[r]
           line == issued[e]
           list == pending[e]
<1>1. /\ e \in Event /\ line \in Seq(Req) /\ list \in Seq(Req)
      /\ Len(line) \in Nat /\ Len(list) \in Nat
  BY SocketAssumption DEF Registry, TypeOK
<1>2. /\ m \in 0 .. Len(line) /\ Len(list) = Len(line) - m
      /\ \A j \in 1 .. Len(list) : list[j] = line[m + j]
      /\ \A i \in 1 .. Len(line) : copies[line[i]] > 0 <=> i <= m
  BY DEF Pairs
<1>0. /\ Len(line) \in Nat /\ Len(list) \in Nat /\ m <= Len(line)
      /\ Len(list) = Len(line) - m
  BY <1>1, <1>2
<1>3. copies' = copies /\ copies[r] = 0
  BY DEF IssueRequest, FifoInv
<1>4. issued'[e] = Append(line, r) /\ pending'[e] = Append(list, r)
  BY <1>1 DEF IssueRequest, Registry, TypeOK
<1>5. /\ Len(issued'[e]) = Len(line) + 1 /\ issued'[e][Len(line) + 1] = r
      /\ \A i \in 1 .. Len(line) : issued'[e][i] = line[i]
  BY <1>1, <1>4
<1>6. /\ Len(pending'[e]) = Len(list) + 1 /\ pending'[e][Len(list) + 1] = r
      /\ \A i \in 1 .. Len(list) : pending'[e][i] = list[i]
  BY <1>1, <1>4
<1>7. \A i \in 1 .. Len(issued'[e]) : copies'[issued'[e][i]] > 0 <=> i <= m
  <2> SUFFICES ASSUME NEW i \in 1 .. Len(line) + 1
               PROVE  copies'[issued'[e][i]] > 0 <=> i <= m
    BY <1>5
  <2>1. CASE i \in 1 .. Len(line)
    BY <1>2, <1>3, <1>5, <2>1
  <2>2. CASE i = Len(line) + 1
    BY <1>1, <1>2, <1>3, <1>5, <2>2
  <2> QED
    BY <1>1, <2>1, <2>2
<1>8. \A j \in 1 .. Len(pending'[e]) : pending'[e][j] = issued'[e][m + j]
  <2> SUFFICES ASSUME NEW j \in 1 .. Len(list) + 1
               PROVE  pending'[e][j] = issued'[e][m + j]
    BY <1>6
  <2>1. CASE j \in 1 .. Len(list)
    <3>1. m + j \in 1 .. Len(line)
      <4> HIDE DEF line, list
      <4> QED
        BY <1>0, <2>1
    <3>2. pending'[e][j] = list[j] /\ list[j] = line[m + j]
      BY <1>2, <1>6, <2>1
    <3>3. issued'[e][m + j] = line[m + j]
      BY <1>5, <3>1
    <3> QED
      BY <3>2, <3>3
  <2>2. CASE j = Len(list) + 1
    <3>1. m + j = Len(line) + 1
      <4> HIDE DEF line, list
      <4> QED
        BY <1>0, <2>2
    <3>2. pending'[e][j] = r
      BY <1>6, <2>2
    <3>3. issued'[e][m + j] = r
      BY <1>5, <3>1
    <3> QED
      BY <3>2, <3>3
  <2>3. \A n \in Nat : \A k \in 1 .. n + 1 : k \in 1 .. n \/ k = n + 1
    OBVIOUS
  <2> QED
    BY <1>1, <2>1, <2>2, <2>3
<1>9. m \in 0 .. Len(issued'[e]) /\ Len(pending'[e]) = Len(issued'[e]) - m
  <2>1. Len(issued'[e]) = Len(line) + 1 /\ Len(pending'[e]) = Len(list) + 1
    BY <1>5, <1>6
  <2> HIDE DEF line, list
  <2> QED
    BY <1>0, <2>1
<1> QED
  BY <1>7, <1>8, <1>9 DEF Pairs

\* One event in one step.
LEMMA FifoEvent ==
  ASSUME Registry, FifoInv, [Next]_vars, NEW e \in Event \ echoes, Undisturbed(e)'
  PROVE  /\ \E m \in Nat : Pairs(e, m)'
         /\ \A r \in Req : EventOf[r] = e => source'[r] \subseteq {r}
<1>1. Undisturbed(e)
  BY StaysDisturbed
<1>2. PICK m \in Nat : Pairs(e, m)
  BY <1>1 DEF FifoInv
<1>3. \A r \in Req : EventOf[r] = e => source[r] \subseteq {r}
  BY <1>1 DEF FifoInv
<1>4. issued[e] \in Seq(Req) /\ pending[e] \in Seq(Req) /\ \A r \in Req : EventOf[r] \in Event
  BY SocketAssumption DEF Registry, TypeOK
<1>5. ASSUME pending'[e] = pending[e], issued'[e] = issued[e],
             \A r \in Req : EventOf[r] = e => copies'[r] = copies[r] /\ source'[r] = source[r]
      PROVE  /\ \E k \in Nat : Pairs(e, k)'
             /\ \A r \in Req : EventOf[r] = e => source'[r] \subseteq {r}
  BY <1>2, <1>3, <1>4, <1>5, PairsFrame
<1>6. ASSUME NEW r \in Req, IssueRequest(r)
      PROVE  /\ \E k \in Nat : Pairs(e, k)'
             /\ \A q \in Req : EventOf[q] = e => source'[q] \subseteq {q}
  <2>1. copies' = copies /\ source' = source
    BY <1>6 DEF IssueRequest
  <2>2. CASE EventOf[r] = e
    BY <1>2, <1>3, <1>6, <2>1, <2>2, PairsIssued
  <2>3. CASE EventOf[r] # e
    <3>1. pending'[e] = pending[e] /\ issued'[e] = issued[e]
      BY <1>6, <2>3 DEF IssueRequest, Registry, TypeOK
    <3> QED
      BY <1>5, <2>1, <3>1
  <2> QED
    BY <2>2, <2>3
<1>7. ASSUME NEW r \in Req, Timeout(r)
      PROVE  pending'[e] = pending[e]
  <2>1. CASE EventOf[r] # e
    BY <1>4, <1>7, <2>1 DEF Timeout, Fail, RemoveFromPending, Registry, TypeOK
  <2>2. CASE EventOf[r] = e
    <3>1. stage[r] # "waiting"
      BY <1>7, <2>2 DEF Timeout, Fail, SettleWith, Undisturbed, Registry, TypeOK
    <3>2. r \notin ToSet(pending[e])
      BY <3>1 DEF Registry, PendingIsWaiting, Waiting
    <3>3. ~ \E i \in 1 .. Len(pending[e]) : pending[e][i] = r
      BY <1>4, <3>2 DEF ToSet
    <3>4. RemoveFirst(pending[e], r) = pending[e]
      BY <3>3 DEF RemoveFirst
    <3> QED
      BY <1>4, <1>7, <2>2, <3>4 DEF Timeout, Fail, RemoveFromPending, Registry, TypeOK
  <2> QED
    BY <2>1, <2>2
<1>8. ASSUME NEW q \in Req, EventOf[q] # e, OnResponse(q) \/ OnTaggedError(q)
      PROVE  /\ pending'[e] = pending[e] /\ issued'[e] = issued[e]
             /\ \A r \in Req : EventOf[r] = e => copies'[r] = copies[r] /\ source'[r] = source[r]
  <2>1. issued' = issued /\ copies' = [copies EXCEPT ![q] = @ + 1]
    BY <1>8 DEF OnResponse, OnTaggedError, Answers
  <2>2. \A r \in Req : EventOf[r] = e => copies'[r] = copies[r]
    BY <1>8, <2>1 DEF Registry, TypeOK
  <2>3. CASE Ignored
    BY <2>1, <2>2, <2>3 DEF Ignored
  <2>4. CASE Fail(q, "failed")
    BY <1>4, <1>8, <2>1, <2>2, <2>4 DEF Fail, RemoveFromPending, Registry, TypeOK
  <2>5. CASE \E r \in Addressee(q) : Complete(r, q)
    <3> PICK r \in Addressee(q) : Complete(r, q)
      BY <2>5
    <3>1. r \in Req /\ EventOf[r] = EventOf[q]
      BY AddresseePending DEF Waiting
    <3> QED
      BY <1>4, <1>8, <2>1, <2>2, <3>1 DEF Complete, RemoveFromPending, Registry, TypeOK
  <2> QED
    BY <1>8, <2>3, <2>4, <2>5 DEF OnResponse, OnTaggedError
<1>9. ASSUME NEW q \in Req, EventOf[q] = e, OnResponse(q)
      PROVE  /\ \E k \in Nat : Pairs(e, k)'
             /\ \A r \in Req : EventOf[r] = e => source'[r] \subseteq {r}
  <2>1. Pairs(e, m + 1)' /\ source' = [source EXCEPT ![q] = @ \cup {q}]
    BY <1>1, <1>2, <1>9, PairsInTurn DEF Undisturbed
  <2> QED
    BY <1>3, <2>1 DEF Registry, TypeOK
<1>10. ASSUME NEW f \in Event, OnUntaggedError(f)
       PROVE  pending'[e] = pending[e]
  <2>1. f # e
    <3> SUFFICES ASSUME f = e PROVE FALSE
      OBVIOUS
    <3>1. pending[e] # <<>>
      BY <1>10 DEF OnUntaggedError
    <3>2. PICK r \in Req : r \in ToSet(pending[e])
      <4>1. pending[e][1] \in Req /\ 1 \in DOMAIN pending[e]
        BY <1>4, <3>1
      <4> QED
        BY <4>1 DEF ToSet
    <3>3. EventOf[r] = e
      BY <3>2 DEF Registry, PendingIsWaiting, Waiting
    <3>4. stage'[r] = "failed"
      BY <1>10, <3>2 DEF OnUntaggedError
    <3> QED
      BY <3>3, <3>4 DEF Undisturbed
  <2> QED
    BY <1>10, <2>1 DEF OnUntaggedError, Registry, TypeOK
<1>11. CASE \E r \in Req : EmitSigned(r) \/ Resume(r)
  BY <1>5, <1>11 DEF EmitSigned, Resume
<1>12. CASE \E r \in Req : Timeout(r)
  BY <1>5, <1>7, <1>12 DEF Timeout, Fail
<1>13. CASE \E q \in Req : OnTaggedError(q)
  <2>1. \A q \in Req : OnTaggedError(q) => EventOf[q] # e
    BY DEF OnTaggedError
  <2> QED
    BY <1>5, <1>8, <1>13, <2>1
<1>14. CASE \E f \in Event : OnUntaggedError(f)
  BY <1>5, <1>10, <1>14 DEF OnUntaggedError
<1>15. CASE UNCHANGED vars
  BY <1>5, <1>15 DEF vars
<1> QED
  BY <1>5, <1>6, <1>8, <1>9, <1>11, <1>12, <1>13, <1>14, <1>15 DEF Next

LEMMA FifoStep == Registry /\ FifoInv /\ [Next]_vars => FifoInv'
<1> SUFFICES ASSUME Registry, FifoInv, [Next]_vars PROVE FifoInv'
  OBVIOUS
<1>1. \A r \in Req : /\ stage'[r] = "new" => emitted'[r] = "no"
                     /\ emitted'[r] = "no" => copies'[r] = 0
  <2> SUFFICES ASSUME NEW r \in Req
               PROVE  /\ stage'[r] = "new" => emitted'[r] = "no"
                      /\ emitted'[r] = "no" => copies'[r] = 0
    OBVIOUS
  <2>1. stage'[r] = "new" => stage[r] = "new" /\ emitted'[r] = emitted[r]
    <3>1. ASSUME NEW q \in Req, IssueRequest(q) \/ EmitSigned(q)
          PROVE  stage'[r] = "new" => stage[r] = "new" /\ emitted'[r] = emitted[r]
      BY <3>1 DEF IssueRequest, EmitSigned, Registry, TypeOK, FifoInv
    <3>2. ASSUME NEW q \in Req, Resume(q) \/ Timeout(q)
          PROVE  stage'[r] = "new" => stage[r] = "new" /\ emitted'[r] = emitted[r]
      BY <3>2 DEF Resume, Timeout, Fail, SettleWith, Registry, TypeOK
    <3>3. ASSUME NEW q \in Req, OnResponse(q) \/ OnTaggedError(q)
          PROVE  stage'[r] = "new" => stage[r] = "new" /\ emitted'[r] = emitted[r]
      BY <3>3 DEF OnResponse, OnTaggedError, Answers, Fail, Complete, Ignored, SettleWith,
           Registry, TypeOK
    <3>4. ASSUME NEW e \in Event, OnUntaggedError(e)
          PROVE  stage'[r] = "new" => stage[r] = "new" /\ emitted'[r] = emitted[r]
      BY <3>4 DEF OnUntaggedError, Answers, Fail, Ignored, SettleWith, Registry, TypeOK
    <3> QED
      BY <3>1, <3>2, <3>3, <3>4 DEF Next, vars
  <2>2. emitted'[r] = "no" => emitted[r] = "no" /\ copies'[r] = copies[r]
    BY DEF Next, vars, IssueRequest, EmitSigned, Resume, Timeout, OnResponse,
         OnTaggedError, OnUntaggedError, Answers, Registry, TypeOK
  <2> QED
    BY <2>1, <2>2 DEF FifoInv
<1>2. \A e \in Event : \A i \in 1 .. Len(issued'[e]) : EventOf[issued'[e][i]] = e
  <2>1. CASE issued' = issued
    BY <2>1 DEF FifoInv
  <2>2. CASE \E r \in Req : IssueRequest(r)
    <3> PICK r \in Req : IssueRequest(r)
      BY <2>2
    <3> SUFFICES ASSUME NEW e \in Event, NEW i \in 1 .. Len(issued'[e])
                 PROVE  EventOf[issued'[e][i]] = e
      OBVIOUS
    <3>1. issued[e] \in Seq(Req) /\ issued'[e] \in {issued[e], Append(issued[e], r)}
          /\ (e # EventOf[r] => issued'[e] = issued[e])
      BY DEF IssueRequest, Registry, TypeOK
    <3>2. CASE issued'[e] = issued[e]
      BY <3>2 DEF FifoInv
    <3>3. CASE issued'[e] = Append(issued[e], r) /\ e = EventOf[r]
      <4>1. i \in 1 .. Len(issued[e]) \/ i = Len(issued[e]) + 1
        BY <3>1, <3>3
      <4> QED
        BY <3>1, <3>3, <4>1 DEF FifoInv
    <3> QED
      BY <3>1, <3>2, <3>3
  <2> QED
    BY <2>1, <2>2 DEF Next, vars, EmitSigned, Resume, Timeout, OnResponse,
         OnTaggedError, OnUntaggedError, Answers
<1> QED
  BY <1>1, <1>2, FifoEvent, SameServer DEF FifoInv

\* Without request IDs the pairing is right as long as the server answers each
\* request of the event once and in order and none of them was given up
\* (socket.ts:160): the one condition under which an older server is safe.
THEOREM FifoPaired == Spec => []FifoPairing
<1>1. FifoInv /\ TaggedPairing => FifoPairing
  BY SocketAssumption DEF FifoInv, TaggedPairing, FifoPairing
<1> QED
  BY <1>1, FifoInit, FifoStep, TaggedPaired, Inductive, PTL DEF Spec

-----------------------------------------------------------------------------
(* The contract of an asynchronous call.                                   *)

\* A step that issues no request, settles open ones only and changes nothing
\* about a settled one is a step of the contract, or none.
LEMMA SettlesOpen ==
  ASSUME \A r \in Req :
           /\ stage[r] \in Settled => stage'[r] = stage[r]
           /\ stage[r] \in {"waiting", "answered"} =>
                stage'[r] \in {"waiting", "answered"} \cup Settled
           /\ stage[r] \notin {"waiting", "answered"} \cup Settled =>
                stage'[r] = stage[r]
  PROVE  [Contract!Next]_<<OpenCalls, Outcome>>
<1> DEFINE R == {r \in Req : /\ stage[r] \in {"waiting", "answered"}
                             /\ stage'[r] \in Settled}
<1>1. R \subseteq OpenCalls /\ OpenCalls' = OpenCalls \ R
  BY DEF OpenCalls, Settled
<1>2. /\ {r \in Req : stage'[r] \in Settled} = {r \in Req : stage[r] \in Settled} \cup R
      /\ {r \in Req : stage[r] \in Settled} \cap R = {}
  BY DEF Settled
<1>3. CASE R = {}
  <2>1. Outcome' = Outcome
    BY <1>2, <1>3 DEF Outcome
  <2> QED
    BY <1>1, <1>3, <2>1
<1>4. CASE R # {}
  <2> DEFINE a == [r \in R |-> stage'[r]]
  <2>1. a \in [R -> Settled]
    OBVIOUS
  <2>2. Outcome' = [r \in DOMAIN Outcome \cup R |->
                      IF r \in R THEN a[r] ELSE Outcome[r]]
    BY <1>2 DEF Outcome
  <2>3. Contract!Settle(R)
    BY <1>1, <1>4, <2>1, <2>2 DEF Contract!Settle, Contract!Settled
  <2>4. R \in SUBSET Req
    OBVIOUS
  <2> QED
    BY <2>3, <2>4 DEF Contract!Next
<1> QED
  BY <1>3, <1>4

\* Issuing a request is the contract's call.
LEMMA IssueRequestCalls ==
  ASSUME TypeOK, NEW r \in Req, IssueRequest(r)
  PROVE  Contract!Next
<1>1. \A q \in Req : stage'[q] = IF q = r THEN "waiting" ELSE stage[q]
  BY DEF IssueRequest, TypeOK
<1>2. stage[r] = "new"
  BY DEF IssueRequest
<1>3. OpenCalls' = OpenCalls \cup {r} /\ r \notin OpenCalls
  BY <1>1, <1>2 DEF OpenCalls
<1>4. Outcome' = Outcome /\ r \notin DOMAIN Outcome
  <2>1. /\ {q \in Req : stage'[q] \in Settled} = {q \in Req : stage[q] \in Settled}
        /\ \A q \in Req : stage[q] \in Settled => stage'[q] = stage[q]
    BY <1>1, <1>2 DEF Settled
  <2> QED
    BY <1>2, <2>1 DEF Outcome, Settled
<1>5. Contract!Call(r)
  BY <1>3, <1>4 DEF Contract!Call, Contract!Settled
<1> QED
  BY <1>5 DEF Contract!Next

\* Every behaviour of the registry is one of the contract: a request is settled
\* at most once, and a late response, error or timer changes nothing about it.
THEOREM KeepsContract == Spec => ImplementsContract
<1>1. Init => Contract!Init
  <2> SUFFICES ASSUME Init
               PROVE  Contract!Init
    OBVIOUS
  <2>1. OpenCalls = {} /\ {r \in Req : stage[r] \in Settled} = {}
    BY DEF Init, OpenCalls, Settled
  <2>2. Outcome = [r \in {} |-> r]
    BY <2>1 DEF Outcome
  <2> QED
    BY <2>1, <2>2 DEF Contract!Init
<1>2. ASSUME Registry, [Next]_vars
      PROVE  [Contract!Next]_<<OpenCalls, Outcome>>
  <2>1. ASSUME NEW r \in Req, IssueRequest(r)
        PROVE  Contract!Next
    BY <1>2, <2>1, IssueRequestCalls DEF Registry
  <2>2. CASE ~\E r \in Req : IssueRequest(r)
    <3> SUFFICES ASSUME NEW r \in Req
                 PROVE  /\ stage[r] \in Settled => stage'[r] = stage[r]
                        /\ stage[r] \in {"waiting", "answered"} =>
                             stage'[r] \in {"waiting", "answered"} \cup Settled
                        /\ stage[r] \notin {"waiting", "answered"} \cup Settled =>
                             stage'[r] = stage[r]
      BY SettlesOpen
    <3>1. \/ UNCHANGED stage
          \/ \E p \in Req, s \in {"answered", "failed", "timedOut"} : SettleWith(p, s)
          \/ \E p \in Req : Resume(p)
          \/ \E e \in Event : OnUntaggedError(e)
      <4>1. ASSUME NEW p \in Req, EmitSigned(p)
            PROVE  UNCHANGED stage
        BY <4>1 DEF EmitSigned
      <4>2. ASSUME NEW p \in Req, Timeout(p)
            PROVE  SettleWith(p, "timedOut")
        BY <4>2 DEF Timeout, Fail
      <4>3. ASSUME NEW q \in Req, OnResponse(q)
            PROVE  UNCHANGED stage \/ \E p \in Req : SettleWith(p, "answered")
        <5>1. CASE Ignored
          BY <5>1 DEF Ignored
        <5>2. CASE \E p \in Addressee(q) : Complete(p, q)
          BY <1>2, <5>2, AddresseePending DEF Complete, Waiting
        <5> QED
          BY <4>3, <5>1, <5>2 DEF OnResponse
      <4>4. ASSUME NEW q \in Req, OnTaggedError(q)
            PROVE  UNCHANGED stage \/ SettleWith(q, "failed")
        <5>1. CASE Ignored
          BY <5>1 DEF Ignored
        <5>2. CASE Fail(q, "failed")
          BY <5>2 DEF Fail
        <5> QED
          BY <4>4, <5>1, <5>2 DEF OnTaggedError
      <4>5. CASE UNCHANGED vars
        BY <4>5 DEF vars
      <4> QED
        BY <1>2, <2>2, <4>1, <4>2, <4>3, <4>4, <4>5 DEF Next
    <3>2. ASSUME NEW p \in Req, NEW s \in {"answered", "failed", "timedOut"},
                 SettleWith(p, s)
          PROVE  stage'[r] = stage[r] \/ (stage[r] = "waiting" /\ stage'[r] = s)
      BY <1>2, <3>2 DEF SettleWith, Registry, TypeOK
    <3>3. ASSUME NEW p \in Req, Resume(p)
          PROVE  \/ stage'[r] = stage[r]
                 \/ stage[r] = "answered" /\ stage'[r] \in {"used", "mismatch"}
      BY <1>2, <3>3 DEF Resume, Registry, TypeOK
    <3>4. ASSUME NEW e \in Event, OnUntaggedError(e)
          PROVE  stage'[r] = stage[r] \/ (stage[r] = "waiting" /\ stage'[r] = "failed")
      <4>1. r \in ToSet(pending[e]) => stage[r] = "waiting"
        BY <1>2 DEF Registry, PendingIsWaiting, Waiting
      <4> QED
        BY <3>4, <4>1 DEF OnUntaggedError
    <3> QED
      BY <3>1, <3>2, <3>3, <3>4 DEF Settled
  <2> QED
    BY <2>1, <2>2
<1> QED
  BY <1>1, <1>2, Inductive, PTL
  DEF Spec, ImplementsContract, Contract!Spec, Contract!vars

=============================================================================
