--------------------------- MODULE SignSession_proofs ---------------------------
(***************************************************************************)
(* Proofs about SignSession: its type invariant, and that overlapping      *)
(* calls which finish in the reverse order of their saves leave the host's *)
(* fetch and base URL as they were, for any number of calls and clients.   *)
(***************************************************************************)
EXTENDS SignSession, SequenceTheorems, TLAPS

LEMMA CallType ==
  ASSUME NEW c \in Call
  PROVE  /\ ClientOf[c] \in Client
         /\ Home # Nobody /\ Nobody \notin Client /\ Nobody \notin Call
BY SessionAssumption

\* Taking one element out of a sequence.
LEMMA TakenOut ==
  ASSUME NEW S, NEW s \in Seq(S), NEW i \in 1 .. Len(s)
  PROVE  /\ RemoveAt(s, i) \in Seq(S)
         /\ Len(RemoveAt(s, i)) = Len(s) - 1
         /\ \A j \in 1 .. Len(s) - 1 :
              RemoveAt(s, i)[j] = IF j < i THEN s[j] ELSE s[j + 1]
<1> DEFINE a == SubSeq(s, 1, i - 1)
           b == SubSeq(s, i + 1, Len(s))
<1>1. a \in Seq(S) /\ Len(a) = i - 1 /\ \A j \in 1 .. i - 1 : a[j] = s[j]
  BY SubSeqProperties
<1>2. b \in Seq(S) /\ Len(b) = Len(s) - i /\ \A j \in 1 .. Len(s) - i : b[j] = s[i + j]
  BY SubSeqProperties
<1> HIDE DEF a, b
<1>3. a \o b \in Seq(S) /\ Len(a \o b) = Len(a) + Len(b)
  BY <1>1, <1>2, ConcatProperties
<1>4. Len(a \o b) = Len(s) - 1
  BY <1>1, <1>2, <1>3
<1>5. ASSUME NEW j \in 1 .. Len(s) - 1
      PROVE  (a \o b)[j] = IF j < i THEN s[j] ELSE s[j + 1]
  <2>1. CASE j < i
    BY <1>1, <1>2, <2>1
  <2>2. CASE ~(j < i)
    <3>1. j - Len(a) \in 1 .. Len(s) - i /\ i + (j - Len(a)) = j + 1
      BY <1>1, <2>2
    <3>2. (a \o b)[j] = b[j - Len(a)]
      BY <1>1, <1>2, <2>2
    <3> QED
      BY <1>2, <2>2, <3>1, <3>2
  <2> QED
    BY <2>1, <2>2
<1> QED
  BY <1>3, <1>4, <1>5 DEF RemoveAt, a, b

-----------------------------------------------------------------------------
LEMMA CloseType ==
  ASSUME TypeOK, NEW c \in Call, Close(c)
  PROVE  open' \in Seq(Call) /\ order' \in {"serial", "nested", "crossed"}
BY TakenOut DEF Close, TypeOK

LEMMA SaveType ==
  ASSUME TypeOK, NEW c \in Call, SaveAndSetUrl(c)
  PROVE  /\ priorUrl' \in [Call -> Client \cup {Home}]
         /\ baseUrl' \in Client \cup {Home}
         /\ baseFetch' \in [Call -> Seq(Call)]
         /\ open' \in Seq(Call)
BY CallType DEF SaveAndSetUrl, TypeOK

LEMMA TypeInit == Init => TypeOK
<1> SUFFICES ASSUME Init PROVE TypeOK
  OBVIOUS
<1>1. Home \in Client \cup {Home} /\ Nobody \in Call \cup {Nobody} /\ 0 \in 0 .. MaxThrows
  BY SessionAssumption
<1>2. <<>> \in Seq(Call)
  OBVIOUS
<1> QED
  BY <1>1, <1>2 DEF Init, TypeOK, Pc

LEMMA TypeStep == TypeOK /\ [Next]_vars => TypeOK'
<1> SUFFICES ASSUME TypeOK, [Next]_vars PROVE TypeOK'
  OBVIOUS
<1>1. ASSUME NEW c \in Call, NEW next \in Pc, GoTo(c, next)
      PROVE  pc' \in [Call -> Pc]
  BY <1>1 DEF GoTo, TypeOK
<1>2. ASSUME NEW c \in Call, Begin(c) PROVE TypeOK'
  <2>1. pc' \in [Call -> Pc]
    BY <1>1, <1>2 DEF Begin, Pc
  <2> QED
    BY <1>2, <2>1, CallType DEF Begin, MayStart, TypeOK
<1>3. ASSUME NEW c \in Call, Preflight(c) PROVE TypeOK'
  <2>1. pc' \in [Call -> Pc]
    BY <1>1, <1>3 DEF Preflight, Pc
  <2> QED
    BY <1>3, <2>1 DEF Preflight, TypeOK
<1>4. ASSUME NEW c \in Call, Prefetched(c) PROVE TypeOK'
  <2>1. pc' \in [Call -> Pc]
    BY <1>1, <1>4 DEF Prefetched, Pc
  <2> QED
    BY <1>4, <2>1, SaveType DEF Prefetched, TypeOK
<1>5. ASSUME NEW c \in Call, InstallFetch(c) PROVE TypeOK'
  <2>1. pc' \in [Call -> Pc]
    BY <1>1, <1>5 DEF InstallFetch, Pc
  <2>2. fetch' \in Seq(Call)
    BY <1>5 DEF InstallFetch, TypeOK
  <2> QED
    BY <1>5, <2>1, <2>2 DEF InstallFetch, TypeOK
<1>6. ASSUME NEW c \in Call, CallWasm(c) PROVE TypeOK'
  <2>1. pc' \in [Call -> Pc]
    BY <1>1, <1>6 DEF CallWasm, Pc
  <2> QED
    BY <1>6, <2>1, SessionAssumption DEF CallWasm, TypeOK
<1>7. ASSUME NEW c \in Call, ThrowEarly(c) PROVE TypeOK'
  <2>1. pc' \in [Call -> Pc]
    BY <1>1, <1>7 DEF ThrowEarly, Pc
  <2>2. throws' \in 0 .. MaxThrows
    BY <1>7, SessionAssumption DEF ThrowEarly, TypeOK
  <2> QED
    BY <1>7, <2>1, <2>2 DEF ThrowEarly, globals, TypeOK
<1>8. ASSUME NEW c \in Call, BeginVerify(c) PROVE TypeOK'
  <2>1. pc' \in [Call -> Pc]
    BY <1>1, <1>8 DEF BeginVerify, Pc
  <2>2. fetch' \in Seq(Call)
    BY <1>8 DEF BeginVerify, TypeOK
  <2> QED
    BY <1>8, <2>1, <2>2, SaveType DEF BeginVerify, MayStart, TypeOK
<1>9. ASSUME NEW c \in Call, Finally(c) PROVE TypeOK'
  <2>1. pc' \in [Call -> Pc]
    BY <1>1, <1>9 DEF Finally, Pc
  <2>2. open' \in Seq(Call) /\ order' \in {"serial", "nested", "crossed"}
    BY <1>9, CloseType DEF Finally
  <2>3. prove' \in BOOLEAN
    BY <1>9 DEF Finally, TypeOK
  <2>4. covenant' \in Call \cup {Nobody}
    BY <1>9 DEF Finally, TypeOK
  <2> QED
    BY <1>9, <2>1, <2>2, <2>3, <2>4 DEF Finally, TypeOK
<1>10. ASSUME NEW k \in Client, Disconnect(k) PROVE TypeOK'
  BY <1>10 DEF Disconnect, TypeOK
<1>11. CASE UNCHANGED vars
  BY <1>11 DEF vars, globals, TypeOK
<1> QED
  BY <1>2, <1>3, <1>4, <1>5, <1>6, <1>7, <1>8, <1>9, <1>10, <1>11 DEF Next

\* Type correctness of the signing environment.
THEOREM TypeCorrect == Spec => []TypeOK
BY TypeInit, TypeStep, PTL DEF Spec

-----------------------------------------------------------------------------
(* Calls that nest restore the host's values.  The first open call is the  *)
(* one that saved them; while nobody crosses, the last open call goes      *)
(* first, so the first one goes last and puts them back.                   *)

Bottom(c) == baseFetch[c] = <<>> /\ priorUrl[c] = Home

\* The stack of open calls: each saved once and is past its save; a call that
\* may still restore is on it.
Stacked ==
  /\ \A i, j \in 1 .. Len(open) : open[i] = open[j] => i = j
  /\ \A i \in 1 .. Len(open) : pc[open[i]] \in {"popKey", "init", "wasm", "done"}
  /\ \A c \in Call : pc[c] \in {"popKey", "init", "wasm"} =>
       \E i \in 1 .. Len(open) : open[i] = c

Unwound ==
  order # "crossed" =>
    /\ open = <<>> => fetch = <<>> /\ baseUrl = Home
    /\ open # <<>> => Bottom(open[1])

NestInv == TypeOK /\ Stacked /\ Unwound

LEMMA NestInit == Init => NestInv
<1> SUFFICES ASSUME Init PROVE NestInv
  OBVIOUS
<1> QED
  BY TypeInit DEF Init, NestInv, Stacked, Unwound

\* A save pushes the call on the stack, at the bottom of an empty one.
LEMMA SaveNest ==
  ASSUME NestInv, NEW c \in Call, SaveAndSetUrl(c),
         order' # "crossed" => order # "crossed",
         pc[c] \in {"idle", "covenant"},
         \E next \in {"popKey", "wasm"} : GoTo(c, next)
  PROVE  Stacked' /\ Unwound'
<1>1. /\ open \in Seq(Call) /\ Len(open) \in Nat
      /\ open' = Append(open, c) /\ open' \in Seq(Call)
      /\ Len(open') = Len(open) + 1
      /\ open'[Len(open) + 1] = c
      /\ \A i \in 1 .. Len(open) : open'[i] = open[i] /\ open[i] \in Call
  BY DEF SaveAndSetUrl, NestInv, TypeOK
<1>2. /\ \A d \in Call \ {c} : pc'[d] = pc[d]
      /\ pc'[c] \in {"popKey", "wasm"}
  BY DEF GoTo, NestInv, TypeOK
<1>3. \A i \in 1 .. Len(open) : open[i] # c
  BY <1>1 DEF NestInv, Stacked
<1>4. Stacked'
  <2>1. \A i, j \in 1 .. Len(open') : open'[i] = open'[j] => i = j
    BY <1>1, <1>3 DEF NestInv, Stacked
  <2>2. \A i \in 1 .. Len(open') : pc'[open'[i]] \in {"popKey", "init", "wasm", "done"}
    BY <1>1, <1>2, <1>3 DEF NestInv, Stacked
  <2>3. ASSUME NEW d \in Call, pc'[d] \in {"popKey", "init", "wasm"}
        PROVE  \E i \in 1 .. Len(open') : open'[i] = d
    BY <1>1, <1>2, <2>3 DEF NestInv, Stacked
  <2> QED
    BY <2>1, <2>2, <2>3 DEF Stacked
<1>5. Unwound'
  <2>1. open' # <<>>
    BY <1>1
  <2>2. CASE open = <<>>
    <3>1. open'[1] = c
      BY <1>1, <2>2
    <3>2. order # "crossed" => baseFetch'[c] = <<>> /\ priorUrl'[c] = Home
      BY <2>2 DEF SaveAndSetUrl, NestInv, TypeOK, Unwound
    <3> QED
      BY <2>1, <3>1, <3>2 DEF Unwound, Bottom
  <2>3. CASE open # <<>>
    <3>1. 1 \in 1 .. Len(open)
      BY <1>1, <2>3
    <3>2. open'[1] = open[1] /\ open[1] # c /\ open[1] \in Call
      BY <1>1, <1>3, <3>1
    <3>3. baseFetch'[open[1]] = baseFetch[open[1]] /\ priorUrl'[open[1]] = priorUrl[open[1]]
      BY <3>2 DEF SaveAndSetUrl, NestInv, TypeOK
    <3> QED
      BY <2>1, <2>3, <3>2, <3>3 DEF NestInv, Unwound, Bottom
  <2> QED
    BY <2>2, <2>3
<1> QED
  BY <1>4, <1>5

\* The finally block takes its call off the stack; the one that was at the
\* bottom leaves what the host had.
LEMMA FinallyNest ==
  ASSUME NestInv, NEW c \in Call, Finally(c)
  PROVE  Stacked' /\ Unwound'
<1>1. PICK k \in 1 .. Len(open) :
        /\ open[k] = c
        /\ open' = RemoveAt(open, k)
        /\ order' = IF k = Len(open) THEN order ELSE "crossed"
  <2>1. open \in Seq(Call) /\ DOMAIN open = 1 .. Len(open)
    BY DEF NestInv, TypeOK
  <2>2. Close(c)
    BY DEF Finally
  <2> QED
    BY <2>1, <2>2 DEF Close
<1>2. /\ open \in Seq(Call) /\ Len(open) \in Nat
      /\ open' \in Seq(Call)
      /\ Len(open') = Len(open) - 1
      /\ \A j \in 1 .. Len(open) - 1 : open'[j] = IF j < k THEN open[j] ELSE open[j + 1]
      /\ \A j \in 1 .. Len(open) : open[j] \in Call
  <2>1. open \in Seq(Call)
    BY DEF NestInv, TypeOK
  <2>2. /\ RemoveAt(open, k) \in Seq(Call)
        /\ Len(RemoveAt(open, k)) = Len(open) - 1
        /\ \A j \in 1 .. Len(open) - 1 :
             RemoveAt(open, k)[j] = IF j < k THEN open[j] ELSE open[j + 1]
    BY <2>1, TakenOut
  <2>3. Len(open) \in Nat /\ \A j \in 1 .. Len(open) : open[j] \in Call
    BY <2>1
  <2>4. open' = RemoveAt(open, k)
    BY <1>1
  <2> QED
    BY <2>1, <2>2, <2>3, <2>4
<1>3. /\ \A d \in Call \ {c} : pc'[d] = pc[d]
      /\ pc'[c] = "done"
  BY DEF Finally, GoTo, NestInv, TypeOK
<1>4. \A i, j \in 1 .. Len(open) : open[i] = open[j] => i = j
  BY DEF NestInv, Stacked
<1>5. Stacked'
  <2>1. ASSUME NEW i \in 1 .. Len(open'), NEW j \in 1 .. Len(open'), open'[i] = open'[j]
        PROVE  i = j
    <3> DEFINE I == IF i < k THEN i ELSE i + 1
               J == IF j < k THEN j ELSE j + 1
    <3>1. I \in 1 .. Len(open) /\ J \in 1 .. Len(open) /\ open[I] = open[J]
      BY <1>2, <2>1
    <3>2. I = J
      BY <1>4, <3>1
    <3> QED
      BY <3>2
  <2>2. ASSUME NEW i \in 1 .. Len(open')
        PROVE  pc'[open'[i]] \in {"popKey", "init", "wasm", "done"}
    <3> DEFINE I == IF i < k THEN i ELSE i + 1
    <3>1. I \in 1 .. Len(open) /\ open'[i] = open[I]
      BY <1>2
    <3> QED
      BY <1>2, <1>3, <3>1 DEF NestInv, Stacked
  <2>3. ASSUME NEW d \in Call, pc'[d] \in {"popKey", "init", "wasm"}
        PROVE  \E i \in 1 .. Len(open') : open'[i] = d
    <3>1. d # c /\ pc[d] = pc'[d]
      BY <1>3, <2>3
    <3>2. PICK j \in 1 .. Len(open) : open[j] = d
      BY <2>3, <3>1 DEF NestInv, Stacked
    <3>3. j # k
      BY <1>1, <3>1, <3>2
    <3>4. CASE j < k
      <4>1. j \in 1 .. Len(open') /\ open'[j] = d
        BY <1>2, <3>2, <3>4
      <4> QED
        BY <4>1
    <3>5. CASE j > k
      <4>1. j - 1 \in 1 .. Len(open') /\ open'[j - 1] = d
        BY <1>2, <3>2, <3>5
      <4> QED
        BY <4>1
    <3> QED
      BY <3>3, <3>4, <3>5
  <2> QED
    BY <2>1, <2>2, <2>3 DEF Stacked
<1>6. Unwound'
  <2> SUFFICES ASSUME order' # "crossed"
               PROVE  /\ open' = <<>> => fetch' = <<>> /\ baseUrl' = Home
                      /\ open' # <<>> => Bottom(open[1])'
    BY DEF Unwound, Bottom
  <2>1. order # "crossed" /\ k = Len(open)
    BY <1>1
  <2>2. open # <<>> /\ Bottom(open[1])
    BY <1>1, <1>2, <2>1 DEF NestInv, Unwound
  <2>3. fetch' = baseFetch[c] /\ baseUrl' = priorUrl[c]
        /\ UNCHANGED <<baseFetch, priorUrl>>
    BY DEF Finally
  <2>4. CASE open' = <<>>
    <3>1. Len(open) = 1
      BY <1>2, <2>4
    <3> QED
      BY <1>1, <2>1, <2>2, <2>3, <2>4, <3>1 DEF Bottom
  <2>5. CASE open' # <<>>
    <3>1. 1 \in 1 .. Len(open) - 1
      BY <1>2, <2>5
    <3>2. open'[1] = open[1]
      BY <1>2, <2>1, <3>1
    <3> QED
      BY <2>2, <2>3, <2>5, <3>2 DEF Bottom
  <2> QED
    BY <2>4, <2>5
<1> QED
  BY <1>5, <1>6

LEMMA NestStep == NestInv /\ [Next]_vars => NestInv'
<1> SUFFICES ASSUME NestInv, [Next]_vars PROVE NestInv'
  OBVIOUS
<1>1. TypeOK'
  BY TypeStep DEF NestInv
<1>2. ASSUME NEW c \in Call, NEW next \in Pc, GoTo(c, next),
             UNCHANGED <<fetch, baseUrl, baseFetch, priorUrl, open>>,
             order' # "crossed" => order # "crossed",
             next \in {"popKey", "init", "wasm"} => pc[c] \in {"popKey", "init", "wasm"},
             pc[c] \in {"popKey", "init", "wasm"} => next \in {"popKey", "init", "wasm", "done"},
             pc[c] # "done"
      PROVE  Stacked' /\ Unwound'
  <2>1. /\ \A d \in Call \ {c} : pc'[d] = pc[d]
        /\ pc'[c] = next
    BY <1>2 DEF GoTo, NestInv, TypeOK
  <2>2. \A i \in 1 .. Len(open) : open[i] \in Call
    BY DEF NestInv, TypeOK
  <2>3. Stacked'
    BY <1>2, <2>1, <2>2 DEF NestInv, Stacked
  <2> QED
    BY <1>2, <2>3 DEF NestInv, Unwound, Bottom
<1>3. ASSUME NEW c \in Call, Begin(c) \/ Preflight(c) PROVE Stacked' /\ Unwound'
  BY <1>2, <1>3 DEF Begin, Preflight, MayStart, Pc
<1>4. ASSUME NEW c \in Call, CallWasm(c) \/ ThrowEarly(c) PROVE Stacked' /\ Unwound'
  BY <1>2, <1>4 DEF CallWasm, ThrowEarly, globals, Pc
<1>5. ASSUME NEW c \in Call, Prefetched(c) PROVE Stacked' /\ Unwound'
  BY <1>5, SaveNest DEF Prefetched
<1>6. ASSUME NEW c \in Call, BeginVerify(c) PROVE Stacked' /\ Unwound'
  BY <1>6, SaveNest DEF BeginVerify, MayStart
<1>7. ASSUME NEW c \in Call, InstallFetch(c) PROVE Stacked' /\ Unwound'
  <2>1. /\ \A d \in Call \ {c} : pc'[d] = pc[d]
        /\ pc'[c] = "init" /\ pc[c] = "popKey"
        /\ UNCHANGED <<baseUrl, baseFetch, priorUrl, open, order>>
    BY <1>7 DEF InstallFetch, GoTo, NestInv, TypeOK
  <2>2. open # <<>> /\ \A i \in 1 .. Len(open) : open[i] \in Call
    BY <2>1 DEF NestInv, Stacked, TypeOK
  <2>3. Stacked'
    BY <2>1, <2>2 DEF NestInv, Stacked
  <2> QED
    BY <2>1, <2>2, <2>3 DEF NestInv, Unwound, Bottom
<1>8. ASSUME NEW c \in Call, Finally(c) PROVE Stacked' /\ Unwound'
  BY <1>8, FinallyNest
<1>9. ASSUME NEW k \in Client, Disconnect(k) PROVE Stacked' /\ Unwound'
  BY <1>9 DEF Disconnect, NestInv, Stacked, Unwound, Bottom
<1>10. CASE UNCHANGED vars
  <2>1. UNCHANGED <<pc, open, order, fetch, baseUrl, baseFetch, priorUrl>>
    BY <1>10 DEF vars, globals
  <2> QED
    <3>1. Stacked'
      BY <2>1 DEF NestInv, Stacked
    <3>2. Unwound'
      BY <2>1 DEF NestInv, Unwound, Bottom
    <3> QED
      BY <1>1, <3>1, <3>2 DEF NestInv
<1> QED
  BY <1>1, <1>3, <1>4, <1>5, <1>6, <1>7, <1>8, <1>9, <1>10 DEF Next, NestInv

\* Overlapping calls that finish in the reverse order of their saves put the
\* host's fetch and base URL back (the finally blocks of signPSBT,
\* authorizePSBT and verifyPSBT), however many there are and on whatever
\* clients.
THEOREM NestedRestore == Spec => []RestoredIfNested
<1>1. NestInv => RestoredIfNested
  BY DEF NestInv, Unwound, RestoredIfNested
<1> QED
  BY <1>1, NestInit, NestStep, PTL DEF Spec

-----------------------------------------------------------------------------
(* Calls that follow each other.  One call at a time is under way: what it *)
(* has set up at each await is its own, and, while no call threw before    *)
(* its try block, what it has saved is what the host had.                  *)

Alone == \A c, d \in Call : Running(c) /\ Running(d) => c = d

\* What a running call that is alone finds in the globals it has set.
OwnAt(c) ==
  /\ c \in Verify => pc[c] = "wasm"
  /\ c \in Sign => musigSocket \in {ClientOf[c], Nobody}
  /\ pc[c] \in {"covenant", "popKey", "init", "wasm"} /\ c \notin Verify => covenant = c
  /\ pc[c] \in {"popKey", "init", "wasm"} => baseUrl = ClientOf[c]
  /\ pc[c] \in {"init", "wasm"} => fetch # <<>> /\ Head(fetch) = c
  /\ pc[c] = "wasm" /\ c \notin Verify => prove = Pooled

\* What it will put back, and what it has not touched yet.
CleanAt(c) ==
  /\ pc[c] = "preflight" => Restored
  /\ pc[c] = "covenant" => fetch = <<>> /\ baseUrl = Home
  /\ pc[c] \in {"popKey", "init", "wasm"} => Bottom(c)
  /\ pc[c] # "wasm" => ~prove
  /\ c \in Verify => covenant = Nobody /\ ~prove

SerialInv ==
  /\ TypeOK
  /\ prove => Pooled
  /\ order = "serial" =>
       /\ Alone
       /\ \A c \in Call : Running(c) => OwnAt(c)
       /\ throws = 0 =>
            /\ \A c \in Call : Running(c) => CleanAt(c)
            /\ (\A c \in Call : ~Running(c)) => Restored

LEMMA SerialInit == Init => SerialInv
<1> SUFFICES ASSUME Init PROVE SerialInv
  OBVIOUS
<1>1. \A c \in Call : ~Running(c)
  BY DEF Init, Running
<1>2. Restored /\ ~prove
  BY DEF Init, Restored
<1> QED
  BY <1>1, <1>2, TypeInit DEF SerialInv, Alone

\* A call that starts while the calls are serial starts with nobody beside it.
LEMMA StartsAlone ==
  ASSUME SerialInv, NEW c \in Call, MayStart(c), order' = "serial"
  PROVE  order = "serial" /\ \A d \in Call : ~Running(d)
BY DEF MayStart, SerialInv, TypeOK

\* A step of a call that is alone leaves it alone, or nobody.
LEMMA StaysAlone ==
  ASSUME SerialInv, order = "serial", NEW c \in Call, NEW next \in Pc, GoTo(c, next),
         Running(c) \/ \A d \in Call : ~Running(d)
  PROVE  /\ pc'[c] = next
         /\ \A d \in Call \ {c} : ~Running(d) /\ ~Running(d)'
         /\ Alone'
<1>1. pc'[c] = next /\ \A d \in Call \ {c} : pc'[d] = pc[d]
  BY DEF GoTo, SerialInv, TypeOK
<1>2. \A d \in Call \ {c} : ~Running(d)
  BY DEF SerialInv, Alone
<1>3. \A d \in Call \ {c} : ~Running(d)'
  BY <1>1, <1>2 DEF Running
<1> QED
  BY <1>1, <1>2, <1>3 DEF Alone

\* The steps of one call.  It is enough to look at that call.
LEMMA SerialCallStep ==
  ASSUME SerialInv, TypeOK', NEW c \in Call, NEW next \in Pc, GoTo(c, next),
         prove' => Pooled,
         order' = "serial" =>
           /\ order = "serial"
           /\ Running(c) \/ \A d \in Call : ~Running(d)
           /\ next # "done" => OwnAt(c)'
           /\ throws' = 0 => IF next = "done" THEN Restored' ELSE CleanAt(c)',
         next # "idle"
  PROVE  SerialInv'
<1> SUFFICES ASSUME order' = "serial"
             PROVE  /\ Alone'
                    /\ \A d \in Call : Running(d)' => OwnAt(d)'
                    /\ throws' = 0 =>
                         /\ \A d \in Call : Running(d)' => CleanAt(d)'
                         /\ (\A d \in Call : ~Running(d)') => Restored'
  BY DEF SerialInv
<1>1. /\ pc'[c] = next
      /\ \A d \in Call \ {c} : ~Running(d)'
      /\ Alone'
  BY StaysAlone
<1>2. Running(c)' <=> next # "done"
  BY <1>1 DEF Running
<1> QED
  BY <1>1, <1>2

LEMMA SerialStep == SerialInv /\ [Next]_vars => SerialInv'
<1> SUFFICES ASSUME SerialInv, [Next]_vars PROVE SerialInv'
  OBVIOUS
<1>1. TypeOK'
  BY TypeStep DEF SerialInv
<1> USE DEF Pc
<1>2. \A c \in Call, next \in Pc : GoTo(c, next) => pc'[c] = next
  BY DEF GoTo, SerialInv, TypeOK
<1>3. \A c \in Call : /\ c \in Sign \cup Authorize => c \notin Verify
                      /\ Running(c) /\ pc[c] # "wasm" /\ order = "serial" => c \notin Verify
  BY SessionAssumption DEF SerialInv, OwnAt
<1>4. ASSUME NEW c \in Call, Begin(c) PROVE SerialInv'
  <2>1. GoTo(c, "preflight") /\ UNCHANGED <<fetch, baseUrl, covenant, prove, throws>>
        /\ MayStart(c) /\ c \notin Verify
    BY <1>3, <1>4 DEF Begin
  <2>2. pc'[c] = "preflight"
    BY <1>2, <2>1
  <2>3. ASSUME order' = "serial"
        PROVE  /\ order = "serial" /\ \A d \in Call : ~Running(d)
               /\ OwnAt(c)'
               /\ throws' = 0 => CleanAt(c)'
    <3>1. order = "serial" /\ \A d \in Call : ~Running(d)
      BY <2>1, <2>3, StartsAlone
    <3>2. OwnAt(c)'
      BY <1>4, <2>1, <2>2 DEF OwnAt, Begin
    <3>3. throws' = 0 => CleanAt(c)'
      BY <2>1, <2>2, <3>1 DEF CleanAt, SerialInv, Restored
    <3> QED
      BY <3>1, <3>2, <3>3
  <2>4. prove' => Pooled
    BY <2>1 DEF SerialInv
  <2> QED
    BY <1>1, <2>1, <2>3, <2>4, SerialCallStep
<1>5. ASSUME NEW c \in Call, Preflight(c) PROVE SerialInv'
  <2>1. PICK next \in {"done", "covenant"} :
          /\ GoTo(c, next)
          /\ covenant' = IF next = "done" THEN covenant ELSE c
    BY <1>5 DEF Preflight
  <2>2. /\ UNCHANGED <<fetch, baseUrl, prove, musigSocket, throws, order>>
        /\ pc[c] = "preflight" /\ Running(c) /\ pc'[c] = next
    BY <1>2, <1>5, <2>1 DEF Preflight, Running
  <2>3. ASSUME order' = "serial"
        PROVE  /\ next # "done" => OwnAt(c)'
               /\ throws' = 0 => IF next = "done" THEN Restored' ELSE CleanAt(c)'
    <3>1. OwnAt(c) /\ c \notin Verify
      BY <1>3, <2>2, <2>3 DEF SerialInv
    <3>2. next # "done" => OwnAt(c)'
      BY <2>1, <2>2, <3>1 DEF OwnAt
    <3>3. throws' = 0 => CleanAt(c) /\ Restored
      BY <2>2, <2>3 DEF SerialInv, CleanAt
    <3>4. throws' = 0 => IF next = "done" THEN Restored' ELSE CleanAt(c)'
      BY <2>1, <2>2, <3>1, <3>3 DEF CleanAt, Restored
    <3> QED
      BY <3>2, <3>4
  <2>4. prove' => Pooled
    BY <2>2 DEF SerialInv
  <2> QED
    BY <1>1, <2>1, <2>2, <2>3, <2>4, SerialCallStep
<1>6. ASSUME NEW c \in Call, Prefetched(c) PROVE SerialInv'
  <2>1. /\ GoTo(c, "popKey") /\ SaveAndSetUrl(c) /\ covenant' \in {covenant, c}
        /\ UNCHANGED <<fetch, prove, musigSocket, throws, order>>
        /\ pc[c] = "covenant" /\ Running(c) /\ pc'[c] = "popKey"
    BY <1>2, <1>6 DEF Prefetched, Running
  <2>2. baseUrl' = ClientOf[c] /\ baseFetch'[c] = fetch /\ priorUrl'[c] = baseUrl
    BY <2>1 DEF SaveAndSetUrl, SerialInv, TypeOK
  <2>3. ASSUME order' = "serial"
        PROVE  OwnAt(c)' /\ (throws' = 0 => CleanAt(c)')
    <3>1. OwnAt(c) /\ c \notin Verify /\ (throws = 0 => CleanAt(c))
      BY <1>3, <2>1, <2>3 DEF SerialInv
    <3> QED
      BY <2>1, <2>2, <3>1 DEF OwnAt, CleanAt, Bottom
  <2>4. prove' => Pooled
    BY <2>1 DEF SerialInv
  <2> QED
    BY <1>1, <2>1, <2>3, <2>4, SerialCallStep
<1>7. ASSUME NEW c \in Call, InstallFetch(c) PROVE SerialInv'
  <2>1. /\ GoTo(c, "init") /\ fetch' = <<c>> \o baseFetch[c]
        /\ UNCHANGED <<baseUrl, covenant, prove, musigSocket, baseFetch, priorUrl, throws, order>>
        /\ pc[c] = "popKey" /\ Running(c) /\ pc'[c] = "init"
    BY <1>2, <1>7 DEF InstallFetch, Running
  <2>2. fetch' # <<>> /\ Head(fetch') = c
    <3>1. baseFetch[c] \in Seq(Call) /\ <<c>> \in Seq(Call)
      BY DEF SerialInv, TypeOK
    <3> QED
      BY <2>1, <3>1
  <2>3. ASSUME order' = "serial"
        PROVE  OwnAt(c)' /\ (throws' = 0 => CleanAt(c)')
    <3>1. OwnAt(c) /\ c \notin Verify /\ (throws = 0 => CleanAt(c))
      BY <1>3, <2>1, <2>3 DEF SerialInv
    <3> QED
      BY <2>1, <2>2, <3>1 DEF OwnAt, CleanAt, Bottom
  <2>4. prove' => Pooled
    BY <2>1 DEF SerialInv
  <2> QED
    BY <1>1, <2>1, <2>3, <2>4, SerialCallStep
<1>8. ASSUME NEW c \in Call, CallWasm(c) PROVE SerialInv'
  <2>1. /\ GoTo(c, "wasm") /\ prove' = (prove \/ Pooled)
        /\ UNCHANGED <<fetch, baseUrl, covenant, musigSocket, baseFetch, priorUrl, throws, order>>
        /\ pc[c] = "init" /\ Running(c) /\ pc'[c] = "wasm"
    BY <1>2, <1>8 DEF CallWasm, Running
  <2>2. prove' = Pooled /\ (prove' => Pooled)
    BY <2>1, SessionAssumption DEF SerialInv, TypeOK
  <2>3. ASSUME order' = "serial"
        PROVE  OwnAt(c)' /\ (throws' = 0 => CleanAt(c)')
    <3>1. OwnAt(c) /\ c \notin Verify /\ (throws = 0 => CleanAt(c))
      BY <1>3, <2>1, <2>3 DEF SerialInv
    <3> QED
      BY <2>1, <2>2, <3>1 DEF OwnAt, CleanAt, Bottom
  <2> QED
    BY <1>1, <2>1, <2>2, <2>3, SerialCallStep
<1>9. ASSUME NEW c \in Call, ThrowEarly(c) PROVE SerialInv'
  <2>1. /\ GoTo(c, "done") /\ throws' = throws + 1
        /\ UNCHANGED <<prove, order>> /\ Running(c)
    BY <1>9 DEF ThrowEarly, globals, Running
  <2>2. throws' # 0
    BY <2>1, SessionAssumption DEF SerialInv, TypeOK
  <2>3. prove' => Pooled
    BY <2>1 DEF SerialInv
  <2> QED
    BY <1>1, <2>1, <2>2, <2>3, SerialCallStep
<1>10. ASSUME NEW c \in Call, BeginVerify(c) PROVE SerialInv'
  <2>1. /\ GoTo(c, "wasm") /\ SaveAndSetUrl(c) /\ fetch' = <<c>> \o fetch
        /\ UNCHANGED <<covenant, prove, musigSocket, throws>>
        /\ MayStart(c) /\ c \in Verify /\ pc'[c] = "wasm"
    BY <1>2, <1>10 DEF BeginVerify
  <2>2. baseUrl' = ClientOf[c] /\ baseFetch'[c] = fetch /\ priorUrl'[c] = baseUrl
    BY <2>1 DEF SaveAndSetUrl, SerialInv, TypeOK
  <2>3. fetch' # <<>> /\ Head(fetch') = c
    <3>1. fetch \in Seq(Call) /\ <<c>> \in Seq(Call)
      BY DEF SerialInv, TypeOK
    <3> QED
      BY <2>1, <3>1
  <2>4. ASSUME order' = "serial"
        PROVE  /\ order = "serial" /\ \A d \in Call : ~Running(d)
               /\ OwnAt(c)' /\ (throws' = 0 => CleanAt(c)')
    <3>1. order = "serial" /\ \A d \in Call : ~Running(d)
      BY <2>1, <2>4, StartsAlone
    <3>2. c \notin Sign
      BY <2>1, SessionAssumption
    <3>3. OwnAt(c)'
      BY <2>1, <2>2, <2>3, <3>2 DEF OwnAt
    <3>4. throws' = 0 => CleanAt(c)'
      BY <2>1, <2>2, <3>1 DEF CleanAt, Bottom, SerialInv, Restored
    <3> QED
      BY <3>1, <3>3, <3>4
  <2>5. prove' => Pooled
    BY <2>1 DEF SerialInv
  <2> QED
    BY <1>1, <2>1, <2>4, <2>5, SerialCallStep
<1>11. ASSUME NEW c \in Call, Finally(c) PROVE SerialInv'
  <2>1. /\ GoTo(c, "done") /\ Running(c) /\ pc[c] = "wasm"
        /\ fetch' = baseFetch[c] /\ baseUrl' = priorUrl[c]
        /\ covenant' = IF c \in Verify THEN covenant ELSE Nobody
        /\ prove' = (c \in Verify /\ prove)
        /\ throws' = throws
    BY <1>11 DEF Finally, Running
  <2>2. order' = "serial" => order = "serial"
    BY <1>11 DEF Finally, Close
  <2>3. ASSUME order' = "serial", throws' = 0
        PROVE  Restored'
    <3>1. CleanAt(c)
      BY <2>1, <2>2, <2>3 DEF SerialInv
    <3> QED
      BY <2>1, <3>1 DEF CleanAt, Bottom, Restored
  <2>4. prove' => Pooled
    BY <2>1 DEF SerialInv
  <2> QED
    BY <1>1, <2>1, <2>2, <2>3, <2>4, SerialCallStep
<1>12. ASSUME NEW k \in Client, Disconnect(k) PROVE SerialInv'
  BY <1>1, <1>12
     DEF Disconnect, SerialInv, Alone, Running, OwnAt, CleanAt, Bottom, Restored
<1>13. CASE UNCHANGED vars
  <2>1. UNCHANGED <<fetch, baseUrl, covenant, prove, musigSocket, pc, baseFetch, priorUrl,
                    throws, order>>
    BY <1>13 DEF vars, globals
  <2> QED
    BY <1>1, <2>1 DEF SerialInv, Alone, Running, OwnAt, CleanAt, Bottom, Restored
<1> QED
  BY <1>4, <1>5, <1>6, <1>7, <1>8, <1>9, <1>10, <1>11, <1>12, <1>13 DEF Next

\* Calls that follow each other, none of which threw before its try block,
\* leave the host's fetch, base URL, covenant state and prove dispatchers as
\* they were (SigbashClient.ts:2123-2305), however many there were.
THEOREM SerialRestore == Spec => []RestoredIfSerial
<1>1. SerialInv => RestoredIfSerial
  BY DEF SerialInv, RestoredIfSerial
<1> QED
  BY <1>1, SerialInit, SerialStep, PTL DEF Spec

\* While calls follow each other a pipeline runs under its own wrapper, origin,
\* covenant state and musig2 socket, also after earlier calls threw.
THEOREM SerialOwn == Spec => []OwnIfSerial
<1>1. SerialInv => OwnIfSerial
  <2> SUFFICES ASSUME SerialInv, order = "serial", NEW c \in Call, pc[c] = "wasm"
               PROVE  /\ fetch # <<>> /\ Head(fetch) = c
                      /\ baseUrl = ClientOf[c]
                      /\ c \notin Verify => covenant = c /\ prove = Pooled
                      /\ c \in Sign => musigSocket \in {ClientOf[c], Nobody}
    BY DEF OwnIfSerial, OwnEnvironment, Call
  <2>1. OwnAt(c)
    BY DEF SerialInv, Running
  <2> QED
    BY <2>1 DEF OwnAt
<1> QED
  BY <1>1, SerialInit, SerialStep, PTL DEF Spec

=============================================================================
