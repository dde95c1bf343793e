------------------------ MODULE ProveWorkerPool_proofs ------------------------
(***************************************************************************)
(* Proofs about the prove worker pool, for every set of tasks, pool size   *)
(* and number of inits, destroys and worker deaths.                        *)
(***************************************************************************)
EXTENDS ProveWorkerPool, SequenceTheorems, TLAPS

-----------------------------------------------------------------------------
(* Sequences and the set of their elements.                                *)

LEMMA ElemsAppend ==
  ASSUME NEW S, NEW s \in Seq(S), NEW x \in S
  PROVE  Elems(Append(s, x)) = Elems(s) \cup {x}
<1>1. /\ Len(Append(s, x)) = Len(s) + 1
      /\ \A i \in 1 .. Len(s) : Append(s, x)[i] = s[i]
      /\ Append(s, x)[Len(s) + 1] = x
      /\ Append(s, x) \in Seq(S)
  BY AppendProperties
<1>2. /\ DOMAIN s = 1 .. Len(s)
      /\ DOMAIN Append(s, x) = 1 .. (Len(s) + 1)
      /\ Len(s) \in Nat
  BY <1>1, LenProperties
<1>3. Elems(s) \subseteq Elems(Append(s, x))
  BY <1>1, <1>2 DEF Elems
<1>4. x \in Elems(Append(s, x))
  BY <1>1, <1>2 DEF Elems
<1>5. Elems(Append(s, x)) \subseteq Elems(s) \cup {x}
  BY <1>1, <1>2 DEF Elems
<1>6. QED  BY <1>3, <1>4, <1>5

LEMMA ElemsTail ==
  ASSUME NEW S, NEW s \in Seq(S), s # <<>>
  PROVE  /\ Elems(s) = Elems(Tail(s)) \cup {Head(s)}
         /\ Head(s) \in S
         /\ Tail(s) \in Seq(S)
<1>1. /\ Tail(s) \in Seq(S)
      /\ Head(s) \in S
      /\ Len(Tail(s)) = Len(s) - 1
      /\ \A i \in 1 .. Len(Tail(s)) : Tail(s)[i] = s[i + 1]
  BY HeadTailProperties
<1>2. /\ DOMAIN s = 1 .. Len(s)
      /\ DOMAIN Tail(s) = 1 .. (Len(s) - 1)
      /\ Len(s) \in Nat \ {0}
  BY <1>1, LenProperties, EmptySeq
<1>3. Head(s) = s[1]
  OBVIOUS
<1>4. Elems(Tail(s)) \subseteq Elems(s)
  BY <1>1, <1>2 DEF Elems
<1>5. Head(s) \in Elems(s)
  BY <1>2, <1>3 DEF Elems
<1>6. ASSUME NEW i \in 1 .. Len(s)  PROVE s[i] \in Elems(Tail(s)) \cup {Head(s)}
  <2>1. CASE i = 1
    BY <2>1, <1>3
  <2>2. CASE i # 1
    <3>1. i - 1 \in 1 .. (Len(s) - 1)
      BY <2>2, <1>2
    <3>2. Tail(s)[i - 1] = s[i]
      BY <3>1, <1>1, <1>2
    <3>3. QED  BY <3>1, <3>2, <1>2 DEF Elems
  <2>3. QED  BY <2>1, <2>2
<1>7. QED  BY <1>1, <1>2, <1>4, <1>5, <1>6 DEF Elems

LEMMA ElemsEmpty == Elems(<<>>) = {}
BY DEF Elems

-----------------------------------------------------------------------------
(* Type correctness.                                                       *)

LEMMA InitAsType ==
  ASSUME TypeOK, NEW k \in Run, InitAs(k)
  PROVE  /\ initPromise' \in {0} \cup Run
         /\ inits' \in 0 .. MaxInits
         /\ initRun' \in [Run -> {"none", "spawning", "done"}]
         /\ attempts' = attempts
         /\ spawned' = spawned
         /\ ready' \in BOOLEAN
         /\ fallbackMode' \in BOOLEAN
<1> USE PoolAssumption DEF TypeOK, Run
<1>1. CASE initPromise # 0
  BY <1>1 DEF InitAs, initVars
<1>2. CASE initPromise = 0
  <2>1. /\ initPromise' = k
        /\ inits' = k
        /\ UNCHANGED <<attempts, spawned>>
    BY <1>2 DEF InitAs
  <2>2. CASE PoolSize = 0
    <3>1. /\ initRun' = [initRun EXCEPT ![k] = "done"]
          /\ fallbackMode' = TRUE
          /\ ready' = TRUE
      BY <1>2, <2>2 DEF InitAs
    <3>2. QED  BY <2>1, <3>1
  <2>3. CASE PoolSize # 0
    <3>1. /\ initRun' = [initRun EXCEPT ![k] = "spawning"]
          /\ UNCHANGED <<fallbackMode, ready>>
      BY <1>2, <2>3 DEF InitAs
    <3>2. QED  BY <2>1, <3>1
  <2>4. QED  BY <2>2, <2>3
<1>3. QED  BY <1>1, <1>2

LEMMA SendOrSkipType ==
  ASSUME TypeOK, NEW t \in Task, SendOrSkip(t)
  PROVE  busy' \in [Thread -> BOOLEAN] /\ job' \in [Thread -> SUBSET Task]
<1>1. PICK i \in IdleSlots :
        IF t \in pending
        THEN /\ busy' = [busy EXCEPT ![workers[i]] = TRUE]
             /\ job' = [job EXCEPT ![workers[i]] = @ \cup {t}]
        ELSE UNCHANGED <<busy, job>>
  BY DEF SendOrSkip
<1>2. workers[i] \in Thread
  BY LenProperties, ElementOfSeq DEF TypeOK, IdleSlots
<1>3. CASE t \in pending
  <2>1. busy' = [busy EXCEPT ![workers[i]] = TRUE]
    BY <1>1, <1>3
  <2>2. job' = [job EXCEPT ![workers[i]] = job[workers[i]] \cup {t}]
    BY <1>1, <1>3
  <2>3. job[workers[i]] \cup {t} \in SUBSET Task
    BY <1>2 DEF TypeOK
  <2>4. QED  BY <1>2, <2>1, <2>2, <2>3 DEF TypeOK
<1>4. CASE t \notin pending
  BY <1>1, <1>4 DEF TypeOK
<1>5. QED  BY <1>3, <1>4

\* Every variable of the pool keeps its type, whichever handler runs.
THEOREM TypeCorrect == Spec => []TypeOK
<1>1. Init => TypeOK
  <2> SUFFICES ASSUME Init  PROVE TypeOK
    OBVIOUS
  <2>1. /\ <<>> \in Seq(Thread)
        /\ <<>> \in Seq(Task)
    BY EmptySeq
  <2>2. /\ initPromise \in {0} \cup Run
        /\ inits \in 0 .. MaxInits
        /\ initRun \in [Run -> {"none", "spawning", "done"}]
        /\ attempts \in [Run -> 0 .. PoolSize]
        /\ spawned \in [Run -> Seq(Thread)]
    BY <2>1, PoolAssumption DEF Init, Run
  <2>3. /\ stage \in [Task -> Stage]
        /\ awaits \in [Task -> {0} \cup Run]
        /\ id \in [Task -> Nat]
        /\ thread \in [Thread -> {"none", "up", "dead", "terminated"}]
        /\ busy \in [Thread -> BOOLEAN]
        /\ role \in [Thread -> {"all", "unified", "output_chunk_final"}]
        /\ isWarmed \in [Thread -> BOOLEAN]
        /\ job \in [Thread -> SUBSET Task]
    BY DEF Init, Stage
  <2>4. ready \in BOOLEAN /\ fallbackMode \in BOOLEAN /\ dispatching \in BOOLEAN
    BY DEF Init
  <2>5. nextId \in Nat \ {0} /\ destroys \in Nat
    BY DEF Init
  <2>6. /\ workers \in Seq(Thread)
        /\ pending \subseteq Task
        /\ queue \in Seq(Task)
        /\ wapQueue \in Seq(Task)
        /\ warming \subseteq Thread
        /\ late \subseteq Task
    BY <2>1 DEF Init
  <2>7. QED
    BY ONLY <2>2, <2>3, <2>4, <2>5, <2>6 DEF TypeOK
<1>2. TypeOK /\ [Next]_vars => TypeOK'
  <2> SUFFICES ASSUME TypeOK, [Next]_vars  PROVE TypeOK'
    OBVIOUS
  <2> USE PoolAssumption DEF TypeOK, Stage, Settled
  <2>1. CASE InitPool
    BY <2>1, InitAsType DEF InitPool, taskVars, workerVars
  <2>2. ASSUME NEW k \in Run, Spawn(k)  PROVE TypeOK'
    <3>1. <<k, attempts[k] + 1>> \in Thread
      <4>1. attempts[k] \in 0 .. PoolSize /\ attempts[k] < PoolSize
        BY <2>2 DEF Spawn
      <4>2. attempts[k] + 1 \in 1 .. PoolSize
        BY ONLY <4>1, PoolAssumption
      <4>3. QED  BY ONLY <4>2, k \in Run DEF Thread
    <3>2. Append(spawned[k], <<k, attempts[k] + 1>>) \in Seq(Thread)
      BY <3>1, AppendProperties
    <3>3. attempts[k] + 1 \in 0 .. PoolSize
      BY <2>2 DEF Spawn
    <3>4. attempts' \in [Run -> 0 .. PoolSize] /\ spawned' \in [Run -> Seq(Thread)]
      <4>1. attempts' = [attempts EXCEPT ![k] = attempts[k] + 1]
        BY <2>2 DEF Spawn
      <4>2. \/ spawned' = spawned
            \/ spawned' = [spawned EXCEPT ![k] = Append(spawned[k], <<k, attempts[k] + 1>>)]
        BY <2>2 DEF Spawn
      <4>3. attempts' \in [Run -> 0 .. PoolSize]
        BY <3>3, <4>1
      <4>4. spawned' \in [Run -> Seq(Thread)]
        BY <3>2, <4>2
      <4>5. QED  BY <4>3, <4>4
    <3>5. thread' \in [Thread -> {"none", "up", "dead", "terminated"}]
      BY <2>2 DEF Spawn
    <3>6. QED  BY <2>2, <3>4, <3>5 DEF Spawn, taskVars
  <2>3. ASSUME NEW k \in Run, FinishInit(k)  PROVE TypeOK'
    <3>1. role' \in [Thread -> {"all", "unified", "output_chunk_final"}]
      <4>1. ASSUME NEW w \in Thread, NEW ws
            PROVE  RoleIn(w, ws) \in {"all", "unified", "output_chunk_final"}
        BY DEF RoleIn
      <4>2. QED  BY <2>3, <4>1 DEF FinishInit
    <3>2. /\ initRun' \in [Run -> {"none", "spawning", "done"}]
          /\ workers' \in Seq(Thread)
      BY <2>3 DEF FinishInit
    <3>3. QED  BY <2>3, <3>1, <3>2 DEF FinishInit, taskVars
  <2>4. ASSUME NEW t \in Task, Call(t)  PROVE TypeOK'
    <3>1. PICK k \in Run : InitAs(k) /\ awaits' = [awaits EXCEPT ![t] = k]
      BY <2>4 DEF Call
    <3>2. awaits' \in [Task -> {0} \cup Run]
      BY <3>1
    <3>3. QED  BY <2>4, <3>1, <3>2, InitAsType DEF Call, workerVars
  <2>5. ASSUME NEW t \in Task, Submit(t)  PROVE TypeOK'
    <3>1. CASE fallbackMode
      BY <2>5, <3>1 DEF Submit, initVars, workerVars
    <3>2. CASE ~fallbackMode
      <4>1. queue' \in Seq(Task) /\ wapQueue' \in Seq(Task)
        <5>1. Append(queue, t) \in Seq(Task) /\ Append(wapQueue, t) \in Seq(Task)
          BY AppendProperties
        <5>2. QED  BY <2>5, <3>2, <5>1 DEF Submit
      <4>2. /\ id' \in [Task -> Nat]
            /\ nextId' \in Nat \ {0}
            /\ stage' \in [Task -> Stage]
            /\ pending' \subseteq Task
        <5>1. /\ id' = [id EXCEPT ![t] = nextId]
              /\ nextId' = nextId + 1
              /\ stage' = [stage EXCEPT ![t] = "submitted"]
              /\ pending' = pending \cup {t}
          BY <2>5, <3>2 DEF Submit
        <5>2. nextId' \in Nat \ {0}
          BY <5>1
        <5>3. QED  BY <5>1, <5>2
      <4>3. QED  BY <2>5, <3>2, <4>1, <4>2 DEF Submit, initVars, workerVars
    <3>3. QED  BY <3>1, <3>2
  <2>6. ASSUME NEW t \in Task, MainThreadDone(t)  PROVE TypeOK'
    BY <2>6 DEF MainThreadDone, initVars, workerVars
  <2>7. ASSUME NEW t \in Task, Timeout(t)  PROVE TypeOK'
    BY <2>7 DEF Timeout, initVars, workerVars
  <2>8. CASE DispatchProve
    <3>1. Tail(queue) \in Seq(Task) /\ Head(queue) \in Task
      BY <2>8, HeadTailProperties DEF DispatchProve
    <3>2. QED  BY <2>8, <3>1, SendOrSkipType DEF DispatchProve, initVars
  <2>9. CASE DispatchWap
    <3>1. Tail(wapQueue) \in Seq(Task) /\ Head(wapQueue) \in Task
      BY <2>9, HeadTailProperties DEF DispatchWap
    <3>2. QED  BY <2>9, <3>1, SendOrSkipType DEF DispatchWap, initVars
  <2>10. CASE DispatchDone
    BY <2>10 DEF DispatchDone, initVars, taskVars, workerVars
  <2>11. ASSUME NEW w \in Thread, NEW t \in Task, WorkerAnswer(w, t)  PROVE TypeOK'
    <3>1. job' \in [Thread -> SUBSET Task] /\ busy' \in [Thread -> BOOLEAN]
      BY <2>11 DEF WorkerAnswer
    <3>2. stage' \in [Task -> Stage]
      <4>1. stage' = stage \/ \E o \in {"resolved", "rejected"} : stage' = [stage EXCEPT ![t] = o]
        BY <2>11 DEF WorkerAnswer
      <4>2. QED  BY <4>1
    <3>3. pending' \subseteq Task /\ late' \subseteq Task /\ dispatching' \in BOOLEAN
      <4>1. \/ pending' = pending \ {t} /\ dispatching' = TRUE /\ late' = late
            \/ pending' = pending /\ dispatching' = dispatching /\ late' = late \cup {t}
        BY ONLY <2>11 DEF WorkerAnswer
      <4>2. QED  BY <4>1
    <3>4. UNCHANGED <<initVars, ready, fallbackMode, workers, queue, wapQueue, nextId,
                      awaits, id, thread, role, isWarmed, warming, destroys>>
      BY <2>11 DEF WorkerAnswer
    <3>5. QED  BY <3>1, <3>2, <3>3, <3>4 DEF initVars
  <2>12. ASSUME NEW w \in Thread, Die(w)  PROVE TypeOK'
    BY <2>12 DEF Die, initVars, taskVars
  <2>13. ASSUME NEW w \in Thread, WarmComplete(w)  PROVE TypeOK'
    BY <2>13 DEF WarmComplete, initVars, taskVars
  <2>14. CASE WarmCircuits
    <3>1. ToWarm \subseteq Thread
      <4>1. \A i \in DOMAIN workers : workers[i] \in Thread
        BY ElementOfSeq, LenProperties
      <4>2. ASSUME NEW w \in ToWarm  PROVE \E i \in DOMAIN workers : w = workers[i]
        BY DEF ToWarm
      <4>3. QED  BY <4>1, <4>2
    <3>2. QED  BY <2>14, <3>1 DEF WarmCircuits, initVars, taskVars
  <2>15. CASE Destroy
    <3>1. <<>> \in Seq(Thread) /\ <<>> \in Seq(Task)
      BY EmptySeq
    <3>2. thread' \in [Thread -> {"none", "up", "dead", "terminated"}]
      BY <2>15 DEF Destroy
    <3>3. stage' \in [Task -> Stage]
      BY <2>15 DEF Destroy
    <3>4. destroys' \in Nat /\ initPromise' \in {0} \cup Run
      BY <2>15 DEF Destroy
    <3>5. /\ workers' = <<>> /\ pending' = {} /\ queue' = <<>> /\ ready' = FALSE
          /\ UNCHANGED <<inits, initRun, attempts, spawned, fallbackMode, wapQueue,
                         nextId, awaits, id, busy, role, isWarmed, job, warming,
                         dispatching, late>>
      BY <2>15 DEF Destroy
    <3>6. QED  BY <3>1, <3>2, <3>3, <3>4, <3>5
  <2>16. CASE UNCHANGED vars
    BY <2>16 DEF vars, initVars, taskVars, workerVars
  <2>17. QED
    BY <2>1, <2>2, <2>3, <2>4, <2>5, <2>6, <2>7, <2>8, <2>9, <2>10, <2>11,
       <2>12, <2>13, <2>14, <2>15, <2>16
    DEF Next, Dispatch
<1>3. QED  BY <1>1, <1>2, PTL DEF Spec

-----------------------------------------------------------------------------
(* Where a pending task is.                                                *)

LEMMA SendOrSkipEffect ==
  ASSUME TypeOK, OneTaskPerWorker, NEW t \in Task, SendOrSkip(t)
  PROVE  /\ OneTaskPerWorker'
         /\ Sent' = IF t \in pending THEN Sent \cup {t} ELSE Sent
<1>1. PICK i \in IdleSlots :
        IF t \in pending
        THEN /\ busy' = [busy EXCEPT ![workers[i]] = TRUE]
             /\ job' = [job EXCEPT ![workers[i]] = @ \cup {t}]
        ELSE UNCHANGED <<busy, job>>
  BY DEF SendOrSkip
<1>2. workers[i] \in Thread /\ ~busy[workers[i]]
  BY LenProperties, ElementOfSeq DEF TypeOK, IdleSlots
<1>3. job[workers[i]] = {}
  BY <1>2 DEF OneTaskPerWorker
<1>4. CASE t \in pending
  <2>1. \A w \in Thread : job'[w] = IF w = workers[i] THEN {t} ELSE job[w]
    BY <1>1, <1>2, <1>3, <1>4 DEF TypeOK
  <2>2. \A w \in Thread : job'[w] # {} => busy'[w]
    <3>1. busy' = [busy EXCEPT ![workers[i]] = TRUE]
      BY <1>1, <1>4
    <3>2. \A w \in Thread : w # workers[i] => busy'[w] = busy[w]
      BY <3>1 DEF TypeOK
    <3>3. busy'[workers[i]]
      BY <1>2, <3>1 DEF TypeOK
    <3>4. QED  BY <2>1, <3>2, <3>3 DEF OneTaskPerWorker
  <2>3. OneTaskPerWorker'
    BY <2>1, <2>2 DEF OneTaskPerWorker
  <2>4. Sent' = Sent \cup {t}
    BY <1>2, <1>3, <2>1 DEF Sent
  <2>5. QED  BY <1>4, <2>3, <2>4
<1>5. CASE t \notin pending
  BY <1>1, <1>5 DEF OneTaskPerWorker, Sent
<1>6. QED  BY <1>4, <1>5

LEMMA WorkerAnswerEffect ==
  ASSUME TypeOK, OneTaskPerWorker, NEW w \in Thread, NEW t \in Task, WorkerAnswer(w, t)
  PROVE  /\ OneTaskPerWorker'
         /\ Sent \ {t} \subseteq Sent'
         /\ t \notin pending'
         /\ pending' \subseteq pending
<1>1. /\ job' = [job EXCEPT ![w] = @ \ {t}]
      /\ busy' = [busy EXCEPT ![w] = FALSE]
      /\ t \in job[w]
  BY DEF WorkerAnswer
<1>2. \A v \in Thread : job'[v] = IF v = w THEN {} ELSE job[v]
  <2>1. \A u \in job[w] : u = t
    BY <1>1 DEF OneTaskPerWorker
  <2>2. job[w] \ {t} = {}
    BY <2>1
  <2>3. QED  BY <1>1, <2>2 DEF TypeOK
<1>3. \A v \in Thread : v # w => busy'[v] = busy[v]
  BY <1>1 DEF TypeOK
<1>4. OneTaskPerWorker'
  BY <1>2, <1>3 DEF OneTaskPerWorker
<1>5. Sent \ {t} \subseteq Sent'
  BY <1>1, <1>2 DEF Sent, OneTaskPerWorker
<1>6. t \notin pending' /\ pending' \subseteq pending
  BY DEF WorkerAnswer
<1>7. QED  BY <1>4, <1>5, <1>6

\* What the placement of tasks says, in one inductive formula.
PlacementInv == OneTaskPerWorker /\ NoTaskLost

LEMMA PlacementStep ==
  ASSUME TypeOK, PlacementInv, [Next]_vars
  PROVE  PlacementInv'
<1> USE DEF PlacementInv
<1>1. ASSUME UNCHANGED <<busy, job>>  PROVE OneTaskPerWorker' /\ Sent' = Sent
  BY <1>1 DEF OneTaskPerWorker, Sent
<1>2. ASSUME UNCHANGED <<busy, job, pending, queue, wapQueue>>  PROVE PlacementInv'
  BY <1>1, <1>2 DEF NoTaskLost, Queued
<1>3. CASE InitPool
  BY <1>2, <1>3 DEF InitPool, taskVars, workerVars
<1>4. ASSUME NEW k \in Run, Spawn(k)  PROVE PlacementInv'
  BY <1>2, <1>4 DEF Spawn, taskVars
<1>5. ASSUME NEW k \in Run, FinishInit(k)  PROVE PlacementInv'
  BY <1>2, <1>5 DEF FinishInit, taskVars
<1>6. ASSUME NEW t \in Task, Call(t)  PROVE PlacementInv'
  BY <1>2, <1>6 DEF Call, workerVars
<1>7. ASSUME NEW t \in Task, Submit(t)  PROVE PlacementInv'
  <2>1. CASE fallbackMode
    <3>1. UNCHANGED <<busy, job, pending, queue, wapQueue>>
      BY <1>7, <2>1 DEF Submit, workerVars
    <3>2. QED  BY <1>2, <3>1
  <2>2. CASE ~fallbackMode
    <3>1. /\ pending' = pending \cup {t}
          /\ queue' = IF t \in Wap THEN queue ELSE Append(queue, t)
          /\ wapQueue' = IF t \in Wap THEN Append(wapQueue, t) ELSE wapQueue
          /\ UNCHANGED <<busy, job>>
      BY <1>7, <2>2 DEF Submit, workerVars
    <3>2. Queued' = Queued \cup {t}
      <4>1. CASE t \in Wap
        BY <3>1, <4>1, ElemsAppend DEF Queued, TypeOK
      <4>2. CASE t \notin Wap
        BY <3>1, <4>2, ElemsAppend DEF Queued, TypeOK
      <4>3. QED  BY <4>1, <4>2
    <3>3. QED  BY <1>1, <3>1, <3>2 DEF NoTaskLost
  <2>3. QED  BY <2>1, <2>2
<1>8. ASSUME NEW t \in Task, MainThreadDone(t)  PROVE PlacementInv'
  BY <1>2, <1>8 DEF MainThreadDone, workerVars
<1>9. ASSUME NEW t \in Task, Timeout(t)  PROVE PlacementInv'
  <2>1. /\ pending' \subseteq pending
        /\ UNCHANGED <<busy, job, queue, wapQueue>>
    BY <1>9 DEF Timeout, workerVars
  <2>2. QED  BY <1>1, <2>1 DEF NoTaskLost, Queued
<1>10. CASE DispatchProve
  <2>1. /\ SendOrSkip(Head(queue))
        /\ queue # <<>> /\ queue' = Tail(queue)
        /\ UNCHANGED <<pending, wapQueue>>
    BY <1>10 DEF DispatchProve
  <2>2. Elems(queue) = Elems(queue') \cup {Head(queue)} /\ Head(queue) \in Task
    BY <2>1, ElemsTail DEF TypeOK
  <2>3. QED  BY <2>1, <2>2, SendOrSkipEffect DEF NoTaskLost, Queued
<1>11. CASE DispatchWap
  <2>1. /\ SendOrSkip(Head(wapQueue))
        /\ wapQueue # <<>> /\ wapQueue' = Tail(wapQueue)
        /\ UNCHANGED <<pending, queue>>
    BY <1>11 DEF DispatchWap
  <2>2. Elems(wapQueue) = Elems(wapQueue') \cup {Head(wapQueue)} /\ Head(wapQueue) \in Task
    BY <2>1, ElemsTail DEF TypeOK
  <2>3. QED  BY <2>1, <2>2, SendOrSkipEffect DEF NoTaskLost, Queued
<1>12. CASE DispatchDone
  BY <1>2, <1>12 DEF DispatchDone, taskVars, workerVars
<1>13. ASSUME NEW w \in Thread, NEW t \in Task, WorkerAnswer(w, t)  PROVE PlacementInv'
  <2>1. UNCHANGED <<queue, wapQueue>>
    BY <1>13 DEF WorkerAnswer
  <2>2. QED  BY <1>13, <2>1, WorkerAnswerEffect DEF NoTaskLost, Queued
<1>14. ASSUME NEW w \in Thread, Die(w)  PROVE PlacementInv'
  BY <1>2, <1>14 DEF Die, taskVars
<1>15. ASSUME NEW w \in Thread, WarmComplete(w)  PROVE PlacementInv'
  BY <1>2, <1>15 DEF WarmComplete, taskVars
<1>16. CASE WarmCircuits
  BY <1>2, <1>16 DEF WarmCircuits, taskVars
<1>17. CASE Destroy
  BY <1>1, <1>17 DEF Destroy, NoTaskLost
<1>18. CASE UNCHANGED vars
  BY <1>2, <1>18 DEF vars, taskVars, workerVars
<1>19. QED
  BY <1>3, <1>4, <1>5, <1>6, <1>7, <1>8, <1>9, <1>10, <1>11, <1>12, <1>13,
     <1>14, <1>15, <1>16, <1>17, <1>18
  DEF Next, Dispatch

LEMMA PlacementInit == Init => PlacementInv
BY DEF Init, PlacementInv, OneTaskPerWorker, NoTaskLost

\* A worker never serves two proofs at once, in any pool.
THEOREM OneTask == Spec => []OneTaskPerWorker
BY PlacementInit, PlacementStep, TypeCorrect, PTL DEF Spec, PlacementInv

\* A task that may still be answered is queued or with a worker, in any pool.
THEOREM NoLoss == Spec => []NoTaskLost
BY PlacementInit, PlacementStep, TypeCorrect, PTL DEF Spec, PlacementInv

-----------------------------------------------------------------------------
(* No live task waits beside an idle worker.                               *)

\* Before the first destroy() there is one run of _doInit, and nothing is
\* submitted until it is done; so the workers it installs without dispatching
\* find the queues empty.
OneInitInv ==
  /\ \A k \in Run : initRun[k] # "none" => k <= inits
  /\ destroys = 0 =>
       /\ inits = initPromise
       /\ inits <= 1
       /\ queue # <<>> \/ wapQueue # <<>> \/ pending # {} \/ dispatching
            => initRun[1] = "done"

StrandedInv == OneInitInv /\ StrandedOnlyByLateAnswer

LEMMA OnlyRun ==
  ASSUME TypeOK, OneInitInv, destroys = 0, NEW k \in Run, initRun[k] # "none"
  PROVE  k = 1
<1>1. k <= inits /\ inits <= 1
  BY DEF OneInitInv
<1>2. k \in Nat /\ k >= 1 /\ inits \in Nat
  BY PoolAssumption DEF Run, TypeOK
<1>3. QED  BY <1>1, <1>2

LEMMA InitAsOneInit ==
  ASSUME TypeOK, OneInitInv, NEW k \in Run, InitAs(k),
         UNCHANGED <<queue, wapQueue, pending, dispatching, destroys>>
  PROVE  OneInitInv'
<1> USE PoolAssumption DEF Run
<1>1. CASE initPromise # 0
  BY <1>1 DEF InitAs, initVars, OneInitInv
<1>2. CASE initPromise = 0
  <2>1. /\ initPromise' = inits + 1
        /\ inits' = inits + 1
        /\ k = inits + 1
    BY <1>2 DEF InitAs
  <2>2. /\ initRun' \in [Run -> {"none", "spawning", "done"}]
        /\ \A j \in Run : j # k => initRun'[j] = initRun[j]
    BY <1>2, InitAsType DEF InitAs, TypeOK
  <2>3. \A j \in Run : initRun'[j] # "none" => j <= inits'
    BY <2>1, <2>2 DEF OneInitInv, TypeOK
  <2>4. ASSUME destroys' = 0
        PROVE  /\ inits' = 1
               /\ ~(queue' # <<>> \/ wapQueue' # <<>> \/ pending' # {} \/ dispatching')
    <3>1. inits = 0 /\ destroys = 0
      BY <1>2, <2>4 DEF OneInitInv
    <3>2. initRun[1] = "none"
      BY <3>1 DEF OneInitInv, TypeOK
    <3>3. QED  BY <3>1, <3>2, <2>1 DEF OneInitInv
  <2>5. QED  BY <2>1, <2>3, <2>4 DEF OneInitInv
<1>3. QED  BY <1>1, <1>2

LEMMA StrandedStep ==
  ASSUME TypeOK, TypeOK', StrandedInv, [Next]_vars
  PROVE  StrandedInv'
<1> USE PoolAssumption DEF StrandedInv
<1>1. ASSUME UNCHANGED <<initPromise, inits, initRun, destroys, late, queue, wapQueue,
                         dispatching, workers, busy>>,
             pending' \subseteq pending
      PROVE  StrandedInv'
  BY <1>1 DEF OneInitInv, StrandedOnlyByLateAnswer, NoStrandedTask, IdleSlots, Queued
<1>2. ASSUME NEW k \in Run, InitAs(k),
             UNCHANGED <<queue, wapQueue, dispatching, destroys, late, workers, busy, pending>>
      PROVE  StrandedInv'
  <2>1. OneInitInv'
    BY <1>2, InitAsOneInit
  <2>2. StrandedOnlyByLateAnswer'
    BY <1>2 DEF StrandedOnlyByLateAnswer, NoStrandedTask, IdleSlots, Queued
  <2>3. QED  BY <2>1, <2>2
<1>3. CASE InitPool
  BY <1>2, <1>3 DEF InitPool, taskVars, workerVars
<1>4. ASSUME NEW k \in Run, Spawn(k)  PROVE StrandedInv'
  BY <1>1, <1>4 DEF Spawn, taskVars
<1>5. ASSUME NEW k \in Run, FinishInit(k)  PROVE StrandedInv'
  <2>1. /\ initRun[k] = "spawning"
        /\ initRun' = [initRun EXCEPT ![k] = "done"]
        /\ UNCHANGED <<initPromise, inits, queue, wapQueue, pending, dispatching,
                       late, destroys>>
    BY <1>5 DEF FinishInit, taskVars
  <2>2. OneInitInv'
    <3>1. \A j \in Run : initRun'[j] = IF j = k THEN "done" ELSE initRun[j]
      BY <2>1 DEF TypeOK
    <3>2. 1 \in Run
      BY DEF Run
    <3>3. QED  BY <2>1, <3>1, <3>2 DEF OneInitInv
  <2>3. ASSUME destroys = 0  PROVE queue = <<>> /\ wapQueue = <<>>
    <3>1. k = 1
      BY <2>1, <2>3, OnlyRun
    <3>2. QED  BY <2>1, <2>3, <3>1 DEF OneInitInv
  <2>4. StrandedOnlyByLateAnswer'
    BY <2>1, <2>3, ElemsEmpty DEF StrandedOnlyByLateAnswer, NoStrandedTask, Queued
  <2>5. QED  BY <2>2, <2>4
<1>6. ASSUME NEW t \in Task, Call(t)  PROVE StrandedInv'
  BY <1>2, <1>6 DEF Call, workerVars
<1>7. ASSUME NEW t \in Task, Submit(t)  PROVE StrandedInv'
  <2>1. CASE fallbackMode
    <3>1. UNCHANGED <<initPromise, inits, initRun, destroys, late, queue, wapQueue,
                      dispatching, workers, busy, pending>>
      BY <1>7, <2>1 DEF Submit, initVars, workerVars
    <3>2. QED  BY <1>1, <3>1
  <2>2. CASE ~fallbackMode
    <3>1. /\ \E k \in Run : awaits[t] = k /\ initRun[k] = "done"
          /\ dispatching' = TRUE
          /\ UNCHANGED <<initPromise, inits, initRun, destroys>>
      BY <1>7, <2>2 DEF Submit, initVars
    <3>2. ASSUME destroys = 0  PROVE initRun[1] = "done"
      BY <3>1, <3>2, OnlyRun
    <3>3. OneInitInv'
      BY <3>1, <3>2 DEF OneInitInv
    <3>4. StrandedOnlyByLateAnswer'
      BY <3>1 DEF StrandedOnlyByLateAnswer, NoStrandedTask
    <3>5. QED  BY <3>3, <3>4
  <2>3. QED  BY <2>1, <2>2
<1>8. ASSUME NEW t \in Task, MainThreadDone(t)  PROVE StrandedInv'
  BY <1>1, <1>8 DEF MainThreadDone, initVars, workerVars
<1>9. ASSUME NEW t \in Task, Timeout(t)  PROVE StrandedInv'
  <2>1. pending' \subseteq pending
    BY <1>9 DEF Timeout
  <2>2. QED  BY <1>1, <1>9, <2>1 DEF Timeout, initVars, workerVars
<1>10. CASE DispatchProve \/ DispatchWap
  <2>1. /\ dispatching /\ dispatching' = dispatching
        /\ UNCHANGED <<initPromise, inits, initRun, destroys>>
    BY <1>10 DEF DispatchProve, DispatchWap, initVars
  <2>2. OneInitInv'
    BY <2>1 DEF OneInitInv
  <2>3. StrandedOnlyByLateAnswer'
    BY <2>1 DEF StrandedOnlyByLateAnswer, NoStrandedTask
  <2>4. QED  BY <2>2, <2>3
<1>11. CASE DispatchDone
  <2>1. /\ IdleSlots = {} \/ (queue = <<>> /\ wapQueue = <<>>)
        /\ dispatching /\ dispatching' = FALSE
        /\ UNCHANGED <<initPromise, inits, initRun, destroys, queue, wapQueue,
                       workers, busy>>
    BY <1>11 DEF DispatchDone, initVars, taskVars, workerVars
  <2>2. OneInitInv'
    BY <2>1 DEF OneInitInv
  <2>3. IdleSlots' = {} \/ Queued' = {}
    BY <2>1, ElemsEmpty DEF IdleSlots, Queued
  <2>4. QED  BY <2>2, <2>3 DEF StrandedOnlyByLateAnswer, NoStrandedTask
<1>12. ASSUME NEW w \in Thread, NEW t \in Task, WorkerAnswer(w, t)  PROVE StrandedInv'
  <2>1. UNCHANGED <<initPromise, inits, initRun, destroys, queue, wapQueue>>
    BY <1>12 DEF WorkerAnswer, initVars
  <2>2. CASE t \in pending
    <3>1. dispatching' = TRUE
      BY <1>12, <2>2 DEF WorkerAnswer
    <3>2. StrandedOnlyByLateAnswer'
      BY <3>1 DEF StrandedOnlyByLateAnswer, NoStrandedTask
    <3>3. OneInitInv'
      <4>1. ASSUME destroys = 0  PROVE initRun[1] = "done"
        BY <2>2, <4>1 DEF OneInitInv
      <4>2. QED  BY <2>1, <4>1 DEF OneInitInv
    <3>4. QED  BY <3>2, <3>3
  <2>3. CASE t \notin pending
    <3>1. late' # {} /\ UNCHANGED <<pending, dispatching>>
      BY <1>12, <2>3 DEF WorkerAnswer
    <3>2. OneInitInv'
      BY <2>1, <3>1 DEF OneInitInv
    <3>3. QED  BY <3>1, <3>2 DEF StrandedOnlyByLateAnswer
  <2>4. QED  BY <2>2, <2>3
<1>13. ASSUME NEW w \in Thread, Die(w)  PROVE StrandedInv'
  BY <1>1, <1>13 DEF Die, initVars, taskVars
<1>14. ASSUME NEW w \in Thread, WarmComplete(w)  PROVE StrandedInv'
  BY <1>1, <1>14 DEF WarmComplete, initVars, taskVars
<1>15. CASE WarmCircuits
  BY <1>1, <1>15 DEF WarmCircuits, initVars, taskVars
<1>16. CASE Destroy
  <2>1. destroys' # 0 /\ UNCHANGED <<inits, initRun>>
    BY <1>16 DEF Destroy, TypeOK
  <2>2. QED  BY <2>1 DEF OneInitInv, StrandedOnlyByLateAnswer
<1>17. CASE UNCHANGED vars
  BY <1>1, <1>17 DEF vars, initVars, taskVars, workerVars
<1>18. QED
  BY <1>3, <1>4, <1>5, <1>6, <1>7, <1>8, <1>9, <1>10, <1>11, <1>12, <1>13,
     <1>14, <1>15, <1>16, <1>17
  DEF Next, Dispatch

LEMMA StrandedInit == Init => StrandedInv
<1> SUFFICES ASSUME Init  PROVE StrandedInv
  OBVIOUS
<1>1. \A k \in Run : initRun[k] = "none"
  BY DEF Init
<1>2. Queued = {}
  BY ElemsEmpty DEF Init, Queued
<1>3. QED
  BY <1>1, <1>2 DEF Init, StrandedInv, OneInitInv, StrandedOnlyByLateAnswer, NoStrandedTask

\* Unless the answer of a timed-out task came late, or the manager was
\* destroyed, no live task waits beside an idle worker, in any pool.
THEOREM StrandedOnlyLate == Spec => []StrandedOnlyByLateAnswer
BY StrandedInit, StrandedStep, TypeCorrect, PTL DEF Spec, StrandedInv

-----------------------------------------------------------------------------
(* Each queue in the order of its ids, each task in one place.             *)

\* The ids of a queue's tasks grow from its head on.
Ascending(q) ==
  \A i, j \in DOMAIN q : i < j => id[q[i]] < id[q[j]]

\* An id is given once, to a task that awaited its submission, and it is the
\* largest so far; so what is appended to a queue is younger than all that is
\* queued or sent.  SentInOrder makes Queued and Sent disjoint.
OrderInv ==
  /\ \A t \in Task :
       /\ id[t] < nextId
       /\ stage[t] \in {"new", "awaiting"} => id[t] = 0
  /\ \A t \in Queued \cup Sent : id[t] # 0
  /\ Elems(queue) \cap Wap = {} /\ Elems(wapQueue) \subseteq Wap
  /\ Ascending(queue) /\ Ascending(wapQueue)
  /\ \A v, w \in Thread : job[v] \cap job[w] # {} => v = w
  /\ SentInOrder

\* A live thread belongs to a run that has collected it, or to a pool that is
\* installed; before a destroy() nothing but the one run installs a pool.
ThreadInv ==
  /\ \A w \in Thread :
       thread[w] = "up" /\ initRun[w[1]] # "done" =>
         initRun[w[1]] = "spawning" /\ w \in Elems(spawned[w[1]])
  /\ destroys = 0 /\ workers # <<>> => initRun[1] = "done"
  /\ NoThreadLeak

LEMMA AscendingTail ==
  ASSUME NEW q \in Seq(Task), q # <<>>, Ascending(q)
  PROVE  /\ Ascending(Tail(q))
         /\ \A u \in Elems(Tail(q)) : id[Head(q)] < id[u]
<1>1. /\ DOMAIN q = 1 .. Len(q)
      /\ DOMAIN Tail(q) = 1 .. (Len(q) - 1)
      /\ Len(q) \in Nat \ {0}
  BY HeadTailProperties, LenProperties, EmptySeq
<1>2. \A i \in DOMAIN Tail(q) : i + 1 \in DOMAIN q /\ Tail(q)[i] = q[i + 1]
  BY <1>1, HeadTailProperties
<1>3. Head(q) = q[1] /\ 1 \in DOMAIN q
  BY <1>1
<1>4. ASSUME NEW i \in DOMAIN Tail(q), NEW j \in DOMAIN Tail(q), i < j
      PROVE  id[Tail(q)[i]] < id[Tail(q)[j]]
  <2>1. i + 1 < j + 1
    BY <1>1, <1>4
  <2>2. QED  BY <1>2, <2>1 DEF Ascending
<1>5. ASSUME NEW i \in DOMAIN Tail(q)  PROVE id[Head(q)] < id[Tail(q)[i]]
  <2>1. 1 < i + 1
    BY <1>1
  <2>2. QED  BY <1>2, <1>3, <2>1 DEF Ascending
<1>6. QED  BY <1>4, <1>5 DEF Ascending, Elems

\* A task with the next id goes behind all the others.
LEMMA AscendingAppend ==
  ASSUME NEW q \in Seq(Task), NEW t \in Task, Ascending(q), t \notin Elems(q),
         \A u \in Elems(q) : id'[u] = id[u] /\ id[u] < id'[t]
  PROVE  \A i, j \in DOMAIN Append(q, t) :
           i < j => id'[Append(q, t)[i]] < id'[Append(q, t)[j]]
<1>1. /\ DOMAIN q = 1 .. Len(q) /\ Len(q) \in Nat
      /\ DOMAIN Append(q, t) = 1 .. (Len(q) + 1)
      /\ \A i \in 1 .. Len(q) : Append(q, t)[i] = q[i]
      /\ Append(q, t)[Len(q) + 1] = t
  BY AppendProperties, LenProperties
<1>2. \A i \in DOMAIN q : q[i] \in Elems(q)
  BY DEF Elems
<1>3. ASSUME NEW i \in DOMAIN Append(q, t), NEW j \in DOMAIN Append(q, t), i < j
      PROVE  id'[Append(q, t)[i]] < id'[Append(q, t)[j]]
  <2>1. i \in DOMAIN q
    BY <1>1, <1>3
  <2>2. CASE j \in DOMAIN q
    BY <1>1, <1>2, <1>3, <2>1, <2>2 DEF Ascending
  <2>3. CASE j = Len(q) + 1
    BY <1>1, <1>2, <2>1, <2>3
  <2>4. QED  BY <1>1, <2>2, <2>3
<1>4. QED  BY <1>3

\* A step that gives no id, queues nothing and sends nothing.
LEMMA OrderKept ==
  ASSUME TypeOK, OrderInv, stage' \in [Task -> Stage],
         UNCHANGED <<id, nextId>>,
         \A t \in Task : stage'[t] \in {"new", "awaiting"} => stage[t] \in {"new", "awaiting"},
         \A w \in Thread : job'[w] \subseteq job[w],
         UNCHANGED wapQueue, UNCHANGED queue \/ queue' = <<>>
  PROVE  OrderInv'
<1>1. Sent' \subseteq Sent /\ Elems(wapQueue') = Elems(wapQueue)
  BY DEF Sent
<1>2. Elems(queue') \subseteq Elems(queue) /\ Queued' \subseteq Queued
  BY ElemsEmpty DEF Queued
<1>3. Ascending(queue)' /\ Ascending(wapQueue)'
  BY DEF Ascending, OrderInv
<1>4. \A v, w \in Thread : job'[v] \cap job'[w] # {} => v = w
  BY DEF OrderInv
<1>5. SentInOrder'
  BY <1>1, <1>2 DEF SentInOrder, OrderInv
<1>6. \A t \in Queued' \cup Sent' : id'[t] # 0
  BY <1>1, <1>2 DEF OrderInv
<1>7. Elems(queue') \cap Wap = {} /\ Elems(wapQueue') \subseteq Wap
  BY <1>1, <1>2 DEF OrderInv
<1>8. \A t \in Task : /\ id'[t] < nextId'
                      /\ stage'[t] \in {"new", "awaiting"} => id'[t] = 0
  BY DEF OrderInv
<1>9. QED  BY <1>3, <1>4, <1>5, <1>6, <1>7, <1>8 DEF OrderInv

LEMMA OrderSubmit ==
  ASSUME TypeOK, OrderInv, NEW t \in Task, Submit(t)
  PROVE  OrderInv'
<1>1. CASE fallbackMode
  <2>1. /\ stage' = [stage EXCEPT ![t] = "main"]
        /\ UNCHANGED <<id, nextId, job, queue, wapQueue>>
    BY <1>1 DEF Submit, workerVars
  <2>2. stage' \in [Task -> Stage]
    BY <2>1 DEF TypeOK, Stage
  <2>3. \A u \in Task : stage'[u] \in {"new", "awaiting"} => stage[u] \in {"new", "awaiting"}
    BY <2>1 DEF TypeOK
  <2>4. QED  BY <2>1, <2>2, <2>3, OrderKept
<1>2. CASE ~fallbackMode
  <2>1. /\ stage[t] = "awaiting"
        /\ stage' = [stage EXCEPT ![t] = "submitted"]
        /\ id' = [id EXCEPT ![t] = nextId]
        /\ nextId' = nextId + 1
        /\ queue' = IF t \in Wap THEN queue ELSE Append(queue, t)
        /\ wapQueue' = IF t \in Wap THEN Append(wapQueue, t) ELSE wapQueue
        /\ job' = job
    BY <1>2 DEF Submit, workerVars
  <2>2. id[t] = 0 /\ t \notin Queued \cup Sent
    BY <2>1 DEF OrderInv
  <2>3. /\ id'[t] = nextId
        /\ \A u \in Task : u # t => id'[u] = id[u]
        /\ nextId \in Nat \ {0}
    BY <2>1 DEF TypeOK
  <2>4. Queued \subseteq Task /\ Sent \subseteq Task
    BY LenProperties, ElementOfSeq DEF TypeOK, Queued, Sent, Elems
  <2>5. \A u \in Queued \cup Sent : u # t /\ id'[u] = id[u] /\ id[u] < id'[t]
    BY <2>2, <2>3, <2>4 DEF OrderInv
  <2>6. Sent' = Sent
    BY <2>1 DEF Sent
  <2>7. /\ Elems(queue') = IF t \in Wap THEN Elems(queue) ELSE Elems(queue) \cup {t}
        /\ Elems(wapQueue') = IF t \in Wap THEN Elems(wapQueue) \cup {t} ELSE Elems(wapQueue)
    <3>1. Elems(Append(queue, t)) = Elems(queue) \cup {t}
      BY ElemsAppend DEF TypeOK
    <3>2. Elems(Append(wapQueue, t)) = Elems(wapQueue) \cup {t}
      BY ElemsAppend DEF TypeOK
    <3>3. QED  BY <2>1, <3>1, <3>2
  <2>8. Queued' = Queued \cup {t}
    BY <2>7 DEF Queued
  <2>9. ASSUME NEW u \in Task
        PROVE  /\ id'[u] < nextId'
               /\ stage'[u] \in {"new", "awaiting"} => id'[u] = 0
    <3>1. id[u] < nextId /\ id[u] \in Nat
      BY DEF OrderInv, TypeOK
    <3>2. u # t => stage'[u] = stage[u]
      BY <2>1 DEF TypeOK
    <3>3. stage'[t] = "submitted"
      BY <2>1 DEF TypeOK
    <3>4. stage[u] \in {"new", "awaiting"} => id[u] = 0
      BY DEF OrderInv
    <3>5. QED  BY <2>1, <2>3, <3>1, <3>2, <3>3, <3>4
  <2>10. \A u \in Queued' \cup Sent' : id'[u] # 0
    BY <2>3, <2>5, <2>6, <2>8 DEF OrderInv
  <2>11. Elems(queue') \cap Wap = {} /\ Elems(wapQueue') \subseteq Wap
    BY <2>7 DEF OrderInv
  <2>12. Ascending(queue)'
    <3>1. CASE t \in Wap
      BY <2>1, <2>5, <3>1 DEF Ascending, OrderInv, Queued, Elems
    <3>2. CASE t \notin Wap
      <4>1. \A u \in Elems(queue) : id'[u] = id[u] /\ id[u] < id'[t]
        BY <2>5 DEF Queued
      <4>2. \A i, j \in DOMAIN Append(queue, t) :
              i < j => id'[Append(queue, t)[i]] < id'[Append(queue, t)[j]]
        BY <2>2, <4>1, AscendingAppend DEF OrderInv, TypeOK, Queued
      <4>3. QED  BY <2>1, <3>2, <4>2 DEF Ascending
    <3>3. QED  BY <3>1, <3>2
  <2>13. Ascending(wapQueue)'
    <3>1. CASE t \notin Wap
      BY <2>1, <2>5, <3>1 DEF Ascending, OrderInv, Queued, Elems
    <3>2. CASE t \in Wap
      <4>1. \A u \in Elems(wapQueue) : id'[u] = id[u] /\ id[u] < id'[t]
        BY <2>5 DEF Queued
      <4>2. \A i, j \in DOMAIN Append(wapQueue, t) :
              i < j => id'[Append(wapQueue, t)[i]] < id'[Append(wapQueue, t)[j]]
        BY <2>2, <4>1, AscendingAppend DEF OrderInv, TypeOK, Queued
      <4>3. QED  BY <2>1, <3>2, <4>2 DEF Ascending
    <3>3. QED  BY <3>1, <3>2
  <2>14. SentInOrder'
    BY <2>5, <2>6, <2>7 DEF SentInOrder, OrderInv, Queued
  <2>15. \A v, w \in Thread : job'[v] \cap job'[w] # {} => v = w
    BY <2>1 DEF OrderInv
  <2>16. QED
    BY <2>9, <2>10, <2>11, <2>12, <2>13, <2>14, <2>15 DEF OrderInv
<1>3. QED  BY <1>1, <1>2

\* What sending the task t, or skipping it, does to the workers.
LEMMA SendOrSkipPlaces ==
  ASSUME TypeOK, OrderInv, NEW t \in Task, t \notin Sent, SendOrSkip(t)
  PROVE  /\ Sent' \in {Sent, Sent \cup {t}}
         /\ \A v, w \in Thread : job'[v] \cap job'[w] # {} => v = w
<1>1. PICK i \in IdleSlots :
        IF t \in pending
        THEN /\ busy' = [busy EXCEPT ![workers[i]] = TRUE]
             /\ job' = [job EXCEPT ![workers[i]] = @ \cup {t}]
        ELSE UNCHANGED <<busy, job>>
  BY DEF SendOrSkip
<1>2. CASE t \notin pending
  BY <1>1, <1>2 DEF Sent, OrderInv
<1>3. CASE t \in pending
  <2> DEFINE x == workers[i]
  <2>1. x \in Thread
    BY LenProperties, ElementOfSeq DEF TypeOK, IdleSlots
  <2> HIDE DEF x
  <2>2. \A w \in Thread : job'[w] = IF w = x THEN job[w] \cup {t} ELSE job[w]
    BY <1>1, <1>3, <2>1 DEF TypeOK, x
  <2>3. \A w \in Thread : t \notin job[w]
    BY DEF Sent
  <2>4. Sent' = Sent \cup {t}
    BY <2>1, <2>2 DEF Sent
  <2>5. \A v, w \in Thread : job'[v] \cap job'[w] # {} => v = w
    <3>1. \A v, w \in Thread : job[v] \cap job[w] # {} => v = w
      BY DEF OrderInv
    <3>2. \A w \in Thread : job'[w] \subseteq job[w] \cup {t}
      BY ONLY <2>2
    <3>3. \A w \in Thread : t \in job'[w] => w = x
      BY ONLY <2>2, <2>3
    <3>4. \A v, w \in Thread : \A u \in job'[v] \cap job'[w] : v = w
      BY ONLY <2>3, <3>1, <3>2, <3>3
    <3>5. QED  BY ONLY <3>4
  <2>6. QED  BY <2>4, <2>5
<1>4. QED  BY <1>2, <1>3

LEMMA OrderDispatch ==
  ASSUME TypeOK, OrderInv, DispatchProve \/ DispatchWap
  PROVE  OrderInv'
<1>1. UNCHANGED <<id, nextId, stage>>
  BY DEF DispatchProve, DispatchWap
<1>2. \A t \in Task : /\ id'[t] < nextId'
                      /\ stage'[t] \in {"new", "awaiting"} => id'[t] = 0
  BY <1>1 DEF OrderInv
<1>3. ASSUME NEW t \in Sent, t \in Queued  PROVE FALSE
  <2>1. t \in Task /\ id[t] \in Nat
    BY DEF Sent, TypeOK
  <2>2. t \in Elems(queue) => t \notin Wap
    BY DEF OrderInv
  <2>3. t \in Elems(wapQueue) => t \in Wap
    BY DEF OrderInv
  <2>4. ~(id[t] < id[t])
    BY <2>1
  <2>5. QED  BY <1>3, <2>2, <2>3, <2>4 DEF OrderInv, SentInOrder, Queued
<1>4. CASE DispatchProve
  <2> DEFINE t == Head(queue)
  <2>1. /\ SendOrSkip(t)
        /\ queue # <<>> /\ queue' = Tail(queue)
        /\ UNCHANGED wapQueue
    BY <1>4 DEF DispatchProve
  <2>2. Elems(queue) = Elems(queue') \cup {t} /\ t \in Task
    BY <2>1, ElemsTail DEF TypeOK
  <2>3. Ascending(Tail(queue)) /\ \A u \in Elems(queue') : id[t] < id[u]
    BY <2>1, AscendingTail DEF OrderInv, TypeOK
  <2> HIDE DEF t
  <2>4. t \in Queued /\ t \notin Sent /\ t \notin Wap
    BY <1>3, <2>2 DEF Queued, OrderInv
  <2>5. /\ Sent' \in {Sent, Sent \cup {t}}
        /\ \A v, w \in Thread : job'[v] \cap job'[w] # {} => v = w
    BY <2>1, <2>2, <2>4, SendOrSkipPlaces
  <2>6. Queued' \subseteq Queued
    BY <2>1, <2>2 DEF Queued
  <2>7. \A u \in Queued' \cup Sent' : id'[u] # 0
    BY <1>1, <2>4, <2>5, <2>6 DEF OrderInv
  <2>8. Ascending(queue)' /\ Ascending(wapQueue)'
    BY <1>1, <2>1, <2>3 DEF Ascending, OrderInv
  <2>9. Elems(queue') \cap Wap = {} /\ Elems(wapQueue') \subseteq Wap
    BY <2>1, <2>2 DEF OrderInv
  <2>10. SentInOrder'
    BY <1>1, <2>1, <2>2, <2>3, <2>4, <2>5 DEF SentInOrder, OrderInv
  <2>11. QED
    BY <1>2, <2>5, <2>7, <2>8, <2>9, <2>10 DEF OrderInv
<1>5. CASE DispatchWap
  <2> DEFINE t == Head(wapQueue)
  <2>1. /\ SendOrSkip(t)
        /\ wapQueue # <<>> /\ wapQueue' = Tail(wapQueue)
        /\ UNCHANGED queue
    BY <1>5 DEF DispatchWap
  <2>2. Elems(wapQueue) = Elems(wapQueue') \cup {t} /\ t \in Task
    BY <2>1, ElemsTail DEF TypeOK
  <2>3. Ascending(Tail(wapQueue)) /\ \A u \in Elems(wapQueue') : id[t] < id[u]
    BY <2>1, AscendingTail DEF OrderInv, TypeOK
  <2> HIDE DEF t
  <2>4. t \in Queued /\ t \notin Sent /\ t \in Wap
    BY <1>3, <2>2 DEF Queued, OrderInv
  <2>5. /\ Sent' \in {Sent, Sent \cup {t}}
        /\ \A v, w \in Thread : job'[v] \cap job'[w] # {} => v = w
    BY <2>1, <2>2, <2>4, SendOrSkipPlaces
  <2>6. Queued' \subseteq Queued
    BY <2>1, <2>2 DEF Queued
  <2>7. \A u \in Queued' \cup Sent' : id'[u] # 0
    BY <1>1, <2>4, <2>5, <2>6 DEF OrderInv
  <2>8. Ascending(queue)' /\ Ascending(wapQueue)'
    BY <1>1, <2>1, <2>3 DEF Ascending, OrderInv
  <2>9. Elems(queue') \cap Wap = {} /\ Elems(wapQueue') \subseteq Wap
    BY <2>1, <2>2 DEF OrderInv
  <2>10. SentInOrder'
    BY <1>1, <2>1, <2>2, <2>3, <2>4, <2>5 DEF SentInOrder, OrderInv
  <2>11. QED
    BY <1>2, <2>5, <2>7, <2>8, <2>9, <2>10 DEF OrderInv
<1>6. QED  BY <1>4, <1>5

LEMMA OrderStep ==
  ASSUME TypeOK, TypeOK', OrderInv, [Next]_vars
  PROVE  OrderInv'
<1>1. ASSUME UNCHANGED <<id, nextId, stage, queue, wapQueue, job>>  PROVE OrderInv'
  BY <1>1, OrderKept DEF TypeOK
<1>2. ASSUME NEW t \in Task, NEW o \in Stage \ {"new", "awaiting"},
             stage' = [stage EXCEPT ![t] = o],
             UNCHANGED <<id, nextId, queue, wapQueue>>,
             \A w \in Thread : job'[w] \subseteq job[w]
      PROVE  OrderInv'
  <2>1. \A u \in Task : stage'[u] \in {"new", "awaiting"} => stage[u] \in {"new", "awaiting"}
    BY <1>2 DEF TypeOK
  <2>2. QED  BY <1>2, <2>1, OrderKept DEF TypeOK
<1>3. CASE InitPool
  BY <1>1, <1>3 DEF InitPool, taskVars, workerVars
<1>4. ASSUME NEW k \in Run, Spawn(k) \/ FinishInit(k)  PROVE OrderInv'
  BY <1>1, <1>4 DEF Spawn, FinishInit, taskVars
<1>5. ASSUME NEW t \in Task, Call(t)  PROVE OrderInv'
  <2>1. /\ stage[t] = "new"
        /\ stage' = [stage EXCEPT ![t] = "awaiting"]
        /\ UNCHANGED <<id, nextId, queue, wapQueue, job>>
    BY <1>5 DEF Call, workerVars
  <2>2. \A u \in Task : stage'[u] \in {"new", "awaiting"} => stage[u] \in {"new", "awaiting"}
    BY <2>1 DEF TypeOK
  <2>3. QED  BY <2>1, <2>2, OrderKept DEF TypeOK
<1>6. ASSUME NEW t \in Task, Submit(t)  PROVE OrderInv'
  BY <1>6, OrderSubmit
<1>7. ASSUME NEW t \in Task, MainThreadDone(t)  PROVE OrderInv'
  BY <1>2, <1>7 DEF MainThreadDone, workerVars, Stage, Settled
<1>8. ASSUME NEW t \in Task, Timeout(t)  PROVE OrderInv'
  BY <1>2, <1>8 DEF Timeout, workerVars, Stage, Settled
<1>9. CASE DispatchProve \/ DispatchWap
  BY <1>9, OrderDispatch
<1>10. CASE DispatchDone
  BY <1>1, <1>10 DEF DispatchDone, taskVars, workerVars
<1>11. ASSUME NEW w \in Thread, NEW t \in Task, WorkerAnswer(w, t)  PROVE OrderInv'
  <2>1. /\ UNCHANGED <<id, nextId, queue, wapQueue>>
        /\ \A v \in Thread : job'[v] \subseteq job[v]
    BY <1>11 DEF WorkerAnswer, TypeOK
  <2>2. CASE t \in pending
    <3>1. PICK o \in {"resolved", "rejected"} : stage' = [stage EXCEPT ![t] = o]
      BY <1>11, <2>2 DEF WorkerAnswer
    <3>2. QED  BY <1>2, <2>1, <3>1 DEF Stage, Settled
  <2>3. CASE t \notin pending
    <3>1. stage' = stage
      BY <1>11, <2>3 DEF WorkerAnswer
    <3>2. QED  BY <2>1, <3>1, OrderKept DEF TypeOK
  <2>4. QED  BY <2>2, <2>3
<1>12. ASSUME NEW w \in Thread, Die(w) \/ WarmComplete(w)  PROVE OrderInv'
  BY <1>1, <1>12 DEF Die, WarmComplete, taskVars
<1>13. CASE WarmCircuits
  BY <1>1, <1>13 DEF WarmCircuits, taskVars
<1>14. CASE Destroy
  <2>1. /\ UNCHANGED <<id, nextId, wapQueue, job>>
        /\ queue' = <<>>
        /\ stage' = [t \in Task |-> IF t \in pending THEN "destroyed" ELSE stage[t]]
    BY <1>14 DEF Destroy
  <2>2. \A u \in Task : stage'[u] \in {"new", "awaiting"} => stage[u] \in {"new", "awaiting"}
    BY <2>1
  <2>3. QED  BY <2>1, <2>2, OrderKept DEF TypeOK
<1>15. CASE UNCHANGED vars
  BY <1>1, <1>15 DEF vars, taskVars, workerVars
<1>16. QED
  BY <1>3, <1>4, <1>5, <1>6, <1>7, <1>8, <1>9, <1>10, <1>11, <1>12, <1>13, <1>14, <1>15
  DEF Next, Dispatch

LEMMA OrderInit == Init => OrderInv
<1> SUFFICES ASSUME Init  PROVE OrderInv
  OBVIOUS
<1>1. Queued = {} /\ Sent = {} /\ Elems(queue) = {} /\ Elems(wapQueue) = {}
  BY ElemsEmpty DEF Init, Queued, Sent
<1>2. Ascending(queue) /\ Ascending(wapQueue)
  BY DEF Init, Ascending
<1>3. QED  BY <1>1, <1>2 DEF Init, OrderInv, SentInOrder

LEMMA OrderInvariant == Spec => []OrderInv
BY OrderInit, OrderStep, TypeCorrect, PTL DEF Spec

\* No task is with two workers, nor with one and still queued, in any pool:
\* a proof is computed once.
THEOREM Once == Spec => []ProvedOnce
<1>1. ASSUME TypeOK, OrderInv  PROVE ProvedOnce
  <2>1. ASSUME NEW t \in Sent, t \in Queued  PROVE FALSE
    <3>1. id[t] \in Nat
      BY <1>1 DEF Sent, TypeOK
    <3>2. ~(id[t] < id[t])
      BY <3>1
    <3>3. QED  BY <1>1, <2>1, <3>2 DEF OrderInv, SentInOrder, Queued
  <2>2. QED  BY <1>1, <2>1 DEF ProvedOnce, OrderInv
<1>2. QED  BY <1>1, OrderInvariant, TypeCorrect, PTL

\* Each queue is served in the order of submission, in any pool, also when
\* tasks time out in it and when destroy() empties it.
THEOREM InOrder == Spec => []SentInOrder
BY OrderInvariant, PTL DEF OrderInv

-----------------------------------------------------------------------------
(* One pool, whoever calls init().                                         *)

\* A step that spawns nothing and installs nothing.
LEMMA ThreadKept ==
  ASSUME TypeOK, ThreadInv, UNCHANGED <<initRun, spawned, workers, destroys>>,
         \A w \in Thread : thread'[w] = "up" => thread[w] = "up"
  PROVE  ThreadInv'
BY DEF ThreadInv, NoThreadLeak

LEMMA ThreadInitAs ==
  ASSUME TypeOK, OneInitInv, ThreadInv, NEW k \in Run, InitAs(k),
         UNCHANGED <<thread, workers, destroys>>
  PROVE  ThreadInv'
<1>1. CASE initPromise # 0
  BY <1>1, ThreadKept DEF InitAs, initVars
<1>2. CASE initPromise = 0
  <2>1. /\ k = inits + 1 /\ spawned' = spawned
        /\ initRun' = [initRun EXCEPT ![k] = IF PoolSize = 0 THEN "done" ELSE "spawning"]
    BY <1>2 DEF InitAs
  <2>2. initRun[k] = "none"
    <3>1. ~(k <= inits)
      BY <2>1 DEF TypeOK
    <3>2. QED  BY <3>1 DEF OneInitInv
  <2>3. \A w \in Thread : w[1] = k => thread[w] # "up"
    BY <2>2 DEF ThreadInv
  <2>4. \A j \in Run : j # k => initRun'[j] = initRun[j]
    BY <2>1 DEF TypeOK
  <2>5. \A w \in Thread : w[1] \in Run
    BY DEF Thread
  <2>6. ASSUME NEW w \in Thread, thread'[w] = "up"
        PROVE  /\ initRun'[w[1]] # "done" =>
                    initRun'[w[1]] = "spawning" /\ w \in Elems(spawned'[w[1]])
               /\ destroys' = 0 => w \in Elems(workers') \/ initRun'[w[1]] = "spawning"
    <3>1. w[1] # k /\ initRun'[w[1]] = initRun[w[1]] /\ thread[w] = "up"
      BY <2>3, <2>4, <2>5, <2>6
    <3>2. QED  BY <2>1, <3>1 DEF ThreadInv, NoThreadLeak
  <2>7. ASSUME destroys' = 0, workers' # <<>>  PROVE initRun'[1] = "done"
    <3>1. initRun[1] = "done"
      BY <2>7 DEF ThreadInv
    <3>2. 1 \in Run
      BY PoolAssumption DEF Run
    <3>3. QED  BY <2>2, <2>4, <3>1, <3>2
  <2>8. QED  BY <2>6, <2>7 DEF ThreadInv, NoThreadLeak
<1>3. QED  BY <1>1, <1>2

LEMMA ThreadSpawn ==
  ASSUME TypeOK, ThreadInv, NEW k \in Run, Spawn(k)
  PROVE  ThreadInv'
<1> DEFINE w == <<k, attempts[k] + 1>>
<1>1. /\ initRun[k] = "spawning" /\ attempts[k] < PoolSize
      /\ UNCHANGED <<initRun, workers, destroys>>
      /\ \/ /\ thread' = [thread EXCEPT ![w] = "up"]
            /\ spawned' = [spawned EXCEPT ![k] = Append(spawned[k], w)]
         \/ UNCHANGED <<thread, spawned>>
  BY DEF Spawn
<1>2. w \in Thread /\ w[1] = k
  <2>1. attempts[k] \in 0 .. PoolSize
    BY DEF TypeOK
  <2>2. attempts[k] + 1 \in 1 .. PoolSize
    BY ONLY <1>1, <2>1, PoolAssumption
  <2>3. QED  BY ONLY <2>2, k \in Run DEF Thread
<1> HIDE DEF w
<1>3. CASE UNCHANGED <<thread, spawned>>
  BY <1>1, <1>3, ThreadKept
<1>4. CASE /\ thread' = [thread EXCEPT ![w] = "up"]
           /\ spawned' = [spawned EXCEPT ![k] = Append(spawned[k], w)]
  <2>1. Elems(spawned'[k]) = Elems(spawned[k]) \cup {w}
    BY <1>2, <1>4, ElemsAppend DEF TypeOK
  <2>2. \A j \in Run : j # k => spawned'[j] = spawned[j]
    BY <1>4 DEF TypeOK
  <2>3. \A v \in Thread : v # w => thread'[v] = thread[v]
    BY <1>2, <1>4 DEF TypeOK
  <2>4. \A v \in Thread : v[1] \in Run
    BY DEF Thread
  <2>5. ASSUME NEW v \in Thread, thread'[v] = "up"
        PROVE  /\ initRun'[v[1]] # "done" =>
                    initRun'[v[1]] = "spawning" /\ v \in Elems(spawned'[v[1]])
               /\ destroys' = 0 => v \in Elems(workers') \/ initRun'[v[1]] = "spawning"
    <3>1. CASE v = w
      BY <1>1, <1>2, <2>1, <3>1
    <3>2. CASE v # w
      <4>1. thread[v] = "up"
        BY <2>3, <2>5, <3>2
      <4>2. Elems(spawned[v[1]]) \subseteq Elems(spawned'[v[1]])
        BY <2>1, <2>2, <2>4
      <4>3. QED  BY <1>1, <4>1, <4>2 DEF ThreadInv, NoThreadLeak
    <3>3. QED  BY <3>1, <3>2
  <2>6. QED  BY <1>1, <2>5 DEF ThreadInv, NoThreadLeak
<1>5. QED  BY <1>1, <1>3, <1>4

\* The run that installs its pool is the only one, and no pool is installed
\* before it: none of its threads is left out and none of another run exists.
LEMMA ThreadFinish ==
  ASSUME TypeOK, OneInitInv, ThreadInv, NEW k \in Run, FinishInit(k)
  PROVE  ThreadInv'
<1>1. /\ initRun[k] = "spawning"
      /\ initRun' = [initRun EXCEPT ![k] = "done"]
      /\ workers' = IF spawned[k] = <<>> THEN workers ELSE spawned[k]
      /\ UNCHANGED <<spawned, thread, destroys>>
  BY DEF FinishInit
<1>2. \A j \in Run : initRun'[j] = IF j = k THEN "done" ELSE initRun[j]
  BY <1>1 DEF TypeOK
<1>3. \A v \in Thread : v[1] \in Run
  BY DEF Thread
<1>4. ASSUME NEW v \in Thread, thread'[v] = "up", initRun'[v[1]] # "done"
      PROVE  initRun'[v[1]] = "spawning" /\ v \in Elems(spawned'[v[1]])
  <2>1. initRun[v[1]] = initRun'[v[1]]
    BY <1>2, <1>3, <1>4
  <2>2. QED  BY <1>1, <1>4, <2>1 DEF ThreadInv
<1>5. ASSUME destroys' = 0
      PROVE  /\ initRun'[1] = "done"
             /\ \A v \in Thread : thread'[v] = "up" => v \in Elems(workers')
  <2>1. k = 1 /\ destroys = 0
    BY <1>1, <1>5, OnlyRun
  <2>2. workers = <<>>
    BY <1>1, <2>1 DEF ThreadInv
  <2>3. ASSUME NEW v \in Thread, thread'[v] = "up"  PROVE v \in Elems(workers')
    <3>1. thread[v] = "up" /\ v \notin Elems(workers)
      BY <1>1, <2>2, <2>3, ElemsEmpty
    <3>2. initRun[v[1]] = "spawning"
      BY <2>1, <3>1 DEF ThreadInv, NoThreadLeak
    <3>3. v[1] = k
      BY <1>3, <2>1, <3>2, OnlyRun
    <3>4. v \in Elems(spawned[k])
      BY <3>1, <3>2, <3>3 DEF ThreadInv
    <3>5. QED  BY <1>1, <3>4, ElemsEmpty
  <2>4. QED  BY <1>1, <1>2, <2>1, <2>3
<1>6. QED  BY <1>4, <1>5 DEF ThreadInv, NoThreadLeak

LEMMA ThreadStep ==
  ASSUME TypeOK, OneInitInv, ThreadInv, [Next]_vars
  PROVE  ThreadInv'
<1>1. CASE InitPool
  BY <1>1, ThreadInitAs DEF InitPool, workerVars
<1>2. ASSUME NEW k \in Run, Spawn(k)  PROVE ThreadInv'
  BY <1>2, ThreadSpawn
<1>3. ASSUME NEW k \in Run, FinishInit(k)  PROVE ThreadInv'
  BY <1>3, ThreadFinish
<1>4. ASSUME NEW t \in Task, Call(t)  PROVE ThreadInv'
  BY <1>4, ThreadInitAs DEF Call, workerVars
<1>5. ASSUME NEW t \in Task, Submit(t) \/ MainThreadDone(t) \/ Timeout(t)
      PROVE  ThreadInv'
  BY <1>5, ThreadKept DEF Submit, MainThreadDone, Timeout, initVars, workerVars
<1>6. CASE Dispatch
  BY <1>6, ThreadKept
  DEF Dispatch, DispatchProve, DispatchWap, DispatchDone, initVars, workerVars
<1>7. ASSUME NEW w \in Thread, NEW t \in Task, WorkerAnswer(w, t)  PROVE ThreadInv'
  <2>1. UNCHANGED <<initRun, spawned, workers, destroys, thread>>
    BY <1>7 DEF WorkerAnswer, initVars
  <2>2. QED  BY <2>1, ThreadKept
<1>8. ASSUME NEW w \in Thread, Die(w)  PROVE ThreadInv'
  <2>1. /\ thread' = [thread EXCEPT ![w] = "dead"]
        /\ UNCHANGED <<initRun, spawned, workers, destroys>>
    BY <1>8 DEF Die, initVars
  <2>2. \A v \in Thread : thread'[v] = "up" => thread[v] = "up"
    BY <2>1 DEF TypeOK
  <2>3. QED  BY <2>1, <2>2, ThreadKept
<1>9. ASSUME NEW w \in Thread, WarmComplete(w)  PROVE ThreadInv'
  BY <1>9, ThreadKept DEF WarmComplete, initVars
<1>10. CASE WarmCircuits
  BY <1>10, ThreadKept DEF WarmCircuits, initVars
<1>11. CASE Destroy
  <2>1. /\ destroys' = destroys + 1
        /\ thread' = [w \in Thread |-> IF thread[w] = "up" /\ w \in Elems(workers)
                                         THEN "terminated" ELSE thread[w]]
        /\ UNCHANGED <<initRun, spawned>>
    BY <1>11 DEF Destroy
  <2>2. destroys' # 0
    BY <2>1 DEF TypeOK
  <2>3. \A v \in Thread : thread'[v] = "up" => thread[v] = "up"
    BY <2>1
  <2>4. QED  BY <2>1, <2>2, <2>3 DEF ThreadInv, NoThreadLeak
<1>12. CASE UNCHANGED vars
  BY <1>12, ThreadKept DEF vars, initVars, workerVars
<1>13. QED
  BY <1>1, <1>2, <1>3, <1>4, <1>5, <1>6, <1>7, <1>8, <1>9, <1>10, <1>11, <1>12 DEF Next

LEMMA ThreadInit == Init => ThreadInv
BY DEF Init, ThreadInv, NoThreadLeak

LEMMA OneInit == Spec => []OneInitInv
BY StrandedInit, StrandedStep, TypeCorrect, PTL DEF Spec, StrandedInv

\* However many callers race for init(), every live thread is in the pool or
\* in the one run that is about to install it, until a destroy().
THEOREM NoLeak == Spec => []NoThreadLeak
BY ThreadInit, ThreadStep, OneInit, TypeCorrect, PTL DEF Spec, ThreadInv

-----------------------------------------------------------------------------
(* The pool keeps the contract of an asynchronous call.                    *)

PendingInv == \A t \in pending : stage[t] = "submitted"

LEMMA SettleStep ==
  ASSUME NEW R \in SUBSET Task, R # {},
         TypeOK,
         stage' \in [Task -> Stage],
         \A t \in R : stage[t] \in Open /\ stage'[t] \in Settled,
         \A t \in Task \ R : stage'[t] = stage[t]
  PROVE  Contract!Next
<1> DEFINE a == [r \in R |-> stage'[r]]
<1>1. R \subseteq OpenCalls
  BY DEF OpenCalls
<1>2. OpenCalls' = OpenCalls \ R
  BY DEF OpenCalls, Open, Settled
<1>3. DOMAIN Answers = {t \in Task : stage[t] \in Settled}
  BY DEF Answers
<1>4. {t \in Task : stage'[t] \in Settled} = DOMAIN Answers \cup R
  BY <1>3 DEF Open, Settled
<1>5. Answers' = [r \in DOMAIN Answers \cup R |-> IF r \in R THEN a[r] ELSE Answers[r]]
  BY <1>3, <1>4 DEF Answers, Open, Settled
<1>6. a \in [R -> Settled]
  OBVIOUS
<1>7. Contract!Settle(R)
  BY <1>1, <1>2, <1>5, <1>6 DEF Contract!Settle, Contract!Settled
<1>8. QED  BY <1>7 DEF Contract!Next

LEMMA StutterStep ==
  ASSUME \A t \in Task : \/ stage'[t] = stage[t]
                         \/ stage[t] \in Open /\ stage'[t] \in Open
  PROVE  UNCHANGED <<OpenCalls, Answers>>
<1>1. OpenCalls' = OpenCalls
  BY DEF OpenCalls
<1>2. {t \in Task : stage'[t] \in Settled} = {t \in Task : stage[t] \in Settled}
  BY DEF Open, Settled
<1>3. \A t \in Task : stage[t] \in Settled => stage'[t] = stage[t]
  BY DEF Open, Settled
<1>4. Answers' = Answers
  BY <1>2, <1>3 DEF Answers
<1>5. QED  BY <1>1, <1>4

LEMMA ContractStep ==
  ASSUME TypeOK, TypeOK', PendingInv, [Next]_vars
  PROVE  PendingInv' /\ [Contract!Next]_<<OpenCalls, Answers>>
<1> DEFINE Good == PendingInv' /\ [Contract!Next]_<<OpenCalls, Answers>>
<1> SUFFICES Good
  OBVIOUS
<1>1. ASSUME UNCHANGED stage, pending' \subseteq pending  PROVE Good
  BY <1>1, StutterStep DEF PendingInv
<1>2. ASSUME NEW t \in Task, stage[t] \in Open, stage'[t] \in Settled,
             stage' = [stage EXCEPT ![t] = stage'[t]],
             pending' \subseteq pending \ {t}
      PROVE  Good
  <2>1. \A u \in Task \ {t} : stage'[u] = stage[u]
    BY <1>2 DEF TypeOK
  <2>2. PendingInv'
    BY <1>2, <2>1 DEF PendingInv, TypeOK
  <2>3. Contract!Next
    <3>1. {t} \in SUBSET Task /\ {t} # {}
      OBVIOUS
    <3>2. \A u \in {t} : stage[u] \in Open /\ stage'[u] \in Settled
      BY <1>2
    <3>3. \A u \in Task \ {t} : stage'[u] = stage[u]
      BY <2>1
    <3>4. stage' \in [Task -> Stage]
      BY DEF TypeOK
    <3>5. QED  BY <3>1, <3>2, <3>3, <3>4, SettleStep
  <2>4. QED  BY <2>2, <2>3
<1>3. CASE InitPool
  BY <1>1, <1>3 DEF InitPool, taskVars
<1>4. ASSUME NEW k \in Run, Spawn(k) \/ FinishInit(k)  PROVE Good
  BY <1>1, <1>4 DEF Spawn, FinishInit, taskVars
<1>5. ASSUME NEW t \in Task, Call(t)  PROVE Good
  <2>1. /\ stage[t] = "new"
        /\ stage' = [stage EXCEPT ![t] = "awaiting"]
        /\ pending' = pending
    BY <1>5 DEF Call
  <2>2. PendingInv'
    BY <2>1 DEF PendingInv, TypeOK
  <2>3. \A u \in Task : stage'[u] = IF u = t THEN "awaiting" ELSE stage[u]
    BY <2>1 DEF TypeOK
  <2>4. t \notin OpenCalls \cup DOMAIN Answers
    BY <2>1 DEF OpenCalls, Answers, Open, Settled
  <2>5. OpenCalls' = OpenCalls \cup {t}
    BY <2>3 DEF OpenCalls, Open
  <2>6. Answers' = Answers
    <3>1. {u \in Task : stage'[u] \in Settled} = {u \in Task : stage[u] \in Settled}
      BY <2>1, <2>3 DEF Settled
    <3>2. \A u \in Task : stage[u] \in Settled => stage'[u] = stage[u]
      BY <2>1, <2>3 DEF Settled
    <3>3. QED  BY <3>1, <3>2 DEF Answers
  <2>7. Contract!Call(t)
    BY <2>4, <2>5, <2>6 DEF Contract!Call, Contract!Settled
  <2>8. QED  BY <2>2, <2>7 DEF Contract!Next
<1>6. ASSUME NEW t \in Task, Submit(t)  PROVE Good
  <2>1. PICK s \in {"main", "submitted"} :
          /\ stage[t] = "awaiting"
          /\ stage' = [stage EXCEPT ![t] = s]
          /\ pending' = IF s = "main" THEN pending ELSE pending \cup {t}
    BY <1>6 DEF Submit
  <2>2. \A u \in Task : stage'[u] = IF u = t THEN s ELSE stage[u]
    BY <2>1 DEF TypeOK
  <2>3. PendingInv'
    BY <2>1, <2>2 DEF PendingInv, TypeOK
  <2>4. UNCHANGED <<OpenCalls, Answers>>
    BY <2>1, <2>2, StutterStep DEF Open
  <2>5. QED  BY <2>3, <2>4
<1>7. ASSUME NEW t \in Task, MainThreadDone(t)  PROVE Good
  <2>1. /\ stage[t] = "main"
        /\ \E o \in {"resolved", "rejected"} : stage' = [stage EXCEPT ![t] = o]
        /\ pending' = pending
    BY <1>7 DEF MainThreadDone
  <2>2. t \notin pending
    BY <2>1 DEF PendingInv
  <2>3. /\ stage[t] \in Open /\ stage'[t] \in Settled
        /\ stage' = [stage EXCEPT ![t] = stage'[t]]
    BY <2>1 DEF Open, Settled, TypeOK
  <2>4. QED  BY <1>2, <2>1, <2>2, <2>3
<1>8. ASSUME NEW t \in Task, Timeout(t)  PROVE Good
  <2>1. /\ stage[t] = "submitted"
        /\ stage' = [stage EXCEPT ![t] = "timedOut"]
        /\ pending' = pending \ {t}
    BY <1>8 DEF Timeout, PendingInv
  <2>2. /\ stage[t] \in Open /\ stage'[t] \in Settled
        /\ stage' = [stage EXCEPT ![t] = stage'[t]]
    BY <2>1 DEF Open, Settled, TypeOK
  <2>3. QED  BY <1>2, <2>1, <2>2
<1>9. CASE Dispatch
  BY <1>1, <1>9 DEF Dispatch, DispatchProve, DispatchWap, DispatchDone, taskVars
<1>10. ASSUME NEW w \in Thread, NEW t \in Task, WorkerAnswer(w, t)  PROVE Good
  <2>1. CASE t \in pending
    <3>1. /\ stage[t] = "submitted"
          /\ \E o \in {"resolved", "rejected"} : stage' = [stage EXCEPT ![t] = o]
          /\ pending' = pending \ {t}
      BY <1>10, <2>1 DEF WorkerAnswer, PendingInv
    <3>2. /\ stage[t] \in Open /\ stage'[t] \in Settled
          /\ stage' = [stage EXCEPT ![t] = stage'[t]]
      BY <3>1 DEF Open, Settled, TypeOK
    <3>3. QED  BY <1>2, <3>1, <3>2
  <2>2. CASE t \notin pending
    <3>1. UNCHANGED <<stage, pending>>
      BY <1>10, <2>2 DEF WorkerAnswer
    <3>2. QED  BY <1>1, <3>1
  <2>3. QED  BY <2>1, <2>2
<1>11. ASSUME NEW w \in Thread, Die(w) \/ WarmComplete(w)  PROVE Good
  BY <1>1, <1>11 DEF Die, WarmComplete, taskVars
<1>12. CASE WarmCircuits
  BY <1>1, <1>12 DEF WarmCircuits, taskVars
<1>13. CASE Destroy
  <2>1. /\ stage' = [t \in Task |-> IF t \in pending THEN "destroyed" ELSE stage[t]]
        /\ pending' = {}
    BY <1>13 DEF Destroy
  <2>2. CASE pending = {}
    BY <2>1, <2>2, <1>1 DEF TypeOK
  <2>3. CASE pending # {}
    <3>1. /\ \A t \in pending : stage[t] \in Open /\ stage'[t] \in Settled
          /\ \A t \in Task \ pending : stage'[t] = stage[t]
      BY <2>1 DEF PendingInv, Open, Settled, TypeOK
    <3>2. pending \in SUBSET Task /\ stage' \in [Task -> Stage]
      BY DEF TypeOK
    <3>3. Contract!Next
      BY <2>3, <3>1, <3>2, SettleStep
    <3>4. QED  BY <2>1, <3>3 DEF PendingInv
  <2>4. QED  BY <2>2, <2>3
<1>14. CASE UNCHANGED vars
  BY <1>1, <1>14 DEF vars, taskVars
<1>15. QED
  BY <1>3, <1>4, <1>5, <1>6, <1>7, <1>8, <1>9, <1>10, <1>11, <1>12, <1>13, <1>14
  DEF Next

LEMMA ContractInit == Init => PendingInv /\ Contract!Init
<1> SUFFICES ASSUME Init  PROVE PendingInv /\ Contract!Init
  OBVIOUS
<1>1. \A t \in Task : stage[t] = "new"
  BY DEF Init
<1>2. OpenCalls = {} /\ {u \in Task : stage[u] \in Settled} = {}
  BY <1>1 DEF OpenCalls, Open, Settled
<1>3. Answers = [r \in {} |-> r]
  BY <1>2 DEF Answers
<1>4. QED  BY <1>2, <1>3 DEF Contract!Init, PendingInv, Init

\* Every behaviour of the pool is one of the contract: each call is settled at
\* most once and its outcome never changes.
THEOREM KeepsContract == Spec => ImplementsContract
BY ContractInit, ContractStep, TypeCorrect, PTL
DEF Spec, ImplementsContract, Contract!Spec, Contract!vars

=============================================================================
