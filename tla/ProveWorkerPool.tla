--------------------------- MODULE ProveWorkerPool ---------------------------
(***************************************************************************)
(* The prove worker manager (src/prove-worker-manager.ts): a pool of       *)
(* worker threads, two queues of proof tasks, a pending map with one timer *)
(* per task, and the dispatch loop that hands queued tasks to idle         *)
(* workers.                                                                *)
(*                                                                         *)
(* The manager runs on JavaScript's event loop: a handler runs to its end  *)
(* before the next one starts, and what interleaves are the handlers.  One *)
(* action below is one handler.  The while loops of _dispatch(), the last  *)
(* call of a handler, are unrolled one iteration per action under the flag *)
(* dispatching; while it is set no other handler is enabled, so the loop   *)
(* is as atomic here as it is in the code.                                 *)
(***************************************************************************)
EXTENDS Integers, Sequences, FiniteSets

CONSTANTS
  Task,         \* proof requests, each submitted at most once
  Wap,          \* those submitted through witnessAndProveAsync
  Unified,      \* those whose circuitType is 'unified'
  PoolSize,     \* what _computePoolSize returned
  WarmCount,    \* DEFAULT_WARM_COUNT
  MaxInits,     \* bound: runs of _doInit (one per destroy() that is followed by a call)
  MaxDestroys,  \* bound: calls of destroy()
  MaxDeaths     \* bound: worker threads that die after they reported ready

ASSUME PoolAssumption ==
  /\ Wap \subseteq Task
  /\ Unified \subseteq Task
  /\ PoolSize \in Nat
  /\ WarmCount \in Nat
  /\ MaxInits \in Nat \ {0}
  /\ MaxDestroys \in Nat
  /\ MaxDeaths \in Nat

Run == 1 .. MaxInits            \* runs of _doInit
Thread == Run \X (1 .. PoolSize) \* a worker: the run that spawned it and its turn

VARIABLES
  initPromise,  \* the run whose promise init() returns, 0 for null
  inits,        \* how many runs of _doInit were started
  initRun,      \* state of each run
  attempts,     \* spawn attempts each run has finished
  spawned,      \* the wrappers a run has collected so far
  ready, fallbackMode, workers, pending, queue, wapQueue, nextId,
  stage,        \* where each task's promise stands
  awaits,       \* the run whose promise a submitter waits for
  id,           \* the id a task got, 0 before it has one
  thread,       \* the operating-system side of a worker
  busy, role, isWarmed,
  job,          \* tasks sent to a worker whose answer listener is attached
  warming,      \* workers told to load their circuits
  dispatching,  \* the loop of _dispatch() is running
  late,         \* history: tasks answered after they had been rejected
  destroys      \* history: calls of destroy()

initVars == <<initPromise, inits, initRun, attempts, spawned>>
taskVars == <<pending, queue, wapQueue, nextId, stage, awaits, id>>
workerVars == <<thread, busy, role, isWarmed, job, warming>>
vars == <<initVars, ready, fallbackMode, workers, taskVars, workerVars,
          dispatching, late, destroys>>

Settled == {"resolved", "rejected", "timedOut", "destroyed"}
Stage == {"new", "awaiting", "submitted", "main"} \cup Settled

Elems(s) == {s[i] : i \in DOMAIN s}

TypeOK ==
  /\ initPromise \in {0} \cup Run
  /\ inits \in 0 .. MaxInits
  /\ initRun \in [Run -> {"none", "spawning", "done"}]
  /\ attempts \in [Run -> 0 .. PoolSize]
  /\ spawned \in [Run -> Seq(Thread)]
  /\ ready \in BOOLEAN
  /\ fallbackMode \in BOOLEAN
  /\ workers \in Seq(Thread)
  /\ pending \subseteq Task
  /\ queue \in Seq(Task)
  /\ wapQueue \in Seq(Task)
  /\ nextId \in Nat \ {0}
  /\ stage \in [Task -> Stage]
  /\ awaits \in [Task -> {0} \cup Run]
  /\ id \in [Task -> Nat]
  /\ thread \in [Thread -> {"none", "up", "dead", "terminated"}]
  /\ busy \in [Thread -> BOOLEAN]
  /\ role \in [Thread -> {"all", "unified", "output_chunk_final"}]
  /\ isWarmed \in [Thread -> BOOLEAN]
  /\ job \in [Thread -> SUBSET Task]
  /\ warming \subseteq Thread
  /\ dispatching \in BOOLEAN
  /\ late \subseteq Task
  /\ destroys \in Nat

Init ==
  /\ initPromise = 0
  /\ inits = 0
  /\ initRun = [k \in Run |-> "none"]
  /\ attempts = [k \in Run |-> 0]
  /\ spawned = [k \in Run |-> <<>>]
  /\ ready = FALSE
  /\ fallbackMode = FALSE
  /\ workers = <<>>
  /\ pending = {}
  /\ queue = <<>>
  /\ wapQueue = <<>>
  /\ nextId = 1
  /\ stage = [t \in Task |-> "new"]
  /\ awaits = [t \in Task |-> 0]
  /\ id = [t \in Task |-> 0]
  /\ thread = [w \in Thread |-> "none"]
  /\ busy = [w \in Thread |-> FALSE]
  /\ role = [w \in Thread |-> "all"]
  /\ isWarmed = [w \in Thread |-> FALSE]
  /\ job = [w \in Thread |-> {}]
  /\ warming = {}
  /\ dispatching = FALSE
  /\ late = {}
  /\ destroys = 0

-----------------------------------------------------------------------------
(* Initialisation.                                                         *)

\* Mutant of InitAs: the promise is not kept, each caller starts a run.
InitAsUnmemoised(k) ==
  /\ inits < MaxInits
  /\ k = inits + 1
  /\ inits' = k
  /\ initRun' = [initRun EXCEPT ![k] = "spawning"]
  /\ UNCHANGED <<initPromise, attempts, spawned, fallbackMode, ready>>

\* init() memoises the promise of the first _doInit; _doInit with no pool
\* runs to its end at once and switches to main-thread proving.
InitAs(k) ==
  \/ /\ initPromise # 0
     /\ k = initPromise
     /\ UNCHANGED <<initVars, ready, fallbackMode>>
  \/ /\ initPromise = 0
     /\ inits < MaxInits
     /\ k = inits + 1
     /\ initPromise' = k
     /\ inits' = k
     /\ UNCHANGED <<attempts, spawned>>
     /\ IF PoolSize = 0
        THEN /\ initRun' = [initRun EXCEPT ![k] = "done"]
             /\ fallbackMode' = TRUE
             /\ ready' = TRUE
        ELSE /\ initRun' = [initRun EXCEPT ![k] = "spawning"]
             /\ UNCHANGED <<fallbackMode, ready>>

\* prewarm() and the signing flows call init() before they submit anything.
InitPool ==
  /\ ~dispatching
  /\ \E k \in Run : InitAs(k)
  /\ UNCHANGED <<workers, taskVars, workerVars, dispatching, late, destroys>>

\* One spawn settles: 'ready' makes a wrapper; init_error, an error event,
\* a throw and the 30 s timeout all make none.  Workers are spawned one
\* after the other.
Spawn(k) ==
  /\ ~dispatching
  /\ initRun[k] = "spawning"
  /\ attempts[k] < PoolSize
  /\ attempts' = [attempts EXCEPT ![k] = @ + 1]
  /\ LET w == <<k, attempts[k] + 1>>
     IN \/ /\ thread' = [thread EXCEPT ![w] = "up"]
           /\ spawned' = [spawned EXCEPT ![k] = Append(@, w)]
        \/ UNCHANGED <<thread, spawned>>
  /\ UNCHANGED <<initPromise, inits, initRun, ready, fallbackMode, workers,
                 taskVars, busy, role, isWarmed, job, warming, dispatching,
                 late, destroys>>

\* Role of worker w once the pool ws is installed.
RoleIn(w, ws) ==
  CASE w \notin Elems(ws) -> role[w]
    [] w \in Elems(ws) /\ Len(ws) = 1 -> "all"
    [] w \in Elems(ws) /\ Len(ws) # 1 /\ w = ws[1] -> "unified"
    [] OTHER -> "output_chunk_final"

\* The rest of _doInit, after the await: it installs the workers whatever
\* happened to the manager meanwhile, and dispatches nothing.
FinishInit(k) ==
  /\ ~dispatching
  /\ initRun[k] = "spawning"
  /\ attempts[k] = PoolSize
  /\ initRun' = [initRun EXCEPT ![k] = "done"]
  /\ ready' = TRUE
  /\ IF spawned[k] = <<>>
     THEN /\ fallbackMode' = TRUE
          /\ UNCHANGED <<workers, role>>
     ELSE /\ workers' = spawned[k]
          /\ role' = [w \in Thread |-> RoleIn(w, spawned[k])]
          /\ UNCHANGED fallbackMode
  /\ UNCHANGED <<initPromise, inits, attempts, spawned, taskVars, thread, busy,
                 isWarmed, job, warming, dispatching, late, destroys>>

-----------------------------------------------------------------------------
(* Submission: proveAsync and witnessAndProveAsync.                        *)

\* Up to "await this.init()".
Call(t) ==
  /\ ~dispatching
  /\ stage[t] = "new"
  /\ stage' = [stage EXCEPT ![t] = "awaiting"]
  /\ \E k \in Run : InitAs(k) /\ awaits' = [awaits EXCEPT ![t] = k]
  /\ UNCHANGED <<workers, pending, queue, wapQueue, nextId, id, workerVars,
                 dispatching, late, destroys>>

\* After the await: prove on the main thread, or register the task, start its
\* timer, queue it and dispatch.
Submit(t) ==
  /\ ~dispatching
  /\ stage[t] = "awaiting"
  /\ \E k \in Run : awaits[t] = k /\ initRun[k] = "done"
  /\ IF fallbackMode
     THEN /\ stage' = [stage EXCEPT ![t] = "main"]
          /\ UNCHANGED <<pending, queue, wapQueue, nextId, id, dispatching>>
     ELSE /\ stage' = [stage EXCEPT ![t] = "submitted"]
          /\ id' = [id EXCEPT ![t] = nextId]
          /\ nextId' = nextId + 1
          /\ pending' = pending \cup {t}
          /\ queue' = IF t \in Wap THEN queue ELSE Append(queue, t)
          /\ wapQueue' = IF t \in Wap THEN Append(wapQueue, t) ELSE wapQueue
          /\ dispatching' = TRUE
  /\ UNCHANGED <<initVars, ready, fallbackMode, workers, awaits, workerVars,
                 late, destroys>>

\* _proveMainThread / _witnessAndProveMainThread settle: the WASM export
\* returned, threw, or was not there.
MainThreadDone(t) ==
  /\ ~dispatching
  /\ stage[t] = "main"
  /\ \E o \in {"resolved", "rejected"} : stage' = [stage EXCEPT ![t] = o]
  /\ UNCHANGED <<initVars, ready, fallbackMode, workers, pending, queue,
                 wapQueue, nextId, awaits, id, workerVars, dispatching, late,
                 destroys>>

\* Mutant of Timeout: the timer is cleared when the task is sent.
TimeoutUntilSent(t) ==
  /\ ~dispatching
  /\ t \in pending
  /\ \A w \in Thread : t \notin job[w]
  /\ pending' = pending \ {t}
  /\ stage' = [stage EXCEPT ![t] = "timedOut"]
  /\ UNCHANGED <<initVars, ready, fallbackMode, workers, queue, wapQueue,
                 nextId, awaits, id, workerVars, dispatching, late, destroys>>

\* The task's PROVE_TIMEOUT_MS timer.  Neither the queue nor the worker is told.
Timeout(t) ==
  /\ ~dispatching
  /\ t \in pending
  /\ pending' = pending \ {t}
  /\ stage' = [stage EXCEPT ![t] = "timedOut"]
  /\ UNCHANGED <<initVars, ready, fallbackMode, workers, queue, wapQueue,
                 nextId, awaits, id, workerVars, dispatching, late, destroys>>

-----------------------------------------------------------------------------
(* Dispatch.                                                               *)

IdleSlots == {i \in DOMAIN workers : ~busy[workers[i]]}

\* _pickWorkerForRole: the first idle worker warmed for the task's circuit,
\* else the first idle worker.
PickWorkerForRole(t, i) ==
  LET desiredRole == IF t \in Unified THEN "unified" ELSE "output_chunk_final"
      matched == {j \in IdleSlots : role[workers[j]] \in {desiredRole, "all"}}
      candidates == IF matched # {} THEN matched ELSE IdleSlots
  IN i \in candidates /\ \A j \in candidates : i <= j

\* Mutant of SendOrSkip: the worker is not marked busy.
SendUnmarked(t) ==
  \E i \in IdleSlots :
    /\ PickWorkerForRole(t, i)
    /\ job' = IF t \in pending
              THEN [job EXCEPT ![workers[i]] = @ \cup {t}] ELSE job
    /\ UNCHANGED busy

\* The task shifted off its queue goes to the picked worker, unless it timed
\* out there.
SendOrSkip(t) ==
  \E i \in IdleSlots :
    /\ PickWorkerForRole(t, i)
    /\ IF t \in pending
       THEN /\ busy' = [busy EXCEPT ![workers[i]] = TRUE]
            /\ job' = [job EXCEPT ![workers[i]] = @ \cup {t}]
       ELSE UNCHANGED <<busy, job>>

\* Mutants of DispatchProve: the task is read off the queue and not removed;
\* the youngest task is taken.
DispatchProvePeek ==
  /\ dispatching
  /\ queue # <<>>
  /\ SendOrSkip(Head(queue))
  /\ UNCHANGED <<initVars, ready, fallbackMode, workers, pending, queue,
                 wapQueue, nextId, stage, awaits, id, thread, role, isWarmed,
                 warming, dispatching, late, destroys>>

DispatchProveYoungest ==
  /\ dispatching
  /\ queue # <<>>
  /\ queue' = SubSeq(queue, 1, Len(queue) - 1)
  /\ SendOrSkip(queue[Len(queue)])
  /\ UNCHANGED <<initVars, ready, fallbackMode, workers, pending, wapQueue,
                 nextId, stage, awaits, id, thread, role, isWarmed, warming,
                 dispatching, late, destroys>>

DispatchProve ==
  /\ dispatching
  /\ queue # <<>>
  /\ queue' = Tail(queue)
  /\ SendOrSkip(Head(queue))
  /\ UNCHANGED <<initVars, ready, fallbackMode, workers, pending, wapQueue,
                 nextId, stage, awaits, id, thread, role, isWarmed, warming,
                 dispatching, late, destroys>>

DispatchWap ==
  /\ dispatching
  /\ queue = <<>>
  /\ wapQueue # <<>>
  /\ wapQueue' = Tail(wapQueue)
  /\ SendOrSkip(Head(wapQueue))
  /\ UNCHANGED <<initVars, ready, fallbackMode, workers, pending, queue,
                 nextId, stage, awaits, id, thread, role, isWarmed, warming,
                 dispatching, late, destroys>>

\* Both loops have broken out or run dry.
DispatchDone ==
  /\ dispatching
  /\ IdleSlots = {} \/ (queue = <<>> /\ wapQueue = <<>>)
  /\ dispatching' = FALSE
  /\ UNCHANGED <<initVars, ready, fallbackMode, workers, taskVars, workerVars,
                 late, destroys>>

Dispatch == DispatchProve \/ DispatchWap \/ DispatchDone

-----------------------------------------------------------------------------
(* Messages from the workers.                                              *)

\* Mutants of WorkerAnswer: the handler does not dispatch; it settles the task
\* without looking it up in the pending map.
AnswerWithoutDispatch(w, t) ==
  /\ ~dispatching
  /\ t \in job[w]
  /\ thread[w] \in {"up", "terminated"}
  /\ job' = [job EXCEPT ![w] = @ \ {t}]
  /\ busy' = [busy EXCEPT ![w] = FALSE]
  /\ IF t \in pending
     THEN pending' = pending \ {t} /\ stage' = [stage EXCEPT ![t] = "resolved"]
     ELSE UNCHANGED <<pending, stage>>
  /\ late' = IF t \in pending THEN late ELSE late \cup {t}
  /\ UNCHANGED <<initVars, ready, fallbackMode, workers, queue, wapQueue,
                 nextId, awaits, id, thread, role, isWarmed, warming,
                 dispatching, destroys>>

AnswerUnguarded(w, t) ==
  /\ ~dispatching
  /\ t \in job[w]
  /\ thread[w] \in {"up", "terminated"}
  /\ job' = [job EXCEPT ![w] = @ \ {t}]
  /\ busy' = [busy EXCEPT ![w] = FALSE]
  /\ pending' = pending \ {t}
  /\ stage' = [stage EXCEPT ![t] = "resolved"]
  /\ dispatching' = TRUE
  /\ UNCHANGED <<initVars, ready, fallbackMode, workers, queue, wapQueue,
                 nextId, awaits, id, thread, role, isWarmed, warming, late,
                 destroys>>

\* The listener of task t on worker w: prove_result or prove_error arrives.
\* The worker is idle again; a task that is no longer pending ends the
\* handler there, before the dispatch.  An answer posted before terminate()
\* may still be delivered after it.
WorkerAnswer(w, t) ==
  /\ ~dispatching
  /\ t \in job[w]
  /\ thread[w] \in {"up", "terminated"}
  /\ job' = [job EXCEPT ![w] = @ \ {t}]
  /\ busy' = [busy EXCEPT ![w] = FALSE]
  /\ IF t \in pending
     THEN /\ pending' = pending \ {t}
          /\ \E o \in {"resolved", "rejected"} : stage' = [stage EXCEPT ![t] = o]
          /\ dispatching' = TRUE
          /\ UNCHANGED late
     ELSE /\ late' = late \cup {t}
          /\ UNCHANGED <<pending, stage, dispatching>>
  /\ UNCHANGED <<initVars, ready, fallbackMode, workers, queue, wapQueue,
                 nextId, awaits, id, thread, role, isWarmed, warming, destroys>>

\* A worker that dies after 'ready' is noticed by nobody: the spawn's error
\* listener is gone and no other was attached.  (In Node an 'error' event that
\* nobody listens to ends the process; a worker that exits, or a browser
\* worker, is silently gone.)
Die(w) ==
  /\ ~dispatching
  /\ thread[w] = "up"
  /\ Cardinality({v \in Thread : thread[v] = "dead"}) < MaxDeaths
  /\ thread' = [thread EXCEPT ![w] = "dead"]
  /\ UNCHANGED <<initVars, ready, fallbackMode, workers, taskVars, busy, role,
                 isWarmed, job, warming, dispatching, late, destroys>>

-----------------------------------------------------------------------------
(* Warming and shutdown.                                                   *)

\* The first WarmCount workers that are not warmed yet, and worker[0] always.
ToWarm ==
  LET cold == {i \in DOMAIN workers : ~isWarmed[workers[i]]}
      chosen == {i \in cold : i = 1 \/ Cardinality({j \in cold : j < i}) < WarmCount}
  IN {workers[i] : i \in chosen}

WarmCircuits ==
  /\ ~dispatching
  /\ warming' = warming \cup ToWarm
  /\ UNCHANGED <<initVars, ready, fallbackMode, workers, taskVars, thread, busy,
                 role, isWarmed, job, dispatching, late, destroys>>

\* warm_complete; a worker whose warm-up failed sends nothing.
WarmComplete(w) ==
  /\ ~dispatching
  /\ w \in warming
  /\ thread[w] = "up"
  /\ ~isWarmed[w]
  /\ isWarmed' = [isWarmed EXCEPT ![w] = TRUE]
  /\ UNCHANGED <<initVars, ready, fallbackMode, workers, taskVars, thread, busy,
                 role, job, warming, dispatching, late, destroys>>

\* Mutant of Destroy: the pending map is left as it is.
DestroyKeepsPending ==
  /\ ~dispatching
  /\ destroys < MaxDestroys
  /\ destroys' = destroys + 1
  /\ workers' = <<>>
  /\ queue' = <<>>
  /\ ready' = FALSE
  /\ initPromise' = 0
  /\ UNCHANGED <<inits, initRun, attempts, spawned, fallbackMode, pending,
                 wapQueue, nextId, stage, awaits, id, workerVars, dispatching,
                 late>>

\* destroy(): terminates the installed workers, rejects what is pending and
\* empties the prove queue.  The witness-and-prove queue, fallbackMode and a
\* run of _doInit in progress are left as they are.
Destroy ==
  /\ ~dispatching
  /\ destroys < MaxDestroys
  /\ destroys' = destroys + 1
  /\ thread' = [w \in Thread |-> IF thread[w] = "up" /\ w \in Elems(workers)
                                    THEN "terminated" ELSE thread[w]]
  /\ workers' = <<>>
  /\ stage' = [t \in Task |-> IF t \in pending THEN "destroyed" ELSE stage[t]]
  /\ pending' = {}
  /\ queue' = <<>>
  /\ ready' = FALSE
  /\ initPromise' = 0
  /\ UNCHANGED <<inits, initRun, attempts, spawned, fallbackMode, wapQueue,
                 nextId, awaits, id, busy, role, isWarmed, job, warming,
                 dispatching, late>>

-----------------------------------------------------------------------------
Next ==
  \/ InitPool
  \/ \E k \in Run : Spawn(k) \/ FinishInit(k)
  \/ \E t \in Task : Call(t) \/ Submit(t) \/ MainThreadDone(t) \/ Timeout(t)
  \/ Dispatch
  \/ \E w \in Thread :
       \/ Die(w)
       \/ WarmComplete(w)
       \/ \E t \in Task : WorkerAnswer(w, t)
  \/ WarmCircuits
  \/ Destroy

Spec == Init /\ [][Next]_vars

\* The event loop runs what is ready, every spawn is bounded by its 30 s
\* timeout and every task by its own timer.  Nothing is assumed of the workers.
Fairness ==
  /\ WF_vars(Dispatch)
  /\ \A k \in Run : WF_vars(Spawn(k)) /\ WF_vars(FinishInit(k))
  /\ \A t \in Task : WF_vars(Submit(t)) /\ WF_vars(Timeout(t))

FairSpec == Spec /\ Fairness

-----------------------------------------------------------------------------
(* Properties.                                                             *)

Queued == Elems(queue) \cup Elems(wapQueue)
Sent == UNION {job[w] : w \in Thread}

\* A worker proves one task at a time: no answer listener is attached to a
\* worker that is already serving one, and the worker counts as busy as long
\* as one is.  The busy flags of _dispatch and the two answer handlers carry it.
OneTaskPerWorker ==
  \A w \in Thread :
    /\ \A t, u \in job[w] : t = u
    /\ job[w] # {} => busy[w]

\* A task that can still be answered is never forgotten: while it is pending
\* it sits in a queue or an answer listener for it is attached.  destroy()
\* and the timers must take it out of the pending map when they drop it.
NoTaskLost == pending \subseteq Queued \cup Sent

\* A proof is computed once: no task is with two workers, nor with a worker
\* and still queued behind itself.
ProvedOnce ==
  /\ \A v, w \in Thread : job[v] \cap job[w] # {} => v = w
  /\ Queued \cap Sent = {}

\* Tasks of one queue are sent in the order they were submitted in: whatever
\* is with a worker has a lower id than anything still queued with it.
SentInOrder ==
  \A t \in Sent :
    /\ t \notin Wap => \A u \in Elems(queue) : id[t] < id[u]
    /\ t \in Wap => \A u \in Elems(wapQueue) : id[t] < id[u]

\* "Try to assign queued tasks to idle workers" (prove-worker-manager.ts:1004):
\* between two handlers no live task waits in a queue beside an idle worker.
NoStrandedTask ==
  ~dispatching => (IdleSlots = {} \/ Queued \cap pending = {})

\* What the code does keep of it: a task is stranded beside an idle worker only
\* once the answer of a timed-out task was thrown away, or after a destroy().
StrandedOnlyByLateAnswer == late = {} /\ destroys = 0 => NoStrandedTask

\* init() spawns one pool however many callers race for it: before any
\* destroy(), each live thread is in the pool or about to be installed.
NoThreadLeak ==
  destroys = 0 =>
    \A w \in Thread :
      thread[w] = "up" =>
        \/ w \in Elems(workers)
        \/ initRun[w[1]] = "spawning"

\* The calls as their callers see them: open from the call to its settling,
\* then settled for good.
Open == {"awaiting", "submitted", "main"}
OpenCalls == {t \in Task : stage[t] \in Open}
Answers == [t \in {u \in Task : stage[u] \in Settled} |-> stage[t]]

Contract == INSTANCE RequestContract WITH
  Request <- Task, Answer <- Settled, open <- OpenCalls, answer <- Answers

\* Each call keeps the contract of an asynchronous call: settled at most once,
\* whatever the order of answers, timers and destroy().
ImplementsContract == Contract!Spec

\* Every call is settled, or handed to the main thread, whatever the workers
\* do: spawns and tasks have timeouts of their own.
CallSettles ==
  \A t \in Task :
    stage[t] = "awaiting" ~> stage[t] \in Settled \cup {"main"}

=============================================================================
