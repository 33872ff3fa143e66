---------------------------- MODULE FleetMonitor ----------------------------
(***************************************************************************)
(* The worker-fleet supervision loop of src/src/monitor/main.go together   *)
(* with the worker process helpers of src/src/monitor/workerInfo.          *)
(*                                                                         *)
(* One tick of main() is: scale up (needMoreWorkers/StartWorker), reclaim  *)
(* idle workers (tooManyIdleWorkers/RemoveIdleWorkers), then range over    *)
(* the workers slice.  For every element the range launches an            *)
(* asynchronous health probe goroutine, then checks IsWorkerCrashed and    *)
(* IsWorkerStuck and, on either, calls retryWorker.                        *)
(*                                                                         *)
(* retryWorker restarts with StartWorker(worker.Configuration, ...), and   *)
(* Configuration is never set: its initialiser in startWorker.go:51 sits  *)
(* inside the comment of the line above.  exec.Command("") cannot start,  *)
(* so retryWorker always fails after shutting the worker down, and the    *)
(* replacement code of main.go:86-89 and 101-104 never runs.               *)
(*                                                                         *)
(* Time is counted in ticks of the 30 s ticker.  A worker's LastHealthyTime *)
(* is kept as an age (ticks since the stamp), capped at AgeCap; only the *)
(* order of the thresholds matters to the code.                           *)
(***************************************************************************)
EXTENDS Naturals, Sequences, FiniteSets

CONSTANTS
    Ids,                      \* worker ids generateUniqueID may return
    QueueLengths,             \* values getTaskQueueLength may return
    MaxQueueLengthPerWorker,  \* main.go: maxQueueLengthPerWorker
    HealthTimeout,            \* main.go: healthTimeout, in ticks
    IdleTimeThreshold,        \* main.go: idleTimeThreshold, in ticks
    MaxRetries,               \* main.go: MaxRetries
    AgeCap,                   \* bound: ages saturate here
    MaxPendingProbes,         \* bound: outstanding probes per worker saturate here
    NoWorker                  \* model value: no worker (a nil pointer)

ASSUME /\ MaxQueueLengthPerWorker \in Nat \ {0}
       /\ {HealthTimeout, IdleTimeThreshold} \subseteq Nat
       /\ AgeCap > HealthTimeout /\ AgeCap > IdleTimeThreshold
       /\ QueueLengths \subseteq Nat
       /\ MaxRetries \in Nat /\ MaxPendingProbes \in Nat \ {0}
       /\ NoWorker \notin Ids

VARIABLES
    pc,               \* where main() is: "wait" | "scale" | "idle" | "probe" | "check"
    taskQueueLength,  \* main.go:39, read once before the loop
    workers,          \* the workers slice
    i,                \* range index (1-based)
    cur,              \* range value `worker` of the current iteration
    proc,             \* OS state of each worker process
    reaped,           \* Cmd.ProcessState != nil, i.e. Cmd.Wait has returned
    healthAge,        \* ticks since LastHealthyTime
    pending           \* health probe goroutines still running against the worker

vars == <<pc, taskQueueLength, workers, i, cur, proc, reaped, healthAge, pending>>

(* "none": the id was never handed out; "running": answers on its pipes;  *)
(* "hung": alive but never answers; "exited": ended by itself or by the   *)
(* shutdown command (ProcessState.Exited() is true); "signaled": killed,  *)
(* by Process.Kill or by the OS (Exited() is false).                      *)
ProcState == {"none", "running", "hung", "exited", "signaled"}
Alive == {"running", "hung"}
Dead == {"exited", "signaled"}

-----------------------------------------------------------------------------
(* Helpers *)

Fleet == {workers[k] : k \in 1..Len(workers)}
Started == {w \in Ids : proc[w] # "none"}
Inc(n, cap) == IF n < cap THEN n + 1 ELSE cap

(* main.go:21-24 *)
NeedMoreWorkers(q, n) ==
    (q + MaxQueueLengthPerWorker - 1) \div MaxQueueLengthPerWorker > n

(* main.go:26-34; time.Since(LastHealthyTime) > idleTimeThreshold *)
IsIdle(w) == healthAge[w] > IdleTimeThreshold
TooManyIdleWorkers ==
    Cardinality({k \in 1..Len(workers) : IsIdle(workers[k])}) > Len(workers) \div 2

(* Mutation of RemoveIdleWorkers: an idle worker's slot is set to nil    *)
(* instead of being dropped.                                              *)
RemoveIdleWorkersNil(ws) ==
    [k \in 1..Len(ws) |-> IF IsIdle(ws[k]) THEN NoWorker ELSE ws[k]]

(* main.go:117-128: the workers that are not idle, in order.              *)
RemoveIdleWorkers(ws) == SelectSeq(ws, LAMBDA w : ~IsIdle(w))

(* main.go:159-162 and 177.  The count is written for the new worker's id *)
(* only after StartWorker succeeds, which never happens, so every worker *)
(* is read with the map's zero value.                                     *)
(* Mutation of RetryCount: the count is read under a key no restart     *)
(* clears, so every worker looks out of retries.                         *)
RetryCountExhausted(w) == MaxRetries

RetryCount(w) == 0
RetriesExhausted(w) == RetryCount(w) >= MaxRetries

(* workerCrashCheck.go:8-13.  ProcessState is only set once Cmd.Wait has  *)
(* returned, and Exited() is false for a process ended by a signal.       *)
IsWorkerCrashed(w) == reaped[w] /\ proc[w] = "exited"

(* workerStuckCheck.go:5-17.  Progress is set to 0 by StartWorker and     *)
(* neither it nor LastProgressTime is ever written again, so the second  *)
(* condition `timeSinceLastProgress > progressTimeout || Progress < 20`  *)
(* always holds and the worker is stuck once the health stamp is stale.   *)
WorkerProgress == 0
IsWorkerStuck(w) ==
    /\ healthAge[w] > HealthTimeout
    /\ WorkerProgress < 20

(* Mutation of ShutdownOutcomes: no Kill when the 10 s timeout expires.  *)
ShutdownOutcomesNoKill(w) ==
    CASE proc[w] = "running" -> {"exited", "running"}
      [] proc[w] = "hung"    -> {"hung"}
      [] OTHER               -> {proc[w]}

(* The process states gracefullyShutdownWorker (main.go:130-151) can      *)
(* leave: "shutdown\n" makes a running worker exit, or it overruns the    *)
(* 10 s timeout and is killed; a hung worker is killed; a dead one only  *)
(* has Wait return.  The Wait goroutine returns in every case.            *)
ShutdownOutcomes(w) ==
    CASE proc[w] = "running" -> {"exited", "signaled"}
      [] proc[w] = "hung"    -> {"signaled"}
      [] OTHER               -> {proc[w]}

(* Shut down every worker of S (one outcome per worker). *)
ShutdownAll(S) ==
    /\ \E out \in [S -> ProcState] :
         /\ \A w \in S : out[w] \in ShutdownOutcomes(w)
         /\ proc' = [w \in Ids |-> IF w \in S THEN out[w] ELSE proc[w]]
    /\ reaped' = [w \in Ids |-> reaped[w] \/ w \in S]

-----------------------------------------------------------------------------
TypeOK ==
    /\ pc \in {"wait", "scale", "idle", "probe", "check"}
    /\ taskQueueLength \in QueueLengths
    /\ workers \in Seq(Ids)
    /\ i \in 1..(Len(workers) + 1)
    /\ cur \in Ids \cup {NoWorker}
    /\ proc \in [Ids -> ProcState]
    /\ reaped \in [Ids -> BOOLEAN]
    /\ healthAge \in [Ids -> 0..AgeCap]
    /\ pending \in [Ids -> 0..MaxPendingProbes]

Init ==
    /\ pc = "wait"
    /\ taskQueueLength \in QueueLengths
    /\ workers = << >> /\ i = 1 /\ cur = NoWorker
    /\ proc = [w \in Ids |-> "none"]
    /\ reaped = [w \in Ids |-> FALSE]
    /\ healthAge = [w \in Ids |-> 0]
    /\ pending = [w \in Ids |-> 0]

-----------------------------------------------------------------------------
(* Monitor actions *)

(* main.go:44-47: the ticker fires; 30 s have passed for every worker.   *)
Tick ==
    /\ pc = "wait"
    /\ healthAge' = [w \in Ids |-> IF w \in Fleet THEN Inc(healthAge[w], AgeCap) ELSE healthAge[w]]
    /\ pc' = "scale"
    /\ UNCHANGED <<taskQueueLength, workers, i, cur, proc, reaped, pending>>

(* startWorker.go:25-54: a fresh process with a fresh id and timestamps.  *)
StartWorker(n) ==
    /\ n \in Ids \ Started
    /\ proc' = [proc EXCEPT ![n] = "running"]
    /\ healthAge' = [healthAge EXCEPT ![n] = 0]

(* main.go:48-53: at most one worker is started per tick; a failed start *)
(* is dropped.  The path is the placeholder "path/to/worker", which may  *)
(* or may not exist where the monitor runs.                               *)
ScaleUp ==
    /\ pc = "scale"
    /\ pc' = "idle"
    /\ \/ /\ NeedMoreWorkers(taskQueueLength, Len(workers))
          /\ \E n \in Ids : StartWorker(n) /\ workers' = Append(workers, n)
       \/ /\ NeedMoreWorkers(taskQueueLength, Len(workers))
          /\ UNCHANGED <<workers, proc, healthAge>>
       \/ /\ ~NeedMoreWorkers(taskQueueLength, Len(workers))
          /\ UNCHANGED <<workers, proc, healthAge>>
    /\ UNCHANGED <<taskQueueLength, i, cur, reaped, pending>>

(* main.go:55-59: when more than half are idle, RemoveIdleWorkers shuts  *)
(* every idle worker down and keeps the others.                           *)
ReclaimIdle ==
    /\ pc = "idle"
    /\ pc' = "probe"
    /\ i' = 1
    /\ \/ /\ TooManyIdleWorkers
          /\ workers' = RemoveIdleWorkers(workers)
          /\ ShutdownAll({w \in Fleet : IsIdle(w)})
       \/ /\ ~TooManyIdleWorkers
          /\ UNCHANGED <<workers, proc, reaped>>
    /\ UNCHANGED <<taskQueueLength, cur, healthAge, pending>>

(* main.go:61-77: the range reads workers[i] and launches the health     *)
(* probe goroutine for it; fetching the logs always fails and only logs. *)
LaunchProbe ==
    /\ pc = "probe"
    /\ i <= Len(workers)
    /\ cur' = workers[i]
    /\ pending' = [pending EXCEPT ![workers[i]] = Inc(@, MaxPendingProbes)]
    /\ pc' = "check"
    /\ UNCHANGED <<taskQueueLength, workers, i, proc, reaped, healthAge>>

(* main.go:107-108: the range is exhausted and main() waits for the ticker. *)
EndTick ==
    /\ pc = "probe"
    /\ i > Len(workers)
    /\ i' = 1 /\ cur' = NoWorker
    /\ pc' = "wait"
    /\ UNCHANGED <<taskQueueLength, workers, proc, reaped, healthAge, pending>>

(* main.go:79-106: neither crashed nor stuck.                             *)
Healthy ==
    /\ pc = "check"
    /\ ~IsWorkerCrashed(cur) /\ ~IsWorkerStuck(cur)
    /\ i' = i + 1 /\ pc' = "probe"
    /\ UNCHANGED <<taskQueueLength, workers, cur, proc, reaped, healthAge, pending>>

(* main.go:79-106 with retryWorker (159-180), for a crashed or a stuck    *)
(* worker; both branches run the same code.  With its retries used up   *)
(* retryWorker errs at once; otherwise it sleeps the backoff, shuts the   *)
(* worker down and fails to start the replacement.  Either error makes   *)
(* the loop `continue` with the worker left in the slice.                 *)
Recover ==
    /\ pc = "check"
    /\ IsWorkerCrashed(cur) \/ IsWorkerStuck(cur)
    /\ IF RetriesExhausted(cur)
       THEN UNCHANGED <<proc, reaped>>
       ELSE ShutdownAll({cur})
    /\ i' = i + 1 /\ pc' = "probe"
    /\ UNCHANGED <<taskQueueLength, workers, cur, healthAge, pending>>

-----------------------------------------------------------------------------
(* Probe goroutines and the worker processes *)

(* Mutation of SimpleHealthCheck: a "healthy" line still buffered in the   *)
(* pipe is read after the process has exited.                             *)
SimpleHealthCheckBuffered(w) == proc[w] \in {"running", "exited"}

(* checkWorkerHealth.go:26-41: only a running process answers             *)
(* "check_health"; a dead one's pipe fails or hits EOF.                   *)
SimpleHealthCheck(w) == proc[w] = "running"

(* The probe goroutine of main.go:62-69 returns, with IsWorkerHealthy     *)
(* (checkWorkerHealth.go:15-77): the simple check, then the metrics,      *)
(* which may be over the CPU/memory thresholds.  A hung worker never      *)
(* answers and the probe, which has no deadline, stays blocked.           *)
ProbeReturns(w) ==
    /\ pending[w] > 0
    /\ proc[w] # "hung"
    /\ pending' = [pending EXCEPT ![w] = @ - 1]
    /\ \/ /\ SimpleHealthCheck(w)
          /\ healthAge' = [healthAge EXCEPT ![w] = 0]        \* main.go:63-65
       \/ UNCHANGED healthAge
    /\ UNCHANGED <<pc, taskQueueLength, workers, i, cur, proc, reaped>>

(* The worker process stops answering, or ends, on its own.               *)
WorkerHangs(w) ==
    /\ proc[w] = "running"
    /\ proc' = [proc EXCEPT ![w] = "hung"]
    /\ UNCHANGED <<pc, taskQueueLength, workers, i, cur, reaped, healthAge, pending>>

WorkerDies(w) ==
    /\ proc[w] \in Alive
    /\ \E s \in Dead : proc' = [proc EXCEPT ![w] = s]
    /\ UNCHANGED <<pc, taskQueueLength, workers, i, cur, reaped, healthAge, pending>>

MonitorStep ==
    Tick \/ ScaleUp \/ ReclaimIdle \/ LaunchProbe \/ EndTick \/ Healthy \/ Recover

Next ==
    \/ MonitorStep
    \/ \E w \in Ids : ProbeReturns(w) \/ WorkerHangs(w) \/ WorkerDies(w)

(* The ticker keeps firing and main() never blocks (its calls all return *)
(* or time out); a probe against a process that is not hung returns.     *)
(* The processes themselves are not assumed to do anything.               *)
Fairness ==
    /\ WF_vars(MonitorStep)
    /\ \A w \in Ids : WF_vars(ProbeReturns(w))

Spec == Init /\ [][Next]_vars
FairSpec == Spec /\ Fairness

-----------------------------------------------------------------------------
(* Properties *)

(* Every worker process the monitor started and that is still alive is   *)
(* in the fleet: a worker RemoveIdleWorkers drops from the slice has been *)
(* stopped by gracefullyShutdownWorker, by the shutdown command or, after *)
(* the 10 s timeout, by Kill (main.go:124, 130-151).                       *)
NoOrphanProcess == \A w \in Started : proc[w] \in Alive => w \in Fleet

(* A worker process of the fleet that has ended is eventually waited for *)
(* (Cmd.Wait in gracefullyShutdownWorker): IsWorkerCrashed cannot see it *)
(* before that, so the stale health stamp must make IsWorkerStuck hold   *)
(* and retryWorker shut it down (main.go:79-106).                          *)
NoZombieWorker ==
    \A w \in Ids : (w \in Fleet /\ proc[w] \in Dead) ~> reaped[w]

(* A hung worker of the fleet is eventually killed.  Its health probes   *)
(* have no deadline and one more blocks on it every tick                 *)
(* (checkWorkerHealth.go:35); they return only once the process is gone, *)
(* which takes the stale stamp making IsWorkerStuck hold and retryWorker *)
(* killing it, or idle reclamation shutting it down (main.go:55-106).     *)
HungWorkerKilled ==
    \A w \in Ids : (w \in Fleet /\ proc[w] = "hung") ~> proc[w] \notin Alive

(* A worker of the fleet that has died is eventually replaced: it leaves *)
(* the slice and no longer counts as capacity for needMoreWorkers.        *)
(* retryWorker never starts the replacement (main.go:171 passes the unset *)
(* Configuration as the command) and RemoveIdleWorkers only acts when     *)
(* more than half of the fleet is idle.                                   *)
DeadMemberReplaced ==
    \A w \in Ids : (w \in Fleet /\ proc[w] \in Dead) ~> w \notin Fleet

=============================================================================
