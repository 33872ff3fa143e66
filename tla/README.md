# TLA+ models of the Transform-Service control plane

These modules model the parts of the repository that coordinate concurrent
actors:
- the worker-fleet monitor (`src/src/monitor`);
- the job admission path (`src/src/abandoned/web`);
- the framework's in-process event bus (`src/framework/bus`);
- the service start-up and shutdown built on that bus (`src/framework/app.go`, `server.go`);
- the catalogue gRPC services for job types, job sets and resource pools (`src/src/grpcserver`, `controller`, `service`);
- the process configuration fed from Kubernetes ConfigMaps and merged with `variant.Merge` (`src/framework/config`, `variant`).
Each definition is translated from the Go source, and `PROJECT.json`
maps every definition to the lines it models. TLC checks every module with the
configurations listed below.

## 1. The system

| Part | Source | State | Operations | Interacts with |
|---|---|---|---|---|
| FleetHealthMonitor | `src/monitor/main.go` | the `workers` slice, `retryCount`, the task-queue length read once | ticker loop: scale up, reclaim idle workers, range over the slice (probe, crash check, stuck check, `retryWorker`) | worker processes over their pipes |
| WorkerProcessController | `src/monitor/workerInfo/*.go` | each `Worker` (its `exec.Cmd`, pipes, `LastHealthyTime`, `Progress`) | `StartWorker`, `IsWorkerHealthy`, `IsWorkerCrashed`, `IsWorkerStuck` | the OS process |
| AdmissionController | `abandoned/web/controller/task.go` | none of its own | `NewTask`, one goroutine per request | QuotaLedger, Redis, the event queues |
| QuotaLedger | `abandoned/web/controller/equity.go`, `abandoned/web/service/equity.go` | the Mongo equity records (`AvailableNum`, `IsEnable`, `UserType`) | `CheckEquity`, `CheckVIP`, `CheckTaskTargetFormat` | Mongo |
| EventQueues | `abandoned/web/model/server.go` | `EvtQueue`, `EvtQueueVIP` channels | `PostEvent`, `PostEventVIP` | methods of the nil `ServiceServer`: a call panics |
| QueuePressureAlert | `abandoned/web/controller/handler.go` | the Redis cooldown key | `LimitJobHandler` | Redis, mail |
| DistributedLock | `framework/lock/lock.go` | a Redis key with a token | `Lock` (SET NX), `TryLock`, `Unlock` (token-checked script) | Redis; no caller in this repository |
| EventBus | `framework/bus/*.go` | the topic → handlers map, under a mutex | `Subscribe`, `Unsubscribe`, `Publish` (one goroutine per handler) | ServerLifecycle, the log handlers, `service/common.go` |
| ServerLifecycle | `framework/app.go`, `framework/server.go`, `src/main.go` | the signal goroutine, the web and gRPC servers, main's `Run` | `init`, `Run`, `Start`, `Wait` and the exit handlers of both servers | EventBus, the OS signals |
| CatalogueCRUD | `src/controller/*.go`, `src/service/*.go`, `src/grpcserver/*.go` | job types, job sets, resource pools in Mongo | add, remove, set, get, query, one goroutine per request; add and set validate first, then write | Mongo |
| JobWorkflow | `src/grpcserver/task.go`, `src/worker/zcad/**` | Temporal workflow state | `CreateJob` starts a workflow; cancel and info are stubs | Temporal, the CAD library |
| ConfigWatch | `framework/config/{config,configmap,variants,license}.go`, `framework/variant/*.go`, `framework/k8smanager/configmap.go`, `framework/xutil/decrypt.go` | the package variables `o` (the merged configuration), `monitor`, `ServiceName` | `init` watching the license then the application ConfigMap; `Watch`'s load, merge and watch start; one watcher goroutine per ConfigMap; `initConfigVariants`; `validateLicense` at start and from an hourly ticker | the Kubernetes API, every reader of `config` |
| Plumbing | `framework/database`, `framework/k8s*`, `src/config` | client handles | I/O wrappers | external services |

### Behaviours that are hard to get right

- **Fleet monitor.**
  - Probe goroutines race with the loop on `LastHealthyTime`.
  - A probe has no deadline.
  - `ProcessState` is nil until `Cmd.Wait` returns, so a process that exits on its own is not seen as crashed.
  - `retryWorker` shuts a worker down before it starts the replacement, and that start cannot succeed: `Configuration` is never assigned, because its initialiser is inside a comment on `startWorker.go:51`.
  - The replacement branch at `main.go:86-89` / `101-104` is therefore dead code. It would write `workers[i]` and then delete index `i` from the slice that `range` is iterating.
  - `retryCount` is only written after a successful start, so `MaxRetries` is never reached.
- **Admission.**
  - `CheckEquity` is a read-modify-write with no lock, on a record that many request goroutines share.
  - Its error is ignored (`!isPass && err == nil`).
  - It consumes the credit before the format, validation, lock and `FolderConfig` checks, any of which can still refuse the request.
  - The dedup "lock" is a plain `SET`, and the deferred `DEL` removes whatever key is there.
  - The key's 10 s TTL can expire while the handler is still running.
- **Catalogue.**
  - The add and set operations check, then write, in two Mongo calls. `AddJobSet`'s and `SetJobSet`'s referential check races with `RemoveJobType`.
  - Mongo has no unique index on the ids, so two documents may share one.
  - Many error paths dereference a nil response or result, and the gRPC interceptor recovers no panic: one failed Mongo call ends the process.
- **Configuration.**
  - `merge` returns nil when the two values differ in type. `LoadYaml` ignores its error and returns a Variant with a nil ref, and `GetConfigMapData` returns empty data for a missing key. So one bad document wipes `o`, including what the other ConfigMap contributed.
  - When old and new are both arrays, `merge` stores the old array again (`variant.go:201-202`).
  - `Copy` stores slice elements with `reflect.Value.Set`, which panics on a null element.
  - The `monitor` map is written by `init` and read by watcher goroutines with no lock.
  - `initConfigVariants` reads under the read lock and stores `ServiceName` after releasing it.
  - A closed watch channel makes the watcher spin for ever; nothing opens a new watch.
  - `validateLicense` writes `sn` and `fixedPrivateKey` into `o` with no lock, while the license watcher may be merging its first event; the application `Watch` then needs `fixedPrivateKey` to decrypt.
- **Bus.**
  - `Publish` reads the handler map without taking the lock.
  - Its goroutines index the captured slice only when they run, and `append` and `Unsubscribe`'s in-place delete write the same backing array.
- **Lifecycle.**
  - Shutdown is a chain of bus events: signal → `ExitWebServer`/`ExitRpcServer` → `Shutdown`/`GracefulStop` → `WebServerExited`/`RpcServerExited` → `Wait` returns.
  - `Quit` is published with the signal as its argument. The exit handlers subscribed to it are `func()`, so reflect's `Call` panics, `Publish`'s goroutine recovers, and `Quit` stops nothing.
  - The bus drops a publication to a topic with no handler, and every topic of the chain is subscribed only just before it is needed.

### What each part should guarantee (from `spec.md` and the code's comments)

- **Fleet.**
  - Every dead member is eventually waited for and replaced.
  - A dropped worker no longer runs.
  - The slice holds no worker twice.
  - A hung probe cannot accumulate: a hung member is eventually killed, which releases the probes blocked on it.
- **Admission.**
  - Quota is never over-consumed under concurrency.
  - N consecutive calls get exactly N credits, with no decrement on a refused call.
  - An infrastructure error is reported to the caller, not admitted.
  - Two concurrent calls with the same fingerprint cannot both succeed.
- **Lock.** Mutual exclusion while a key is held, and only the holder releases it.
- **Catalogue.** A job set is stored, by `AddJobSet` or `SetJobSet`, only for a job type that exists (the comments "Associated Job Type Exists, Proceed with the Request").
- **Configuration.** When the configuration is encrypted, the license's `fixedPrivateKey` is in place before the application ConfigMap is decrypted (`config.go` 52-55). A new document overrides the old values at equal keys and leaves the others alone (the comment of `variant.Merge`: "key相同时newValue会覆盖oldValue的值").
- **Bus.** A publication calls each handler subscribed at that moment, once.
- **Lifecycle.** A termination signal shuts both servers down and ends the process (the comments of `app.go` `init`); `Run` returns only when both servers are closed.

## 2. Modules

### `FleetMonitor.tla` (with `MC_FleetMonitor.tla`)

**State.**

| Variable | Models |
|---|---|
| `pc` | where `main()` is in a tick |
| `taskQueueLength` | `main.go:39` |
| `workers` | the slice |
| `i`, `cur` | the range's index and value |
| `proc` | the OS state of each process: none, running, hung, exited, signaled |
| `reaped` | `Cmd.Wait` has returned, i.e. `ProcessState != nil` |
| `healthAge` | ticks since `LastHealthyTime`, capped at `AgeCap` |
| `pending` | probe goroutines still blocked on a worker, capped at `MaxPendingProbes` |

**Actions.** Each monitor action is one step of `main()`, and it includes every call that step makes:
- `Tick`
- `ScaleUp`, which includes `StartWorker`
- `ReclaimIdle`, which includes `RemoveIdleWorkers` and `gracefullyShutdownWorker`
- `LaunchProbe`
- `Healthy`
- `Recover`, which is `retryWorker` after the crash or stuck check
- `EndTick`

The environment actions are:
- `ProbeReturns(w)`: the probe goroutine ends, with `IsWorkerHealthy`.
- `WorkerHangs(w)` and `WorkerDies(w)`: the process stops answering, or ends.

**Abstractions.**
- Ids are model values. `generateUniqueID` is a uuid, so every start uses an id never used before.
- Time is counted in 30 s ticks. Only the order `healthTimeout < idleTimeThreshold` matters, so they are 1 and 2 ticks.
- `Progress` is always 0: nothing writes it after `StartWorker`. That makes a worker stuck as soon as its health stamp is stale.
- `getTaskQueueLength` is a placeholder that returns 0. The model lets it return any value from `QueueLengths`, read once, as the code reads it.

**Fairness.** `WF(MonitorStep)`: the ticker fires for ever, and every call in the loop returns.
- `gracefullyShutdownWorker` times out after 10 s.
- The probe runs in its own goroutine, so the loop never waits for it.
- The backoff sleep is finite.

Each probe against a process that is not hung also gets weak fairness: a running or dead process answers or fails its pipe. A hung process gets no fairness: its probe blocks for ever, as the code's has no deadline. The processes themselves are not assumed to do anything.

### `Admission.tla` (with `MC_Admission.tla`)

**State.**

| Variable | Models |
|---|---|
| `req` | each request's owner and body |
| `rpc` | where each `NewTask` goroutine is |
| `readVal` | what `CheckEquity` read, or `NoToken` after a read error |
| `avail` | `AvailableNum` in Mongo |
| `lockKey` | the Redis key of each fingerprint: the last request that set it |
| `outcome` | what `NewTask` returned |
| `charged` | auxiliary: whether the request consumed a credit |

**Actions.** These follow the awaits and shared-state accesses of `NewTask`:
- `ReadEquity`: `GetEquityListByUserIDOrTenantId`.
- `DecideEquity`: the rest of `CheckEquity` and the `NewTask` test at line 25.
- `TakeLock`: the format check, `validate.Struct` and `RedisSetCtx`.
- `Build`: the `FolderConfig` check, then `PostEvent`/`PostEventVIP` on `model.ServiceServer`. That variable is nil (`model/common.go:5`), so whatever `CheckVIP` answers, the call panics (outcome `panic`). The panic unwinds through the deferred DEL.
- `Release`: the deferred `RedisMultiDelCtx`.
- `Expire(b)`: the 10 s TTL.

Each action is atomic, because it makes at most one call to Mongo or Redis.

The calls are named helpers, after the code they stand for:
- `UpdateEquity` is the `$set` of `AvailableNum`.
- `CheckTaskTargetFormat` is the controller's format check. `CheckVIP` is not a definition: its answer only chooses which nil-receiver call panics.
- `RedisSetCtx` writes the key.
- `RedisMultiDelCtx` is the DEL. Under `DBFaults`, the DEL may also fail, and the key then lives until its TTL.

**Abstractions.**
- A request body is a model value. Equal bodies have equal MD5 fingerprints.
- The checks that depend only on the owner and the body are the constants `FormatAllowed`, `ValidBodies` and `FolderBodies`.
- An owner's records are reduced to the first enabled one, because the loop in `CheckEquity` decides on that record and returns.
- `DBFaults` lets each Mongo or Redis call fail.
- `Serial` makes each call start after the previous one has returned.

### `Catalogue.tla` (with `MC_Catalogue.tla`)

Each request runs on a goroutine of its own, and a handler is one action per Mongo call, so requests interleave between calls.

| Variable | Models |
|---|---|
| `jobTypes`, `jobSets`, `pools` | the three collections, as sequences in natural order; `DeleteOne` and `UpdateOne` act on the first match |
| `pc`, `loc` | the Mongo call each request makes next, and the id and JobTypeId it carries to it |
| `reply` | the status of each request's last reply |
| `crashed` | a panic or `log.Fatalf` has ended the process |
| `nreq` | requests begun, bounded by `MaxRequests` |

A request begins with one of the gRPC server handlers of `src/grpcserver/`, `Grpc<Method>`, one action per method of the three services. The five `JobManageServer` handlers that call `GetCommonHeaders` first (`AddJobType`, `RemoveJobType`, `SetJobType`, `AddJobSet`, `SetJobSet`) go through `Headed`: missing metadata answers 500 and the controller never runs. The other handlers call the controller straight away. Each handler then takes the controller's first step in the same action, which is one of:
- job types: `AddJobType` → `InsertType`, `RemoveJobType`, and `SetJobType` → `UpdateType`;
- job sets: `AddJobSet` → `InsertSet`, `RemoveJobSet`, and `SetJobSet` → `UpdateSet`;
- resource pools: `AddResourcePool` → `InsertPool`, `RemoveResourcePool`, and `SetResourcePool` → `UpdatePool`;
- `GetOne` (for `GetJobSet` and `GetJobType`), `QueryJobSet`, `QueryJobType`, `GetResourcePool`, `QueryResourcePool` and `SetTenantConfig` (for both tenant handlers).

The steps after the arrows are the later Mongo calls of the same request.

`Panic` is every path that dereferences a nil response, result or map:
- the handlers' writes to the reply after a controller error;
- `DeletedCount` of a failed `DeleteOne`;
- `ResourceLimits`;
- the re-paging slice of `QueryJobType` (`SlicePanics`);
- the `Get`/`SetTenantConfig` replies, which are never allocated.

`Faults` lets any Mongo call fail and any metadata header go missing.

`GenerateID` is defined nowhere in the repository, so it is a free choice from `Ids`.

### `BusSpec.tla`

The abstract bus: `subs[t]` is the list of handlers of topic `t`.
- `Publish(t)` adds to `promised` one call per element of `subs[t]`, tagged with the publication and the index.
- `Deliver(c)` makes one owed call.
- `Subscribe` appends, and `Unsubscribe` drops the first occurrence.

It states what the bus promises, and `Lifecycle` is built on it.

### `EventBus.tla` (with `MC_EventBus.tla`)

**State.** The Go data are explicit:
- `handlers[t]` is a slice header: a backing-array id and a length.
- `mem[a]` is backing array `a`; its length is its capacity. Array 0 is the zero-capacity `[]reflect.Value{}`.
- `gor` is the set of handler goroutines that have been started and have not run yet, each with the header it captured.
- `lock` and `pc`/`staged` are the mutex and each client's local slice between its lookup and its map store.
- `crashed` means the runtime has aborted on a concurrent map read and write.
- `tab` is a ghost: the subscription list that the completed calls define.

**Actions.**
- `Subscribe` (lookup plus `append`) and `Unsubscribe` (lookup plus first-match in-place delete) each hold the lock across two steps, then `Store` writes the map and unlocks.
- `append` writes in place below capacity. At capacity it copies into a fresh array of twice the capacity (growslice for slices this small).
- `Publish` takes no lock. While another client is between lookup and store, it may abort the process. Otherwise it starts one goroutine per index.
- `Run(g)` calls `mem[arr][idx]` as it is when the goroutine runs.

**Refinement.** `Abs == INSTANCE BusSpec WITH ...` maps:
- `subs` to the contents of each stored header;
- `promised` to what each pending goroutine's slot holds now.

`AbstractBus == Abs!Spec` is checked as a property.

`Ops` selects the operations the clients call. No code in the repository calls `Unsubscribe`, and with it the refinement does not hold. In the model, an in-flight publication of `[f1]` calls `f2` after `Unsubscribe(f1)` and `Subscribe(f2)` reuse its slot. Nothing in the repository calls `Unsubscribe`, so that case is latent and is not a hazard of this code.

### `Lifecycle.tla`

This module composes the bus (`Bus == INSTANCE BusSpec`, acting through `Bus!Subscribe`, `Bus!Publish` and `Bus!Deliver`) with:
- **main:** `Setup` (`grpcserver.Init`, `LoadServiceRoute`), then `WebStart`, `RpcListen`, `RpcSubscribe`, `WebWait` and `RpcWait`;
- **the signal goroutine:** `SigReady` and `SigPublish`. `Signal` is the environment; `signal.Notify` drops the signal when the goroutine is not at `<-quit`;
- **the serve goroutines:** `WebListen` and `WebExited`, then `RpcServe`, `RpcServeError` and `RpcExited`;
- **the handler calls:** `Deliver(c)`:
  - the exit handlers call `Shutdown`/`GracefulStop`, which close the serve loop running at that moment; a later `Serve` sees the stop and returns `ErrServerStopped`;
  - `WebListen` may run after the web `Shutdown`. `ListenAndServe` then returns `ErrServerClosed` at once. This is the `webClosed` disjunct of `WebListen`, and `StopReachesServers` fails without it: a stop that arrives before `ListenAndServe` would be lost;
  - the `Wait` handlers are a rendezvous on the unbuffered `q`;
  - `log.fatal` ends the process.

`env` is the configuration, chosen in `Init`:
- trusted proxies valid;
- web port usable;
- gRPC port usable.

Logging publications other than `log.fatal` only print, and they are left out.

**Fairness.** Weak fairness on every goroutine step and on every owed handler call: the Go scheduler runs runnable goroutines. There is none on `Signal`, which comes from outside.

### `ConfigWatch.tla` (with `MC_ConfigWatch.tla`)

**Values.** A configuration value is a record:
- `Obj(f)` is an object, where `f` maps keys to values;
- `Arr(s)` is an array;
- a scalar is any other record;
- `NilV` is `&Nil`, a Variant whose `ref` is nil;
- `None` is a nil `AbstractValue` interface.

The data helpers are translated from `variant` as recursive operators:
- `Copy` drops nil map entries, and `CopyPanics` says when it panics on a nil slice element.
- `MergeInto` is merge's traveral visitor.
- `merge` and `Merge` keep their nil cases.
- `get` and `GetKey` follow a dotted path.

`LoadConfigMap` maps a document to its parse result. A malformed or empty YAML document gives `NilV`; a malformed JSON document gives `None`. Two inputs that end the process are not explored, and no run depends on them: JSON truncated at its very end, on which `json.go:17-18` panics, and ciphertext that does not decrypt, on which `decrypt.go:42-49` calls `log.Fatal`.

**State.**

| Variable | Models |
|---|---|
| `o` | `config.go`'s `o` |
| `serviceName` | `ServiceName` |
| `read` | what each goroutine's `initConfigVariants` read and has not stored yet |
| `cm` | the data key's document in the cluster: absent, no key, malformed, or a tree |
| `events` | each watch's result channel |
| `watching` | the watches the API server still serves |
| `monitor` | the `monitor` map |
| `running` | the watcher goroutines |
| `step`, `phase` | where `init()` is: which Watch, before or after its loads, validating the license, or done |
| `encrypted` | `configEncrypted`: a license server URL was found |
| `enc` | per ConfigMap, the `EncryptedConfig` its `Watch` built: off, with a key, or with an empty `FixedPrivateKey` |
| `val`, `ticks` | where each `validateLicense` caller (`init`, the ticker) is, and the ticks so far, bounded by `MaxTicks` |
| `mergeBy`, `mergeV`, `snap` | the watcher holding the write lock between `Copy(o)` and `o = m`, its value, and the `o` it copied |
| `applied` | auxiliary: the last object document merged from each ConfigMap |
| `crashed` | a panic or a fatal map race ended the process |
| `updates` | the operator's edits, bounded by `MaxUpdates` |

**Actions.**
- `WatchLoad`: `Watch` lines 191-220, which load, merge and read the variants.
- `WatchFail` and `WatchStart`: the `WatchConfigMap` error return; or `monitor[name] = keys`, the goroutine, and the ADDED event a new watch delivers. `WatchStart` may also meet a watcher reading `monitor`, and the process aborts.
- `InitVariants`: `config.go:74`.
- `PublishVariants`: the unlocked stores of `initConfigVariants`.
- `License` and `Validated`: `config.go` 48-55, then the return of `validateLicenseWhenStart`.
- `Tick`: the hourly ticker's goroutine calling `validateLicense`, after `init`.
- `Fetch(a)`, `SetFinger(a)`, `Check(a)`: `validateLicense`'s three stages: `http.Get` of the server URL (empty URL: `log.Fatal`), the two unlocked `o.Set` calls (nil `o`: panic; during a merge: a fatal map race, or a write the merge loses), and the token/noise/privateKey check (`log.Fatal` if one is missing).
- `Receive(c)` and `Merged(c)`: the watcher's `*v1.ConfigMap` case, split at the lock: `Receive` decrypts (an empty `FixedPrivateKey` is `log.Fatal`), parses and copies `o`; `Merged` stores `o = m`, unlocks and reads the variants.
- `Expire(c)`: the API server closing the channel.
- `Stop`: `IsRunning` cleared, so the contexts are cancelled.
- `Update(c, doc)`: the operator editing, creating or deleting a ConfigMap.

`init`'s Merges are one step each. The watcher's Merge is two, because `validateLicense` writes `o` without the lock and can fall between them.

**Abstractions.**
- Each ConfigMap has one data key, and the two ConfigMaps set disjoint top-level keys.
- Decryption is modelled only by whether it can run: with a `FixedPrivateKey` it is taken to succeed, without one it ends the process. Corrupt ciphertext is not modelled.
- The license server answers, and the crypto, expiry and fingerprint checks of `validateLicense` (lines 83-151) pass: they depend on the certificate's content, not on the interleaving.
- The watcher's zero-event spin changes no state, so it is the absence of further `Receive` steps.

## 3. Runs

| Run | Config | Expect | What it shows |
|---|---|---|---|
| fleet_monitor | `FleetMonitor_checks.cfg` | pass | `TypeOK`, `NoOrphanProcess`: idle reclamation stops what it drops, even a worker that ignores the shutdown command. `NoZombieWorker` under `FairSpec`: every dead member is eventually waited for. The crash check cannot see a process that was never waited for, so the stuck check finds it from its stale health stamp. `HungWorkerKilled` under `FairSpec`: a hung member, on which one more deadline-less probe blocks every tick, is eventually killed by `retryWorker` or idle reclamation. |
| fleet_dead_member | `FleetMonitor_DeadMemberReplaced.cfg` | violation | `DeadMemberReplaced`: one worker dies while another stays healthy. `retryWorker` shuts it down every tick but cannot start its replacement, and idle reclamation (more than half idle) never fires. The dead worker stays in the slice and counts as capacity for ever. |
| admission_checks | `Admission_checks.cfg` | pass | `TypeOK` (which includes `AvailableNum \in Nat`): calls run one at a time and every Mongo or Redis call may fail. Every path of `NewTask` is taken, and the record never goes negative. |
| admission_lost_update | `Admission_QuotaNeverOverdrawn.cfg` | violation | Two concurrent calls read `AvailableNum = 1` and both spend it. |
| bus_refinement | `EventBus_refinement.cfg` | pass | `AbstractBus`: with `Subscribe` and `Publish` (all the repository calls), the slice-and-goroutine bus implements `BusSpec`. `append`'s in-place writes land beyond every captured length, and each goroutine calls the handler at the index it was given. |
| bus_unsubscribe | `EventBus_unsubscribe.cfg` | pass | `TypeOK`, `TableMatchesSubscriptions`: with `Unsubscribe` too, the stored table stays the list the completed calls define. |
| bus_map_race | `EventBus_NoConcurrentMapAbort.cfg` | violation | `NoConcurrentMapAbort`: `Publish` reads the map while a `Subscribe` is writing it. |
| lifecycle_shutdown | `Lifecycle_shutdown.cfg` | pass | `RunReturnsAfterServersStop`, `StopReachesServers`: `Run` returns only after both serve goroutines have returned, and a signal taken once both exit handlers are subscribed stops both servers. |
| catalogue_jobset_race | `Catalogue_JobSetWrittenWithItsType.cfg` | violation | `JobSetWrittenWithItsType`: `AddJobSet` finds the job type, a `RemoveJobType` deletes it, and the job set is inserted and answered 200. No fault is needed. `SetJobSet` has the same gap between validation and update. |
| config_wipe | `ConfigWatch_ConfigHoldsLastMerged.cfg` | violation | `ConfigHoldsLastMerged`: in 5 states, the license ConfigMap is merged, and then the application ConfigMap lacks its YAML key. `LoadYaml` of the empty data gives a nil-ref Variant, `merge` returns nil on the type mismatch, and the license values are gone from `o`. |
| config_key_lost | `ConfigWatch_DecryptKeyPresent.cfg` | violation | `DecryptKeyPresent`: in 12 states, the license watcher's merge of its first event copies `o`. `validateLicenseWhenStart` then sets `fixedPrivateKey` in the old map without the lock, and `o = m` drops it. The application `Watch` finds no key, and `DecryptDataWithFixedPrivateKey` calls `log.Fatal`: the service fails to start. |
| lifecycle_exit_lost | `Lifecycle_ShutdownAfterStart.cfg` | violation | `ShutdownAfterStart`: a signal taken while main waits in `web.Wait` stops both servers. `RpcServerExited` is published before `rpc.Wait` subscribes to it, so it is dropped and `Run` blocks for ever. |

The model also reaches these, but they are not kept as runs (see the hazards in `PROJECT.json`):
- probes piling up on a hung worker;
- admission charging a call it then refuses, and admitting one whose equity read failed;
- the same credit spent twice by calls made one after another, when `UpdateEquity` fails and its error is dropped (`QuotaNeverOverdrawn` with `Serial = TRUE` and `DBFaults = TRUE`, in 6 states);
- a signal dropped or turned into events before their handlers exist;
- `WebServerExited` lost before `web.Wait`;
- the `log.fatal` exit after `GracefulStop` precedes `Serve`;
- the wrong handler called after `Unsubscribe` (latent: nothing calls it);
- the catalogue process ended by one failed `DeleteOne`;
- `QueryJobType`'s slice panic;
- `merge` keeping the old array: with the invalid documents left out, the same invariant fails once `[b]` was merged and an edit to `[a]` is received;
- `Copy` panicking on the watch's first ADDED event, after a document with a null array element was merged;
- the `monitor` write of the second `Watch` meeting the license watcher's read;
- a stale `ServiceName`, in 8 states: the license watcher reads `service.name` while it is unset, `init` merges the application ConfigMap and stores `"a"`, and the watcher then stores the unset value.
- a running service killed by the hourly check: an application edit wipes `o` (as in `config_wipe`), and the next `validateLicense` calls `http.Get("")` and `log.Fatal`.

Every property of a passing run has a mutant in `PROJECT.json`: a plausible bug in the mapped code that TLC catches under the same configuration. The mutants are:
- an idle slot set to nil instead of dropped;
- no `Kill` after the shutdown timeout;
- a stale `healthy` line read after exit;
- the retry count read as used up, so a stuck worker is never shut down;
- the `AvailableNum >= runNum` comparison off by one (`>= 0`);
- `Publish`'s goroutine closing over the loop variable instead of taking `idx` (before Go 1.22 every such goroutine reads the last index);
- `Unsubscribe` truncating instead of deleting at the index;
- a `<=` loop bound in `Publish`;
- `web.Wait` not blocking on its channel;
- `Serve` ignoring an earlier `GracefulStop`.

### Bounds

- **Fleet.**
  - 3 ids, and queue lengths {0, 5, 15}, so zero to two workers are needed and the third id leaves room for scale-up after a reclamation.
  - A queue of 25 (three workers) makes the space eight times larger (about 4 M states, 9 minutes) and adds no case the invariants or their mutants need.
  - Ages are capped at 3 ticks, above both thresholds. Probes are capped at 2 per worker, enough to show a pile-up.
  - Symmetry is not used, since it is unsound with a liveness property. The run reaches about 530,000 distinct states in about a minute and a half.
- **Admission.**
  - Three requests, two owners and three bodies.
  - The enabled VIP owner holds one credit, so two of its calls contend for it.
  - The other owner's only record is disabled.
  - The bodies are one that is admitted, one without `FolderConfig`, and one that validation refuses.
  - One owner/body pair fails the format check.
  - Requests are symmetric.
- **Bus.**
  - One topic, two handlers (so one can shift into the other's slot), and two client goroutines (a publisher beside a subscriber).
  - Slices are up to 3 long, so `append` grows capacity 1 → 2 → 4. There are at most 3 backing arrays and 3 publications (2 with `Unsubscribe`).
  - There are 6 Subscribe/Unsubscribe calls, or 7 in `bus_unsubscribe`, whose symmetry is over clients and handlers. That is enough for delete-then-append slot reuse behind an in-flight publication.
- **Catalogue.**
  - Two request goroutines, one id and four requests (enough for AddJobType, AddJobSet, RemoveJobType and SetJobSet to interleave), with no faults.
  - Exploring everything with `Faults = TRUE` and four requests (about 22,000 states) reaches every action and every panic path.
- **Lifecycle.**
  - One signal, and every combination of the three configuration faults.
  - `MaxPublishes = 7` is the most the code can publish on the modelled topics: three from the signal, two exit events and two `log.fatal`. So the bound never blocks a step.
- **Configuration.**
  - The license ConfigMap (JSON) has two documents and a malformed one.
  - The application ConfigMap (YAML) has two `service.name` values, two arrays and an array with a null, a malformed document and a missing key.
  - Either ConfigMap may be absent, and there are two edits.
  - That is enough for each watcher to receive an event after `init` and for both to race on `ServiceName`.
  - One tick of the license ticker (`MaxTicks = 1`), enough for a validation to meet a later edit.
  - The whole space is explored with `TypeOK` in about two and a half minutes. The violation is found after about 800 distinct states.

## 4. Not modelled (yet), and the plan

The modules are built in the order of what matters most:
1. FleetMonitor, Admission, EventBus (with `BusSpec` and the refinement), Lifecycle, Catalogue and ConfigWatch (done). The ConfigWatch run replaced Admission's de-duplication run: a plain `SET` refuses nothing, so that run only restated the call.
2. **DistributedLock**: an abstract lock (`LockSpec`) and `framework/lock` shown to refine it, with an instance of `NewTask`'s `SET` that does not.

The runs are capped at twelve, so each of these replaces a run or merges into one.

Left out for good:
- **QueuePressureAlert** (`LimitJobHandler`). It reads `len(model.ServiceServer.JobQueue)`, but nothing in the repository appends to `JobQueue` (`PostEvent` sends on `EvtQueue`) or sets `ServiceServer`, and nothing installs the handler. Its thresholds of 500 and 1000 are never reached, so its cooldown check-then-set never runs.
- `configmap.go` 276-592: commented-out code, plus `getConfigMap`, `Monitor` and `config.LoadConfigMap`, which nothing calls (the code marks them "ready for clean up").
- The Temporal workflow and the zcad worker: Temporal does the scheduling, and the activities are calls to a CAD library.
- Job status transitions: `jobConstants.go` defines the constants and no code moves a job between them.
- The plumbing: client wrappers with no coordination of their own.
- Library code this service never calls: `framework/k8s` and `k8smanager`'s pod and deployment managers, `framework/compoment` (OBS, Realink), `klog`, `xutil`'s generic slice, iterator and struct helpers, and `variant`'s typed conversions (`ToInt`, `ToTime`, ...). They are sequential conversions or I/O wrappers; none shares state between goroutines, so a model of them would only restate the code.
- `ZixelMqBus`: a RocketMQ push consumer with no state of its own.
- `server.go`'s HTTP middleware, versioned-route fallback and gRPC header helpers: request-local formatting.
- `config.Load` from files (the path taken without Kubernetes), the typed getters other than `GetString`, `Print`, and the k8smanager ConfigMap CRUD and `ListenConfigMap`: `config` does not call the last two, and the rest are sequential reads and conversions.
- **EventQueues** (`PostEvent`, `PostEventVIP`): they are methods of `model.ServiceServer`, which is nil and never constructed. A call panics (this is modelled in `Admission`'s `Build`), and the channels never exist.
