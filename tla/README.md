# TLA+ models of the ekglue xDS Manager

This directory checks ekglue with TLC. It covers the xDS control-plane core
(`pkg/xds`, in `src/unnamed/part_001`) and the cds command that wires it to
Kubernetes (`src/cmd/cds/main.go`). The core is the `Manager`: a versioned
resource map plus the per-Envoy stream state machine that pushes snapshots of
it, bridged to gRPC by `StreamGRPC`.

## 1. Inventory

### Components

| Component | Source | State | Operations |
|---|---|---|---|
| Resource | part_001:61-75 | name, payload, `Validate()` | `resourceName` (tries `GetName`, then `GetClusterName`; otherwise panics) |
| Manager store | part_001:96-303 | `resources` map, `version` counter, `sessions` set, one `sync.Mutex` | `Add`, `Replace`, `Delete`, `notify`, `snapshot`/`snapshotAll`, `List`, `ListKeys`, `versionString` |
| Session | part_001:84, 386 | a `chan update` of capacity 1 | non-blocking send, then a blocking send (in `notify`); receive (in `Stream`) |
| Stream driver | part_001:382-551 | `node`, `resources` (the subscription), `txs` (nonce → transaction), cleanup ticker | register; select over drain, ctx, tick, request, update; `sendUpdate`, `handleTx`, deferred cleanup |
| BuildDiscoveryResponse | part_001:360-378 | none (reads the store under the mutex) | snapshot + version + nonce `nonce-<version>-<8 letters>` |
| StreamGRPC adapter | part_001:563-599 | `reqCh`, `resCh`, `errCh` (all unbuffered) | receive pump, send pump, driver goroutine |
| Nonce source | part_001:350-358 | none | `randomString`, which falls back to `xxxxxxxx` when `crypto/rand` fails |
| Introspection | part_001:601-644 | none | `ConfigAsYAML`, `ServeHTTP` (read only, but `List` takes the Manager mutex) |
| Metrics, `OnAck` | part_001:35-59, 472 | Prometheus counters | write only; `OnAck` is called synchronously |
| cds command | cmd/cds/main.go | none | wiring: a ClusterWatcher feeds the server's store |
| ClusterWatcher | part_002 | a client-go reflector | `WatchServices` |
| Dockerfile | part_000 | none | build only |

### Interactions

- The **producer** (the Kubernetes watcher, through a glue store that is not in
  `src/`) calls `Add`, `Replace` and `Delete`. Each one runs under the
  Manager mutex and ends in `notify`.
- `notify` bumps `version`. It then tries every session's slot without
  blocking. Busy sessions go into a second, **blocking** pass that selects on
  the producer context, and **the mutex is still held** during that pass.
- Each **stream driver** (one goroutine per Envoy stream) takes the same mutex
  three times: to register its session, in `BuildDiscoveryResponse`, and in its
  deferred cleanup. Everything else it owns alone.
- `GET /config_dump` (`ServeHTTP` → `ConfigAsYAML` → `List`) takes the same
  mutex to copy the map.
- The **client** sends the first request (node id and `resource_names`), then
  acks or nacks by nonce. It may also disconnect. A process-wide drain
  (`server.Draining()`) ends every stream.

### What is hard here

- A single mutex, held across a blocking channel send, is shared by one
  producer and N consumers.
- Capacity-1 slots, filled by a two-phase fan-out that gives up when the
  producer context expires.
- Every select in the driver is a random choice among its ready cases.
- A snapshot is taken under the mutex and pushed after releasing it, under a
  5 s deadline.
- Per-stream protocol state: the node/subscription latch, nonces, acks, and
  stale transactions.

### What makes each component correct

- **Store.** The map changes only in a mutation that publishes the next version
  (the abstract `StoreSpec`).
- **Responses.** A response holds exactly the subscribed part of the map
  published under the version it names.
- **Stream.** The subscription is fixed once latched. Every push the client
  took ends exactly once, through its own ack, the stale cleanup, or the end of
  the stream, and its span is finished (`TxSpec`).
- **Adapter.** No goroutine sends on a closed channel, the handler returns,
  and no goroutine outlives it.
- **Start-up.** The watcher runs only with the connection and the config the
  flags chose.
- **Producer.** A mutation whose fan-out timed out returns an error.
- **Progress.** A goroutine waiting for the mutex eventually gets it, and a
  connected subscriber eventually holds the final map.

## 2. Modules

| Module | What |
|---|---|
| `StoreSpec.tla` | Abstract specification of the store: `store` and `version`, where one `Publish` step moves the version by one and sets any map. |
| `XdsManager.tla` | The composed system: the Manager (store, version, mutex, sessions, slots), the producer with both passes of `notify`, the stream drivers, the clients and the `/config_dump` reader. It implements `StoreSpec` through the identity mapping on `store`/`version` (`StoreRefinement`). |
| `MCXdsManager.tla` | Model values and small sets for the `MCXdsManager_*.cfg` files. |
| `TxSpec.tla` | Abstract specification of one stream's transactions. A push the client took is pending until it is answered, goes stale and is expired, or the stream closes, and every pending push is eventually retired. |
| `StreamTx.tla` | One stream end to end: `StreamGRPC` (part_001:563-599, the receive pump, the send pump, the handler and the unbuffered `reqCh`/`resCh`/`errCh`) composed with the `Stream` driver's transaction bookkeeping (part_001:350-551: `randomString`, the nonce, `txs`, tracing spans, `handleTx`, the ticker cleanup and the deferred cleanup). A push is recorded when the send pump takes it from `resCh`. It implements `TxSpec` (`TxRefinement`). |
| `MCStreamTx.tla` | Model values for the `MCStreamTx*.cfg` files. |
| `CdsMain.tla` | The cds command (`src/cmd/cds/main.go`): flag parsing, registration, the in-cluster or out-of-cluster connection, config loading, starting `WatchServices`, serving, and every fatal exit on the way. |

### How `XdsManager` corresponds to the code

- **Manager.** `store`, `version` and `sessions` are `m.resources`,
  `m.version` and `m.sessions`. `lock` is the mutex holder. `slot[s]` is the
  capacity-1 `session` channel, holding the changed-name set of an `update`.
- **Producer.**
  - `Add`, `Replace` and `Delete` are the whole methods, including the first
    pass of `notify`. Every step of that pass is non-blocking and under the
    mutex. The driver only ever empties its own slot, so checking all slots at
    one instant is equivalent.
  - `FanoutSend` is one blocking send of the second pass. Its order is the Go
    map order, which is any permutation: `SetToSeqs`.
  - `FanoutTimeout` is `ctx.Done()` winning that select.
  - A `Replace` whose validation fails, and a `Delete` of an absent name, change
    nothing. They are stuttering steps and are left out.
- **Stream driver.** The program counter `dpc[s]` names where `Stream` waits.
  - `Register` and `Cleanup` are the two locked blocks at the start and in the
    `defer`. `Exit` is the drain and ctx cases. `Tick` is the cleanup ticker,
    which retires the oldest transactions.
  - `RecvRequest` covers the whole request case: the latch, the subscription
    diff, the type check, `handleTx`, or a push.
  - `RecvUpdate` is the notification case, with its subscription filter
    `Interested`.
  - `ClientAck` answers a push with the subscribed names in any order
    (`SameNames`), as Envoy may.
  - `BuildDiscoveryResponse` is the locked snapshot. `Deliver` and
    `PushTimeout` are the two outcomes of the push select.
- **Clients.** `ClientOpen`, `ClientAck`, `ClientMisbehave` and
  `ClientDisconnect` model Envoy and the receive pump. `Drain` models the
  server. None of these are assumed fair.
- **Introspection.** `hpc` is the `/config_dump` handler. `ServeHTTP` is a
  request arriving (not assumed fair). `List` is the locked copy of the map,
  taken when the mutex is free. The sorts, the JSON/YAML conversion and the
  reply come after the unlock and change no shared state, so they are left
  out. Their 500 path needs a resource that passed `Validate` and then fails
  to marshal, which does not happen.
- **History.** `history[v]` is the map published under version `v`, and
  `accepted[s]` records that a request was handled. Both are history variables
  for properties.
- **Abstracted away.** Tracing spans, logs, metrics and `OnAck` are omitted. A
  nonce is a per-stream counter (unique, like the random nonce). The order of
  resources inside a response is dropped.

### How the other modules correspond to the code

- **`StreamTx`.**
  - `sendUpdate` draws the hash from `randomString(spans + 1)`. The eight
    random letters are abstracted to the new span's id, which is fresh. If
    `RandMayFail`, the hash may instead be the `Fallback` model value
    ("xxxxxxxx").
  - `Nonce(ver, hash)` is the pair that `"nonce-<version>-<hash>"` encodes
    injectively.
  - `Deliver` is `resCh <- res` winning the select. It records
    `txs[nonce] = t` with `:>`/`@@`, so an equal nonce overwrites the older
    transaction, as a Go map assignment does. `PushTimeout` is the timer
    winning that select: the span is finished and nothing is recorded.
  - `RecvRequest` is a known nonce going to `handleTx`, or an unknown one
    causing a push. `Tick` is the cleanup of stale transactions. `Exit` is the
    deferred loop over `txs`.
  - `open` is the set of spans started and not yet finished.
  - The abstract `pending` is `open` minus the span of the push still in
    flight.
- **`StreamTx`, the `StreamGRPC` half.**
  - Each goroutine has a program counter: `rpc` for the receive pump, `spc`
    for the send pump, `dpc` for `Stream` and `apc` for `StreamGRPC`.
  - The client writes `wire`; `PumpRecv` moves it into `reqCh` and the
    driver's `RecvRequest` takes it. `Deliver` hands the push in flight to
    the send pump (`resCh <- res`), and `SendPumpWrite` puts it in the
    client's `inbox` unless the client is gone.
  - `Exit` is the driver returning on ctx or on a closed `reqCh`, with its
    deferred cleanup. `Collect` is `err := <-errCh` followed by
    `close(resCh)`.
  - `RecvFails`: `Recv` fails once the client is gone or the handler has
    returned.
- **`CdsMain`.**
  - `mpc` is the line main is on. Each `Connect*`/`LoadConfig` result is a
    small set of outcomes, and every error is `Fatal`.
  - `StartWatcher` is `go WatchServices(context.Background(), ...)`.
  - `OutOfCluster` is the test at line 44: `--kubeconfig` or `--master`.
  - `Reflect` stands for the reflector publishing versions.
  - The watcher's internals (part_002) are reduced to "publishes versions".

## 3. Runs

| Run | Module / cfg | Expect | Checks |
|---|---|---|---|
| core_safety | MCXdsManager / `_safety` | pass | `TypeOK`, `StoreRefinement`, `ResponseMatchesVersion`. Two payloads, so content can differ under one version. Clients may change names or send a wrong type, and pushes and the producer context may time out. |
| convergence_wildcard | MCXdsManager / `_converge` | pass | `Convergence` for wildcard subscribers when the producer context can expire, with MaxVersion 3 |
| add_partial_write | MCXdsManager / `_addfail` | violation | `StoreRefinement`: Add's partial write on a validation error |
| empty_node_id | MCXdsManager / `_nonodeid` | violation | `SubscriptionImmutable`: the latch stays open while the node id is `""` |
| subscription_reorder | MCXdsManager / `_reorder` | violation | `SubscriptionCompareSetwise`: `cmp.Diff` rejects the same names in another order |
| dropped_fanout_error | MCXdsManager / `_droppederr` | violation | `ProducerToldOfMiss`: `Add` returns nil after the fan-out timed out |
| fanout_deadlock | MCXdsManager / `_deadlock` | violation | `LockEventuallyGranted` when the producer context never expires: a deadlock |
| missed_notification | MCXdsManager / `_missed` | violation | `Convergence` for a specific-name subscriber after a producer-context timeout |
| tx_refinement | MCStreamTx / `MCStreamTx` | pass | `TypeOK`; `TxRefinement` (StreamTx implements TxSpec, liveness included) while `crypto/rand` works; `NoSendOnClosed`; `AdapterReturns` |
| nonce_fallback | MCStreamTx / `_fallback` | violation | `TxRefinement` when `crypto/rand` may fail |
| startup | CdsMain / `CdsMain` | pass | `WatcherConnected` |
| recv_pump_leak | MCStreamTx / `_leak` | violation | `PumpsTerminate` |

For each property of a passing run, PROJECT.json names a mutant: a plausible
bug in one mapped definition. TLC finds that property violated once the mutant
replaces the definition.

### Findings

1. **Deadlock (`fanout_deadlock`, part_001:204).**
   - `notify` blocks on a full slot while it holds the mutex.
   - The driver that would empty the slot needs the same mutex, either for
     `BuildDiscoveryResponse` or for its deferred cleanup.
   - The shortest trace: the stream ends on drain (or on a disconnect) while an
     update sits in its slot, and the next `Add` hangs forever. From then on
     every mutation, every new stream and every cleanup also hangs.
   - Only the producer context's deadline breaks the cycle. `main.go` does not
     show which context the glue store passes.
2. **Missed notification (`missed_notification`, part_001:546).**
   - When the producer context expires, a busy session misses the update.
   - The spec says it will resync through a later event. But the update
     occupying its slot may name only resources it does not subscribe to, and
     `Stream` drops such an update.
   - The subscriber then keeps stale resources until some unrelated future
     change.
3. **Add partial write (`add_partial_write`, part_001:221).** The spec says a
   batch with an invalid resource leaves the store unchanged. The code has
   already written the earlier resources, and it neither bumps the version nor
   notifies.
4. **Empty node id (`empty_node_id`, part_001:506).** The subscription latch is
   keyed on `node == ""`. A client without a node id can therefore change its
   `resource_names` on every request without the `FailedPrecondition` the spec
   requires.
5. **Nonce collision (`nonce_fallback`, part_001:352).**
   - When `crypto/rand.Read` fails, every nonce at a version is
     `nonce-<v>-xxxxxxxx`.
   - In the 10-state trace, a notification push and the push that answers the
     first request share a nonce. `txs[nonce] = t` overwrites the first
     transaction, so its span is never finished.
   - An ack of either push retires the other push's transaction.
6. **Receive pump leak (`recv_pump_leak`, part_001:578).**
   - Suppose `Stream` returns (drain, ctx, or an error) while the receive pump
     holds a request it has already `Recv`'d.
   - The pump then blocks forever on the unbuffered `reqCh <- req`, after
     `StreamGRPC` has returned.
   - `AdapterReturns` holds, so the handler itself does return. The goroutine
     is what leaks.

7. **Subscription reorder (`subscription_reorder`, part_001:513).** The spec
   compares `resource_names` with the latched subscription as sets. The code
   uses `cmp.Diff`, which is order-sensitive. A client that subscribes to
   `[a, b]` and acks with `[b, a]` gets `FailedPrecondition` and loses its
   stream, although its subscription did not change.
8. **Dropped fan-out error (`dropped_fanout_error`, part_001:232).** Spec
   sections 4.2 and 7 say a fan-out abandoned on the producer's deadline
   returns a deadline error to the producer. `notify` returns `ctx.Err()`,
   but `Add` (:232) and `Replace` (:264) ignore it and return nil, and
   `Delete` returns nothing. In the 5-state trace one `Add` fills the
   stream's slot, a second finds it full, the context expires, and `Add`
   returns nil. The model's `returned` records what the last call returned.

**Observations, not checked by a run.**

- **Answer before the first list (`src/cmd/cds/main.go`:68).** The server
  serves as soon as `WatchServices` is started, before the reflector's first
  list. An Envoy that connects then is answered with an empty store at
  version 0. Neither the spec nor a comment says what that answer should be,
  so no property states it.
- **Notification before the first request (part_001:546).** A session is
  registered before any request, and its nil subscription is read as a
  wildcard, so a notification is pushed to it. Spec section 4.3 applies the
  wildcard rule in every state, so this is no disagreement with the spec.
- **Synchronous `OnAck` (part_001:472).** `handleTx` calls the callback
  inside the driver loop. A slow callback keeps the driver from its slot, so
  the next `notify` blocks holding the mutex and everything waits with it.
  The callback is set, if at all, in `pkg/xds`, which is not among the
  sources. The model takes it to return at once, as spec section 6 asks.
- **Timed-out push (part_001:442).** When a push times out and the producer
  has stopped, the client keeps its old configuration, because Envoy does not
  repeat an unanswered request. For this reason the `Convergence` runs do not
  let pushes time out.

### Bounds and why they are enough

- **MaxVersion 2** (3 for convergence) gives two notifications. One fills a
  slot and the next finds it full, which is every case of the two-phase
  fan-out on one stream.
- **MaxReqs 2** covers the first request, then an ack, or a resubscription
  with a stale nonce, or a misbehaving request.
- **Names {a, b}** let a specific subscription and an unrelated change coexist.
  The missed notification needs exactly that.
- **Two streams** exceed TLC's budget at this level of detail: with two
  names, 11M distinct states for safety alone (about 6 minutes), and the
  liveness check did not finish in 10 minutes. The single-stream runs still contain every
  deadlock and miss shown above. The fan-out order across several busy
  sessions (the `ELSE` branch of `FanoutSend`) is left for the reduced model
  in the plan.

### Fairness

- **Assumed (weak fairness).** Every driver step, `List` once the mutex is
  free, and both outcomes of `notify`'s second pass. The Go scheduler runs runnable goroutines, a select
  with a ready case proceeds, `sync.Mutex` has a starvation mode, and a
  context deadline fires.
- **Not assumed.** Producer calls, client requests, HTTP requests,
  disconnects and drain.
  These are the environment.
- **Push timeouts.** Convergence is checked without them, so its recovery
  after a timed-out push is not checked. A timed-out push is recovered only by
  a later event, which the spec accepts. `TxRefinement` checks the timed-out
  push's bookkeeping: its span is finished and no transaction is recorded.
- **`LockEventuallyGranted`** is stated as "again and again nobody waits for
  the mutex", which, with every wait a fair step, means every wait ends. With
  a producer context that can expire it holds by the fairness of
  `FanoutTimeout`, so it is checked only where it fails: `fanout_deadlock`.
- **Deadlock checking.** Every cfg sets `CHECK_DEADLOCK FALSE`. Once the
  bounds on mutations and requests are used up, every goroutine waits for
  input, as the real server does when idle. The one real deadlock is caught as
  a violation of `LockEventuallyGranted` instead.

### Bounds and fairness of the other modules

- **`MCStreamTx`.**
  - Bounds: MaxVersion 2 and MaxReqs 3, which give up to 6 pushes.
  - These bounds are enough for a push to be answered after the ticker has
    retired it, which leads to a re-push. They also allow two pushes at one
    version (the collision).
  - Fairness: weak fairness on the driver's select cases, on the ticker and on
    time passing (`Age`). Envoy, the producer and the push timer are not
    assumed to act.
  - The same bounds drive the `StreamGRPC` half: three client requests and
    two notifications reach the pumps. Weak fairness covers every goroutine
    step that has a ready channel operation (both pumps, `Collect`, `Exit`).
    The client, its disconnect and cancellation are not assumed to act.
- **`CdsMain`.**
  - Bounds: MaxVersion 3.
  - Fairness: weak fairness on main's own steps. main is a single runnable
    goroutine. Nothing is assumed of the API server or of clients.

## 4. Not modelled

- The formatting inside `ConfigAsYAML` (sorts, JSON, YAML): it changes no
  shared state and no property is about the text. `ListKeys` is not called
  by any code in the sources.
- Metrics and `OnAck`: write-only side effects. The synchronous `OnAck`
  call is listed as a hazard.
- The Dockerfile: build only. It builds `./cmd/ekglue`, while the command in
  the source is `cmd/cds`; nothing of this can be model-checked.
- The internals of client-go's reflector in `WatchServices` (part_002): an
  external library. `CdsMain` reduces it to "publishes versions".
- `resourceName`'s panic.
- The `ResponseBuildFailed` path: `MarshalAny` and `Validate` on resources
  that already passed `Validate`.

## 5. What is left

1. **Several sessions.** The fan-out order across several busy sessions (the
   second pass over more than one blocked session) needs two streams, which
   exceed TLC's budget at this level of detail (see the bounds). A reduced
   model would drop the drivers' protocol state and keep only "empties its
   slot / waits for the mutex".
2. **Pure operators.** `ApplyAdd` and `snapshot` could be checked against
   reference definitions (last-writer-wins; present ∩ wanted) over all small
   inputs.
