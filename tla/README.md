# gpu-model-broker, modelled and proved

A TLA+ development of the GPU broker in `src/broker/`: a FastAPI service that
starts, shares, evicts and stops GPU worker containers so that the models
resident on each card fit in that card's VRAM budget. The worker servers in
`src/containers/` and the reference client are modelled beside it.

Line numbers refer to the sources as they are in `src/`. The machine-readable
version of everything below (components, map from definitions to lines, runs,
mutants, findings, hazards, theorems) is `PROJECT.json`.

## 1. Inventory

### Components

| Component | Source | State it keeps | Operations | Modelled by |
|---|---|---|---|---|
| scheduling policy | `broker/policy.py` | none; reads a snapshot of `State` | `plan_acquire` | `Policy`, `Planner` |
| broker state | `broker/state.py` | workers, tickets of starts in flight (`starting`), handles with leases, pins, idle clocks | the methods of `State`, `rediscover_from_docker` | `Broker`; what they promise in `Residency` |
| HTTP API and idle sweep | `broker/app.py` | `State.lock`, the local variables of the handlers in flight | `/acquire`, `/release`, `/renew`, `/status`, `/admin/pin`, `/admin/unpin`, `_idle_sweep_loop`, startup | `Broker` |
| role table | `broker/config.py`, `config/roles.yaml` | constant after start | load, validate | `BrokerConfig` (constants) |
| GPU ledger and placement | `broker/gpu_ledger.py` | the inventory and budgets of the broker's start | `resolve`, `match_selector`, `resolve_placement` | `Placement` |
| Docker manager | `broker/docker_mgr.py` | none of its own; Docker's containers | `start_worker`, `stop_worker`, `list_running`, device requests | `Broker`, `Placement` |
| reference client | `client/gpu_broker_client.py` | handle, renewal thread | acquire, renew, release | `LeaseClient`; in `Broker` as the broker sees it |
| whisperx worker | `containers/whisperx-server/server.py` | model caches, readiness latch; per upload an ffmpeg process, three pipes, two drain threads | `/transcribe`, `/transcribe_upload`, `/readyz` | `Upload`, `Whisperx` |
| embedding and reranking workers | `containers/tei-embed/server.py`, `containers/bge-reranker/server.py` | readiness latch | inference, `/readyz` | `Readiness`; in `Broker` as containers that become ready |
| CPU encoder service | `containers/encoder-cpu/server.py` | loaded models, last use, lock | `/v1/embeddings`, `/rerank`, the idle unloader | `Encoder` |
| observability, entry point | `broker/observability.py`, `broker/__main__.py` | none | `/status` figures, uvicorn | not modelled |
| deployment | `systemd/*.service`, `docker-compose.yml` | none | restart policy, `KillMode=process` | in `Restart` and `Down` |

### How they interact

All requests and the sweep run on one asyncio event loop and share one `State`
guarded by one `asyncio.Lock`. Docker calls run in threads (`asyncio.to_thread`).
An acquire plans and reserves under the lock, starts containers and probes their
health outside it, lands each start under the lock again, and loops back to
plan; requests that need somebody else's start sleep on that ticket's
`asyncio.Event`. Containers outlive the broker: a new broker process finds them
by label and takes them for resident workers. The ledger (`gpu_ledger`) decides
twice where a role lives, once for the charge (`State.gpu_for_role`) and once for
the container (`DockerManager._device_requests_for`).

A worker's synchronous endpoints, its `/readyz` and every `run_in_threadpool` call
share one pool of threads; its asynchronous upload handler runs on its event
loop. The broker probes a worker's liveness path only; Docker's HEALTHCHECK asks
`/readyz`, and nobody reads Docker's verdict.

### What is hard here

- **Interleaving.** Cold starts run outside the lock, so several acquires,
  sweeps, releases and pins interleave with each; evictions and sweeps hold the
  lock across awaits, on a list of victims chosen before the first of them.
- **The reservation.** A start takes VRAM that no worker accounts for until it
  lands. The ledger must see it from the decision to the landing, with no gap,
  over failures and restarts.
- **Waiting.** Waiters depend on every path of every owner to set the event.
- **Partial failure.** `docker run`, `docker stop`, the health probe and the
  placement of an implied role may each fail in the middle of a multi-step plan.
- **Restarts.** Memory is lost between any two steps and containers are not.
- **Clocks.** Pins, touches, starts, lapses and unpins all write one idle clock.
- **Lossy calls.** Renewals and releases time out, arrive late, or are served and
  their answers lost, while the lease runs down.
- **Stale beliefs.** `State.workers` is not compared with Docker after a landing.
- **Pipes.** An upload is pushed through ffmpeg by a handler that blocks, now in a
  pool thread, now on the event loop, between three bounded pipes.
- **Unloading in use.** The encoder judges idleness by when requests began.

`PROJECT.json`, "hazards", lists each of these at its line, with the properties
that cover it or the reason why none does.

### What makes each component correct

- policy: a plan that is feasible fits on the target's own card; a refusal is
  final; the victims are pinned by nobody, held only if `evict_on_acquire` says
  so, and the oldest that suffice.
- state and API: no card is promised beyond its budget; whatever runs is
  charged; tickets are owned and waiters wait on live tickets; no two threads
  start one role; holds and pins protect; idle clocks match pins; lapsed leases
  and idle workers go; a grant is of a worker that serves.
- placement: a worker is charged to the card it sees; ambiguity is refused.
- client: a live client keeps its lease although its handle comes late and
  renewals fail, as far as the lease is long enough; a dead one does not hold for ever; what is gone does not come back; no thread is left behind.
- workers: every request is answered; only whole uploads are transcribed; no
  ffmpeg is left behind; the event loop is held up for a while only; a model that
  failed stays reported.
- encoder: no model is dropped in use or loaded twice; idle ones go in time.

## 2. Modules

```
BrokerConfig            constants: roles, cards, sizes, policy lists
  Policy                plan_acquire as a set of plans over a snapshot
    Policy_proofs       what plans and refusals are worth on any snapshot
    Planner             plan_acquire asked once, about any snapshot
      MCPolicy          every snapshot of a small broker      Policy.cfg
      Planner_proofs    plans fit, refusals are final, victims are due, the loop
    Broker              State + API + sweep + Docker
      MCBroker          role tables for TLC                   Broker_*.cfg
      Broker_proofs     types, tickets, exclusion, holds, pins, idle clocks, plans
        Ledger_proofs   orphans, Docker tracking, the budget, Residency
  Residency             what the broker promises, in whole steps (INSTANCEd by Broker)
Placement               selectors, charge and pin, restarts, edits
  MCPlacement           three cards, two roles                Placement.cfg
  Placement_proofs      charge = pin, no guessing
LeaseClient             one lease: client, renewal thread, network, handle table
                                                            LeaseClient.cfg
  LeaseClient_proofs    what a lease bears
Upload                  the upload decoder: handler, ffmpeg, pipes, drains
  Whisperx              both endpoints, model caches, latch   Whisperx.cfg
    Whisperx_proofs     whole uploads, no leak, no circle of waiting, the latch
Readiness               the latch every GPU worker is (INSTANCEd by Whisperx)
Encoder                 lazy loads, requests, idle unloader   Encoder.cfg
  Encoder_proofs        not dropped in use, not loaded twice, freed in time
```

### BrokerConfig

The values read at startup. `GpuOf` is `State.gpu_for_role` over the startup
inventory (`NoGpu` where it raises); how it is computed is `Placement`'s
subject. `SumMb`, Python's `sum()` over a set of roles, is a constant that
`SumAssumption` characterises by additivity: TLC gets a table, and the proofs
need no induction over sets. `ImpliesAssumption` (no role implies itself) holds
of `roles.yaml`; the loader does not enforce it. `FiniteAssumption`: a role table is a
finite dictionary.

### Policy

`plan_acquire` returns one plan; `PlanAcquire` returns the set of plans that the
source can return, one per order that Python's sort may give workers touched at
the same instant, and the empty set for "infeasible". `UsedMb`, `FreeMb`,
`FilterEvictable`, `LruCandidates`, `ToWarm`, `ToTouch` are the helpers of the same
purpose. The eviction loop is stated declaratively (`LruVictims`: a prefix of
the age order that just suffices); `Planner!LoopAgrees` says that this is what the
loop returns, and `LoopIsExact` proves it. The last part of the module is the
vocabulary of properties, shared by `Planner` and `Broker`: what a snapshot is
(`IsSnapshot`), and what it means that victims make room (`MakesRoom`), that they are
due (`AreDue`), and that no victims would make room (`Hopeless`).

### Planner

A machine of one step: an arbitrary snapshot, one role asked for, its plan or
refusal recorded. It gives the facts about `plan_acquire` a specification
that TLC enumerates (`MCPolicy`) and that the theorems are about. The snapshots
are all that `State` can be in: last-use times are ranks, ties included, and pins
and handles may be of absent roles, too. `SortedLists`, `Firsts` and `LoopVictims`
are the sort and the loop as the source runs them; only `LoopAgrees` uses them.

### Residency

The abstract specification of `Broker`: sets of resident, reserved and pinned
roles, and who holds which. Its steps reserve room that exists (`Reserve`), turn
reservations into residents (`Land`) or drop them (`GiveUp`), stop a worker that is
neither pinned nor held (`Stop`; a held one only if some role evicts it by name),
grant residents (`Grant`), drop handles, pin and unpin, and crash. There are no
requests, locks, plans, tickets, threads or containers. `Broker!Abstract` maps
`workers`, the roles with a ticket, `pinned` and the visible handles to it, and
`Broker!Refines` says that every step of `Broker` is one of these or changes none of
the four. `MutualEviction` is `Residency!Apart` of what is charged.

### Broker

One action per stretch of code between two awaits:

| Code (`app.py`) | Actions |
|---|---|
| `/acquire` up to the loop | `AcquireReq` |
| planning under the lock | `PlanWait`, `PlanRefuse`, `PlanGrant`, `PlanCommit` |
| evictions, one `docker stop` per await | `EvictStop`, `EvictFail` |
| `begin_start` for all, touches, unlock | `Reserve`, `ReserveRaise` |
| `start_worker` in a thread | `StartOk`, `StartRaise` |
| `_wait_for_worker_health` | `HealthOk`, `HealthTimeout` |
| landing under the lock | `LandOk`, `LandBad`, `LandErr` |
| `/release`, `/renew`, `/status`, pin, unpin | `Release`, `Renew`, `Status`, `Pin`, `Unpin` |
| `_idle_sweep_loop` | `SweepBegin`, `SweepStop`, `SweepFail` |
| time passing | `IdleFires`, `LeaseLapses` |
| the worker's model comes up; a stop from outside | `ModelLoads`, `ExternalStop` |
| broker dies, `_build_state` and `rediscover_from_docker` | `Restart` |

State: `workers`, `idle`, `older`, `pinned`, `ticket`, `lease` are `State`; `lock` and
`plan` are the lock and the plan under it; `pc`, `req`, `at`, `todo` are the request of
each client; `container` is Docker. `older` is the order of `last_request_at`,
`idle` says whether an idle deadline is unset, ahead or past, and `lease` does the
same for `hold_until`; the clock values themselves do not matter to any property.
A client runs one acquire-to-release cycle at a time, so a handle is
identified with its client.

Abstractions, each of which only adds behaviours: the order of victims, of
tickets after the target's, and the choice among pending tickets are arbitrary
(the code takes a list order); a container is `down` whether it is absent or
stopped; a health probe may find a ready worker too slow. A waiter for a start that
failed raises only if the failure has a text (`Raised` is over the tickets with one):
`str(exc)` may be empty, and then the waiter plans again. Unpinning a role that is
not pinned starts its idle clock anew, as in the code. `Faults` names what may
go wrong around the broker in an instance: `restart`, `extstop` (a container
stops behind the broker's back), `startfail` (no container results),
`startlost` (`start_worker` raises after the container runs), `healthfail`,
`stopfail`.

Left out: a `docker run` that is in a thread when the broker is killed and
completes after the new broker has listed the containers; a client that
vanishes is one that never calls `Release`; a client whose `/acquire` failed simply
asks again.

### Placement

Selectors, ledger keys and the inventory as in `gpu_ledger.py`; `Boot` is
`_build_state`, `Start` the charge of `begin_start` together with the pin of
`start_worker`, `Down` a stop or crash of the broker (containers run on), `Edit` an
edit of `roles.yaml`, which the broker reads at its next start. The inventory is
any set of cards and does not change while the machine is up.

### LeaseClient

The life of one handle, in time. `acquire()` is `Grant`, `Answered` or `AnswerLost`,
`Exit`, `Joined`, `Release` or `ReleaseFails`; `_Renewer.run` is `Wake`, `RenewOk`,
`RenewFails`, `RenewRefused`; the broker's half is `BrokerRenews` (`/renew`, which drops
lapsed handles first), `Expire` and `Restart`; `Die` kills the process. A request the
client has given up on may arrive later (`StrayRenewal`, `LateRelease`) or never.

Clocks count ticks; `Tick` waits for whoever's limit is reached, so a thread
whose wait is over runs before the next tick. Each wait has the code's own limit
(`Patience`): the client waits up to `AcquireTimeout` (600 s) for the answer to
`/acquire`, whose lease runs from `Grant` on, so the with-block may begin on a lease
that is partly or wholly gone; a renewal or a release has `Timeout`, `join()` has
`Join`. `lag` is how long the last answer took that the client accepted, of
`/acquire` or of a renewal, and `fails` how many renewals have failed since.

`LeaseKept` says what the client gets from that: while `Bears` holds, which compares the
lease with this delay, the failures and one more cycle of interval and call, the
handle is there and its lease has not lapsed, or the broker restarted. It has no
other condition: not on how late the answer came, nor on how many renewals failed.
Without `Bears`, as the docstrings of `_Renewer` and `acquire()` have it, it would be
false (see the findings).

The broker's clock is taken to run at the client's pace and not to jump
(`hold_until` is wall-clock time). `renews` is false for a broker that predates `/renew`
and never expires handles, which the client detects. A renewal that is answered with
2xx counts as served: `_renew` parses the body and would end the thread on one that
is not JSON (`ValueError` is no `BrokerError`), but `/renew` in `app.py` returns nothing
else, and a body that breaks off raises inside `session.post`. `Broker` has
the same handle table without time.

### Encoder

`encoder-cpu/server.py` in time. `Request`, `Get` (the lock, `_last_use`, the lookup),
`LoadOk`/`LoadFails` (under the lock), `Finish` are a request in its thread; `Unload` is
one turn of `_idle_unloader`; `Tick` is time, which passes only when nobody can go on
without it. `EncoderAssumption` says how long a load and an inference may take
together: not longer than the idle limit (30 minutes). Without it the unloader
does drop models in use (see the findings).

### Readiness, Upload, Whisperx

`Readiness` is all the state of the embedding and reranking workers: `_MODEL_OK`,
latched off by the first failing inference (`Fail`), and Docker's count of
failed `/readyz` checks in a row.

`Upload` is `_decode_request_body`, in blocks of audio instead of bytes: the handler
(`Popen`, `Receive`, `WriteBegins`/`Put`/`WriteReturns`, `WriteBreaks`, `BodyEnds`,
`EndReturns`, `Disconnect`, `Closed`, `WaitBegins`, `Waited`, `Joined`), the two `_drain` threads
(`DrainOut`, `DrainErr`) and ffmpeg, which is external: it reads, writes audio or
messages, blocks on full pipes, and may end early or fail at any time. `loop`
is the request whose handler is blocking the event loop; the handler does that in
`stdin.close()` (which flushes) and in `join()`, not in `write()` and `wait()`, which run
in the pool. The stream's last chunk is empty and takes a turn in the pool like the
others (`BodyEnds`, `WriteBegins`, `EndReturns`), but its write neither blocks nor
breaks. What each step waits for has a name of its own (`Puts`, `Written`,
`Broken`, `Flushed`, `Reaped`, `Drained` for the handler, `Audio` and `Messages` for the
drains, `Reads`, `Gives`, `Complains`, `Ends` for ffmpeg), so that `NoCircle` can say
that somebody's wait is over without `ENABLED`, which has no proof rules here.

`Whisperx` adds `/transcribe`, the pool's threads (a request in one keeps its token
until the event loop gets back to it), the passes of `_transcribe_impl` with their
lazily loaded models, the probe of the diarization weights (`available`), and the
latch. `Whisperx!Latches` says that with all this it is still a `Readiness`. The
transcription, alignment and diarization themselves are steps that succeed
or fail; only the first kind of failure trips the latch, alignment's is swallowed.

### Runs and bounds

| Run | What it asks | Instance |
|---|---|---|
| `policy` | `PlanFits`, `RefusalJustified`, `EvictionsDue`, `LoopAgrees` | every snapshot of 4 roles of sizes 3, 2, 1, 1 on cards of 4 and 1: any residents, starts, pins and holds (of absent roles, too) and order of use, ties included |
| `tight` | `BudgetRespected`, `WaitersCovered`, `StartStopExclusive`, `MutualEviction`, `HeldRoleStays`, `PlanStaysDue`, `RefusalsFinal`, `TypeOK` | 3 clients, 4 roles, one card that holds some pairs only; starts, probes, stops fail |
| `split` | `LedgerTracksDocker`, `TicketsOwned`, `IdleClockSet`, `PinnedNotStopped`, `Refines` | 2 clients, 2 cards, an implied role, an eviction across cards, a pin, restarts and all faults but `startlost` |
| `broken` | `BudgetRespected` | an implied role with no card (orphaned tickets), `startlost`, `extstop` |
| `live` | `WaitEnds`, `LapsedDropped`, `IdleStopped`, `GrantedServes` | `FairSpec`, 2 clients, 3 roles, room for 2, failing starts |
| `placement` | `ChargedWherePlaced`, `NoAmbiguousPlacement` | two 3090s and a 3060 in every combination, 5 selectors, 2 roles |
| `leases` | `LeaseKept`, `GoneForGood`, `HandleGoes`, `ThreadEnds` | `FairSpec`, leases of 300, 180, 60 and 10 s in ticks of 10 s: intervals of 60, 60, 20 and 10 s, an answer to `/acquire` up to 600 s late, a call up to 20 s (`requests` applies its 10 s to connecting and to the answer), join after about 10 s, three failures in a row, one stray renewal |
| `encoder` | `KeptInUse`, `OneCopy`, `FreedInTime`, `FreedAtLast`, `TypeOK` | `FairSpec`, 3 threads, 2 models, a limit of 6 ticks, turns of 2, loads up to 2 and inferences up to 4 |
| `whisperx` | `TranscribedWhole`, `NoLeak`, `NoCircle`, `Answered`, `Latches`, `Reported`, `TypeOK` | `FairSpec`, an upload of 3 chunks and a request by path, both diarizing, a pool of one thread, pipes of one block, 2 messages per bad chunk |
| `implies_overcommit` | violates `BudgetRespected` | the same `roles.yaml` on the 3060 (12288 MiB less 1024) |
| `dead_worker_granted` | violates `GrantedServes` | a worker stopped by hand |
| `orphan_ticket` | violates `TicketsOwned` | an implied role with no card |

Why these bounds are enough to be interesting: two clients suffice for every
pairwise race (plan against start, start against eviction, waiter against owner),
and the third in `tight` adds a bystander: one request evicts while a second is
starting and a third waits or holds. Four roles give a target, a mutual-eviction
pair and a bystander to evict by age. Cards are sized so that one role fits
beside some others and not beside all: without eviction nothing could run, and
with a wrong one too much would. No counter is bounded, because
none is left in the model. The clients are symmetric; the liveness run declares no
symmetry. `implies_overcommit` leaves `transcribe` out: its `loaded_mb` is
0, so the ledger never sees it, and no role but `llm_large`'s evictions names it.
The shipped table on the 3090 has no run: `MCBroker!OnScully` evaluates that it meets
the hypotheses of the theorems (`WarmFits`, `Placeable`), and `OnSasha` that on the
3060 it does not.

In `leases` the times are the program's own, in ticks of 10 s. The four leases are the
default, the longest whose third is its interval, a short one and one whose interval is
the floor of a tick, as that of `hold_seconds` 1 to 3 is the floor of a second. The first
bears two failures in a row ("a couple of times", `gpu_broker_client.py:51`) if the
last answer took less than 60 s, the second one, the third none, the last not even
a slow call; with answers up to 600 s late and `MaxFail` one more than the best of
them bears, each of them lapses in some behaviour, so `Bears` is false as well as true. `MaxStray` is 1:
stray renewals act one at a time, and on a handle table that has no memory
of how many there were.

In `encoder` the limit is as tight as `EncoderAssumption` allows (2 + 4 = 6) and not a
multiple of anything, so that the unloader's turns fall everywhere in a request; three
threads give one that computes, one that loads and one that waits for the
lock. In `whisperx` everything is at its smallest that can block: a pipe of
one block is full at once, one pool thread makes a request wait for
the other's model, a body of three chunks exceeds ffmpeg's stdin pipe and
the write buffer together. A larger pool or pipe only removes waiting; the safety
properties are proved for every size. `Retries` is 2 instead of Docker's 3.

`CHECK_DEADLOCK FALSE` appears twice: in `policy`, where one question is asked and
the behaviour ends, and in `broken`, where every client may end up waiting on an
orphaned ticket (that is finding `orphan_ticket`).

Every property of a passing run has a mutant: a plausible slip in one mapped
definition, written beside it, under which TLC finds the property violated. The
names of the mutants are in the comments of `Policy`, `Broker`, `Placement`,
`LeaseClient`, `Encoder`, `Upload` and `Whisperx`.

### Fairness

`FairSpec` assumes, and the code provides:

- weak fairness of everything that runs in a thread or against a deadline: a
  Docker call returns or raises, a probe ends at `WORKER_HEALTH_TIMEOUT_S`, a
  loading model comes up, an idle deadline passes;
- strong fairness of the steps that take `State.lock` in a request and in the
  sweep. `asyncio.Lock` serves its waiters first come, first served, so a request
  that waits gets it, although it may see it taken many times before then;
- nothing of clients (they need not release, renew or ask again) nor of operators.
  `LeaseLapses` needs none either: `LapsedDropped` starts from a lapsed lease.

- for the lease client: the thread and the client run when they can, calls end by
  their timeouts, the sweep comes round, time passes. A with-block may last
  for ever.
- for the encoder: loads and inferences end, the unloader runs, time passes
  (weak); a thread that asks for the lock again and again gets it (strong:
  `threading.Lock` does not promise an order, but the unloader sleeps between
  its turns and a request asks once). Nobody has to send requests.
- for the whisperx worker: threads, drains, ffmpeg and Docker's probes go on (weak);
  a coroutine that is ready and a call queued for the pool get their turn though
  the loop is blocked or the pool busy in between (strong: both serve in
  order of arrival); an upload's client sends the rest or disconnects. Nothing
  makes ffmpeg end before its input does.

The liveness run has no stop failures: `docker stop` failing for ever on one worker
does keep it, and all behind it, resident for ever, and the code has no other way
out. It has no broker restart either: a restart would end every wait trivially.

## 3. What is proved

Everything below holds for every set of roles, cards, clients and faults that
the named assumptions of `BrokerConfig`, `Broker` and `Placement` admit.

**`Broker_proofs`.** The inductive invariant is `IInv`. None of the properties is
inductive alone; the parts and why they are there:

- `Owned`: a request at work holds the ticket of the role it starts and of those
  it has not come to, all distinct. Without it a landing could end somebody
  else's ticket.
- `NotBoth`: no role is resident and starting. It keeps the two charges disjoint.
- `WaitersCovered`: whoever waits waits on a ticket that exists.
- `LockRule`: the holder of the lock is the client at `evict` (or the sweep), the
  victims of its plan are still resident and unpinned, and nobody has begun what
  it is going to start. This is what the lock is for.
- `Requested`, `VictimsUnheld`, `HeldRoleStays`: a handle implies a request and a
  resident worker, unless an `evict_on_acquire` names its role.

From it: `TypeCorrect`, `StartStopSafe` (no two threads start one role),
`NoLostWakeup`, `HoldsProtect`, `PinsProtect` (an action property), `IdleClocksSet`.
The proof has one step per action of `Next`. `GrantsServe` proves `GrantedServes` where
nothing puts a container that does not answer among the residents (`NoLoss`: no restart,
no stop from outside, no missed health deadline, no failed stop); its invariant is
`Serving`. Failing starts are allowed, and so is a start that raises after its container
runs. `dead_worker_granted` shows that a stop from outside has to be excluded.

The rest of the module joins the broker to the theory of plans in `Policy_proofs`:

- `PlansFromSnapshots`: whenever `plan_acquire` is called, `State` is a snapshot as that
  theory takes it. Beside `NotBoth` this needs `Ordered`: every touch, landing and stop
  leaves `older` an order that clock readings can give (one lemma each).
- `PlansStayDue`: from the decision to the last `docker stop` what is left of a plan makes
  room and its victims are due, by the pins, holds and ages of that moment, although
  every stop is awaited and other requests, starts, probes and lapses are interleaved
  with it. `DueStep` has one case per kind of action; the crux is that whatever could
  disturb a plan in progress takes the lock (a lapsed handle counts as a hold until
  somebody with the lock drops it), and that taking away one victim leaves the
  others due and the room they make (`OneVictimLess`). The mutant that plans without
  the lock breaks it.
- `RefusalsAreFinal` (an action property): a 503 is given only when no start is in
  flight on the role's card and stopping all that may be stopped would not make
  room.

**`Policy_proofs`.** Facts about `plan_acquire` on any snapshot, as lemmas that
`Planner_proofs`, `Broker_proofs` and `Ledger_proofs` share: a plan for an absent role
makes room (`PlanMakesRoom`), its victims are due (`PlanIsDue`), a refusal means that
there is no card or no hope (`RefusalIsFinal`). The crux of the last is that the loop
finds a prefix that suffices if any set of candidates does (`EnoughFound`), by the
smallest such prefix (`SmallestSet`, where finiteness comes in).

**`Ledger_proofs`.** The books, each under the hypothesis it needs:

- `NoOrphans`: if every implied role resolves to a card (`Placeable`), every ticket
  has an owner. The run `orphan_ticket` shows the hypothesis is necessary.
- `DockerTracked`: if no start raises after its container runs
  (`"startlost" \notin Faults`), everything that runs is charged, over stop
  failures, stops from outside and restarts. The strengthening is
  `UntouchedDown`: a role whose start has not been attempted has no container.
- `BudgetSafe`: if whatever fits on a card beside a role still fits with
  everything the role implies (`WarmFits`), no card is promised beyond its budget,
  provided that no restart finds a container that a failed start left behind
  (`NoneComesBack`: there are no lost starts, or no restarts; each run that checks the
  budget meets it). The strengthening is `PlanRoom`: while a plan is carried out,
  what will be charged at its end fits; it follows from `PlanMakesRoom`.
  The hypothesis is needed in some form because `plan_acquire` starts implied roles
  unchecked. `MCBroker` evaluates it for the shipped `roles.yaml`: it holds on the 3090
  (`OnScully`) and fails on the 3060 (`OnSasha`), where the budget really is exceeded
  (`implies_overcommit`).

`Implements`: under `BudgetSafe`'s hypotheses `Spec => Refines`, one
lemma per kind of step (`ReserveStep`, `LandStep`, ...), from `IInv` and the budget
invariant. `EvictionIsMutual`: two roles that evict each other are never charged
together, if neither may be pinned or is implied by anyone and `NoneComesBack`.
The strengthening is `PlanApart`: what a plan in progress will have charged at
its end is apart as well; it rests on an acquire waiting for the tickets of the
roles it evicts (`Blockers`).

**`Planner_proofs`.** What the run `policy` enumerates for four roles, for every finite
set of roles. `EverySnapshot`: the initial states are exactly the snapshots
(`IsSnapshot`), because every order that satisfies `ClockOrder` is one of ranks; so
the theorems about the broker and the run `policy` speak of the same inputs.
`PlansFit`, `RefusalsJustified` and `VictimsDue` follow from `Policy_proofs`.
`LoopIsExact`: the sets of victims of the model are those of the source's loop. Both
directions need that the lists the sort can make and the prefixes of the age order
agree: a sorted list's first elements are a prefix (`FirstsKind`), and every prefix
is the beginning of some sorted list (`SortedExists`, `Joined`). Sorted lists of all
lengths are had without induction, from a smallest set that would have none.

**`Placement_proofs`.** `ChargeIsPlacement`: a worker this broker process started
is charged to the one card its container sees, for any cards, selectors and
ledger. It rests on the inventory of the start being the present one (`PInv`),
which `Placement` takes for granted. `NoGuessing`: two cards that one entry of a selector
names are never told apart by a later entry (`RInv`: where a worker runs was decided by
`ResolvePlacement`; `FirstDecides`: by the first entry with exactly one match).

**`LeaseClient_proofs`.** `LeaseSafe`: `LeaseKept`, for any leases, intervals and
timeouts and any number of failures and strays. It has no hypothesis: what the lease has to bear is
in the property, by the delay of the last answer and the failures there were. The
invariant (`KInv`, with `Fresh`) bounds how much of the lease may be gone by what the
thread is doing: asleep, its sleep and what `lag` and the failures since have cost;
calling, the interval before the call as well; once the broker has served the call,
the call alone, which becomes the next `lag`. For the default lease (interval 60 s, a
call up to 20 s) `Bears` holds through two failures in a row if the last answer took
less than 60 s, through one if it took less than 140 s, and without failures if it took less
than 220 s. For a lease of 30 s (interval 10 s) or less it never holds: a call that takes
its full 20 s before it is served uses the lease up. `NoRevival`: no late renewal brings a handle back.

**`Encoder_proofs`.** `EncoderInvariant`: the lock belongs to the one thread that loads,
and the age of the last use bounds the clocks of all threads at work, so the
limit cannot pass before they end. From it `EncoderTypes`, `NeverUnloadedInUse`,
`NeverTwice`, `ClearedInTime`, for any limits that meet `EncoderAssumption`.

**`Whisperx_proofs`.** `UploadsWhole` and `FfmpegEnds`, for any requests, bodies, pipes and
pools. The invariant `WInv` counts blocks: what the client sent is in the buffer, in
the pipe or in ffmpeg (`Conserved`), stdin is closed without an error only when all of
it is (`ClosedWhole`), and a handler's place tells what became of its ffmpeg
(`Followed`). `WorkerLatches`: the worker implements `Readiness`.

`NoPipeWaits` and `StallsEnd` are the substance of `Answered` for an upload, without its
fairness.
The first (`NoCircle`, with `LoopHeld` for its invariant) says that whoever waits in
`write()`, `close()`, `wait()` or `join()` is done or something between its own pipes can
go on, be the pipes as small as one block and the messages as many as you like. The
second (`ShortStalls`) says that meanwhile everything that happens to these pipes takes
away from `Work`, a count of what is still to be put, read, answered and drained. So
the event loop is held up for at most that many moves of ffmpeg and the drains.

Every invariant and action property of a passing run is stated by a theorem.
Only model-checked are the liveness properties (`WaitEnds`, `LapsedDropped`,
`IdleStopped`, `HandleGoes`, `ThreadEnds`, `FreedAtLast`, `Answered`, `Reported`), out of the prover's reach with the fairness they need.

## 4. Findings

Confirmed by a run:

- **Implied roles overcommit a card** (`implies_overcommit`). Acquiring `rerank`
  beside `llm_small` on the 3060 starts `embed` without a check: 12200 MiB on a
  budget of 11264.
- **A ticket nobody owns** (`orphan_ticket`). `begin_start` raising for an implied
  role leaves the tickets begun before it in `State.starting`; later acquires of
  those roles wait for ever.
- **A stopped worker is handed out** (`dead_worker_granted`), although the README
  says that `docker stop` forces a cold restart on the next acquire.

Read off the code, without a run of their own, among them: a worker whose probe
timed out is registered and may be granted; a surviving container is charged to
the card its role resolves to after an edit, not to the one it runs on; the status
codes for disabled roles and stale handles differ from the README's; a pin is lost
with the broker; a short renewal shortens a lease; a handle that
comes more than 240 s late has lost its default lease before the first renewal, sent an
interval later, and a lease of one second lapses before its first renewal even if nothing
is late (in both cases `Bears` is false, so `LeaseKept` says nothing); co-resident roles are evicted
for each other; two requests may each load the diarization pipeline; the encoder
drops models under a request longer than its idle limit. `PROJECT.json`, "findings", has
each with its lines.

## 5. Not modelled, and the plan

In this order:

1. An abstract lease table that both `LeaseClient` and the handles of `Broker`
   implement.
2. A first-come-first-served lock, to ask whether every acquire is answered. With
   strong fairness alone it is not: other clients may evict the fresh worker each
   time before its request gets the lock again, and nothing bounds the retries.
3. `Placement` with an inventory that changes under the broker (a card missing
   from one nvidia-smi answer).
4. A `docker run` that outlives the broker that started it.

Never: the bodies of responses and logs, the parsing of nvidia-smi and YAML,
`observability.py`, image builds, `torch_compat.py` and inference itself; they
keep no state the broker's behaviour depends on.
