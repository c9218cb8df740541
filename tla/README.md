# TLA+ models of logs-interceptor (Python)

The package intercepts the log calls of an application, filters and buffers
them, and sends them in batches to Loki, with retries, a circuit breaker and a
dead letter queue. Threads of the application, one-shot timer threads,
immediate-flush threads, worker threads and signal handlers meet in four locks,
a few unlocked reads and the hooks of the interpreter. The modules here model
those, TLC checks them on small instances, and TLAPS proves their
safety for every instance, and that the service implements its promise. Source paths are relative to
`src/src/logs_interceptor/`, documents to `src/`.

## 1. Inventory

| Component | State | Operations | Hard behaviour | What makes it correct |
|---|---|---|---|---|
| Log service, `application/log_service.py` | `_destroyed`, counters | `log`, `flush`, `destroy`, async wrappers, health and metrics read-outs | called by application threads, timers and immediate-flush threads; waits while it holds the buffer's lock; `destroy` is not atomic | no entry is lost, doubled or left behind; every call returns |
| Flush pipeline, same file | `_flush_queue`, `_in_flight_flushes` under `_queue_cond`; worker threads | enqueue, start workers, send, finally block, wait until idle | slots counted by hand in three methods; `Thread.start` may raise; a send that logs into the logger it serves | slots exact and capped, started in order, no lost wake-up |
| Memory buffer and tracker, `infrastructure/buffer/`, `infrastructure/memory/` | list, tracked sizes, dropped counter, `_flush_timer`, `_destroyed` under an `RLock` | `add`, `flush`, `clear`, `destroy`, timer, immediate flush | an entry leaves by five ways; a timer that has fired cannot be cancelled and overwrites its successor; `Timer.start` may raise half way through `add` or `flush` | bounded and accounted exactly, oldest dropped first, drained in the end, quiet after destroy |
| Circuit breaker, `infrastructure/circuit_breaker/` | state, failures, successes, half-open slots, timeout | `execute`, `record_success`, `record_failure`, `reset` | three locked blocks and an unlocked read per call; outcomes arrive in a later state | counters consistent, no slot leaks |
| Resilient transport, `infrastructure/transport/resilient_transport.py` | metrics | `send`: retries, breaker, dead letter queue | a failed send goes on in a queue without a lock; a timeout after success | each batch is delivered, dead-lettered or counted as dropped |
| Memory dead letter queue, `infrastructure/dlq/memory_dlq.py` | a list | `add_batch`, `flush`, `clear` | no lock, several workers | bounded, nothing lost uncounted |
| File dead letter queue, `infrastructure/dlq/file_dlq.py` | list, dropped counter, file | load, `add_batch`, `clear` | the only copy is truncated and rewritten; crashes, I/O errors, entries that cannot be written | bounded, in order, drops counted; what was persisted is lost only to a write that is cut short, to a start that cannot read the file, or as the oldest |
| Runtime and factory, `__init__.py`, `presentation/factory.py`, `preload.py` | `_global_runtime` | `init`, auto-init, `destroy`, logger proxy, signal handlers | signal handlers between any two steps; creation that fails; unlocked reads by the proxy | one open logger, known to somebody |
| Runtime interceptor, `infrastructure/interceptors/` | captured hooks and handlers | `enable`, `restore` | stacked hooks of several owners | the interpreter's own hooks come back |
| Configuration, `application/config_service.py`, `config.py`, `utils.py` | none | environment, dict, merge, validate, resolve | absent against empty and zero values | settings in range and in their order of precedence |
| Loki transports, `infrastructure/transport/loki_*` | shared HTTP client, health record | `send`, `get_health`, `destroy` | client closed under a request, by two destroys at once; one bad entry fails the batch; entries out of the order of time | the shared client is closed in the end; a request holds the whole batch, in order |
| Filter and sanitizer, `infrastructure/filter/`, `utils.py` | none | `should_process`, `filter` | recursion over a graph of shared objects | no secret in sight leaves; every text in sight is shown once |
| Context provider, metrics collector, compression, worker pool, framework integrations, domain types | little or none | conversions and adapters | none | — |

How they interact: the runtime resolves a configuration and has the factory
build breaker, dead letter queue, transport, buffer, filter and service. `log`
filters and calls `buffer.add`; the buffer's timer and its immediate-flush
threads call back `LogService.flush`, the timer **with the buffer's lock held**.
`flush` drains the buffer, makes the batch a task of the flush pipeline and waits
for its worker; the worker calls `ResilientTransport.send` (retries inside the
breaker, dead letter queue on failure) and then `_update_metrics`, which asks the
buffer for its size under the buffer's lock. `destroy` does a last flush, then
closes buffer and transport. With `intercept_console` a handler on the root logger of
`logging` passes each record to `log`, also those that httpx makes on the worker while it
sends, so that the worker becomes a caller of `log`. `PROJECT.json` lists the hazards of this code line
by line, each with the properties that watch it or the reason why none does.

## 2. Modules

    FlushQueue ──┐
                 ├── LogService ── implements ── LogDelivery
    MemoryBuffer ┘
    CircuitBreaker ┐
    LokiTransport  ├── ResilientTransport        FileDlq
    LokiFormat     ┘
    Config ── Runtime ┐
            LogRecord ┴── LoggerProxy
    Lists: MemoryBuffer, FileDlq             CountingLemmas: the proofs
    FlushQueueProofs, MemoryBufferProofs ── LogServiceProofs
    CircuitBreakerProofs, ResilientTransportProofs, FileDlqProofs
    RuntimeProofs: Runtime and LoggerProxy

`MC*` modules only give values and symmetries to TLC. `Lists` says what a part of a list
is, and what sizes add up to, for the buffer and the file queue: by quantifiers and the
size of a set rather than by `SelectSeq` and folds, so that the provers can use it.

**FlushQueue** is `_enqueue_flush`, `_process_flush_queue_locked`,
`_send_flush_batch` and the idle condition. `flushQueue` and `inFlight` are
`_flush_queue` and `_in_flight_flushes`; `phase[k]` is the program counter of the
worker of task k; `failed` the tasks whose send raised. Each step is one block
under `_queue_cond`, or one call outside it. The loop of
`_process_flush_queue_locked` is the operator `ProcessFlushQueue`: it pops as many
tasks as there are free slots, and a `Thread.start` that raises ends it with the
last one popped and counted but never run (`stranded`).

**MemoryBuffer** is the buffer with its tracker. `buf` holds the list, what the
tracker knows, and the dropped counter. Every method runs under `_lock` and is one
step, the scheduling or cancelling of the timer included. When `StartMayFail`, the start
of a timer may raise: `AddRaises` leaves the entry in the list, `FlushRaises` has emptied
the list and takes the copy with it (`strayed`), and `_flush_timer` keeps a timer that has
no thread (`Unstarted`). Timer threads are
slots that go `free → armed → fired → running`; `fired` is the interval in which
`cancel()` comes too late. `lock` has an owner only while the callback runs, and
`Free(th)` is the reentrant acquire. Which entries have passed `max_age` is
chosen freely in each add that is over the memory limit.

**LogService** composes one `MemoryBuffer` and one `FlushQueue` by `INSTANCE`
and adds the threads: `pc`, what each holds in its local variables (`hand`), the
batch of each task. The worker of task k is also a thread, `WorkerOf[k]`: where `SendLogs`
says that sends log into the logger, it may take the steps of `log` while it sends
(`WorkerLogs`), the wait for the buffer's lock among them. The lock of the
`logging.Handler` between them is left out: its holder is itself in `log`. A thread of the
application may call `log`, `flush`,
`destroy` and the read-outs (`get_metrics`, `get_health`, of which only the wait
for the buffer's lock has an effect) in any order; timers and immediate-flush threads run `flush`.
`destroy`
has its steps one by one: test, assignment of `_destroyed`, last flush, wait,
`buffer.destroy`, `transport.destroy`, and its `finally` when the flush raises.
The filter's verdict and the result of each send are free choices.

**LogDelivery** is what the service promises about an entry, without threads or
locks: it is accepted or refused, may be evicted while buffered, is taken by one
flush, and is then delivered or failed; from the moment `destroy` has begun late
entries may be discarded, earlier ones not. Where a flush may raise, and only there, a
whole buffer may go `strayed`. `LogService` implements it under the
mapping `PlaceOf`.

**CircuitBreaker** has one step per locked block of `execute`, and the unlocked
read of `_state` in the `finally` block as a step of its own. `expired` stands for
the clock having reached `_next_attempt`. `probes` is history: the calls that were
counted in `_half_open_in_flight` since it was last set to zero.

**ResilientTransport** composes the breaker with the retry loop and the memory
dead letter queue, whose test, pop and append are three steps because nothing
locks them. An attempt is a request of `LokiTransport`; a failed one may have been
stored by Loki all the same, unless its entries could not be formatted or the client
was gone.

**LokiTransport** is the HTTP client that all sends share. `client` is whether
`self._client` is set, `pool` whether the client itself is open; `_request` tests the
first and reads it again, `destroy` tests, closes and clears, each a step, by two
threads. A request that finds no client uses one of its own, so sends after a destroy
work again, while one caught between its two reads fails without a retry.
**LokiFormat** is the grouping of a batch into streams, as operators on sequences of
entries that have labels and a timestamp: sorted within a stream by the JSON
transport, in order of arrival by the protobuf one.

**FileDlq** numbers the entries by arrival. `add_batch` holds `_lock`, but the process can
end at any of its steps, so each is an action: one for an entry appended (`AddNext`, with
the pop of a full queue), one for each halving of a queue too large for the file (`Halve`),
the raise before the file is touched (`PersistRaises`: `json.dumps`, the recursion, or the
opening of the file), and the truncation (`Truncate`). `write_text` then completes
(`Written`), raises (`WriteFails`) or is cut off by the end of the process (`Crash`),
leaving a prefix of the lines and perhaps half a line or half a character. `dropped` is
raised where the code raises it, in `Excess`, `Pushed` and `Halved`, each by its own
arithmetic. Kinds of entry are the ones the code treats differently: plain, larger than the
file may be, not serialisable, and splitting in two when the file is read with
`splitlines`. `json.dumps`, `write_text` and `splitlines` are modelled by these effects.

**Config** is the path of a configuration from the LOGS_* variables and the
argument of `init` to the resolved one, as operators over records with one field
for each way in which the code treats a setting; `Resolve` includes the factory's
`max_size or 1000` for the dead letter queue. **Runtime** is `init`,
auto-init, `destroy`, `destroy` of the logger that `init` returned, and the interceptor, one
step per statement with an effect others can see; a signal handler that calls
`destroy` may run between any two steps of the main thread, and to its end. Other
code may replace `print` once, at any time, and put back what it found. A
configuration with errors raises before anything is touched, so `CallInit` is
enabled only for valid ones.

**LoggerProxy** adds to `Runtime` another thread that logs through the module-level
`logger`: it tests `_global_runtime` and reads it again. `call` remembers which runtime
the test saw. **LogRecord** is what the filter of that logger does to a record:
`sanitize_data` on a graph of dicts, lists and tuples, with its set of seen objects and with
its recursion as a stack of the places still to be looked at, so that it can be proved
about; and truncation before detection on the message. A place is an item of a dict, or an
item of a list that stands there, written `<<o, i, j>>`. An object that is shared has as
many places as it is met at, and the result says of each what stands there: the value as
it is (`kept`), a dict in full (`whole`), the mark `_circular` (`marked`), or `[REDACTED]`. It is
compared with a definition by reachability that knows nothing of the order of the walk.

## 3. Runs

| Run | What it asks | Bounds |
|---|---|---|
| `flush_queue` | types; list and slots exact (`QueueHoldsWaitingTasks`, `SlotsCounted`); `NoIdleSlot`, `StartedInOrder`; every caller is released (`EveryTaskSettles`) | 4 tasks, 2 slots, failing `Thread.start` |
| `buffer` | `BufferBounded`, `AccountsExact`, `OldestFirst`, `QuietAfterDestroy`; entries drain (`EntriesDrain`) | 4 entries, one of them large; max_size 2, memory 3; 3 timer slots; failing timer starts |
| `service_manual` | no `auto_flush`: `WaitCoversEarlierEntries`, and `LogDelivery` is implemented | 2 callers, 3 entries, failing sends and thread starts |
| `service_auto` | `auto_flush`: `EachEntryInOnePlace`, `OpenBufferHasTimer`; threads wait for each other only behind a lost slot, or a timer whose worker needs the lock it holds (`NoOtherDeadlock`) | 2 callers, 2 entries, 3 timer slots, metrics on, sends that log, failing sends, workers and timers that fail to start |
| `service_auto_live` | without metrics, and with sends that do not log, every entry is settled and every call returns | 1 caller, 2 entries, 2 timer slots |
| `service_deadlock` | **violated**: the same with metrics | as above |
| `breaker` | `CountersSound`, `NoLeakedProbe` | 4 calls, threshold 2, 2 probes, 5 failures |
| `breaker_probe_limit` | **violated**: at most `half_open_requests` probes at once | the same |
| `transport` | `NoSilentLoss`, `DlqOvershootBounded`, `ConnectionsClosed`, `SendsEnd` | 2 batches of 3 by 2 workers, 1 retry, queue of 2, threshold 1, 2 destroys; for the format, every batch of 3 over 2 sets of labels and 3 times |
| `file_dlq` | `StorageBounded`, `DropsCounted`, `ArrivalOrder`, `PersistedEntriesSurvive` | 4 entries of every mix of 4 kinds, max_size 2 or 4 at each start, file of 3 lines |
| `file_dlq_poison` | **violated**: the queue drops the oldest entries first | 4 entries, no faults |
| `runtime` | `OneOpenRuntime`, `HooksFollowRuntime`, `PrintReachesConsole`, `ResolvedInRange`, `SettingsPrecedence`, `LostOnlyToDestroy`, `SanitizerExact` | 2 runtimes, 5 environments, 10 arguments, one thread that logs; every context of 3 objects in which the outer dict has 1 or 2 items and the others at most one (a text or an object under a sensitive key, a secret or an object in a tuple) |

Why the bounds are enough. The races need two actors in one block and a third
in the way: two slots with four tasks have a full list behind full slots; three
timer slots allow the current timer, one that fired late and one that a flush
under the lock has started; with a threshold of one, each of two batches can open the
breaker before the other begins, or while it is under way, and three entries each fill
the dead letter queue behind the other's back. More batches make the run of `transport`
too long once destroys may come at any step; the breaker alone has four calls. Size limits are
small enough for every eviction to
happen within the entries there are. `file_dlq` starts the process again and again,
under either max_size. Two runtimes suffice because `init` looks at no more than the
previous one. Three objects suffice for one that is shared, two that contain each
other, and a list in a list. Bounds that the code does not have are named in the modules:
`TimerRoom` (a flush waits for a free slot; fired timers go on, so the wait
ends), `MaxFailures` (no call begins once the counter is that high), `MaxEntries`, `Runtimes`.
Deadlock checking is off because every run ends: entries and tasks are used up.

Fairness. Threads that are inside a call go on: Python schedules every runnable
thread, `transport.send` ends because requests have a timeout and attempts are counted,
timers fire. Where a step needs a lock that others take again and again it is
strong (an `RLock` does not pass over a waiting thread for ever). Nothing forces
anyone to call `log`, `flush` or `destroy`. That threads can be started is a condition
inside `EveryTaskSettles`, not an assumption.

What the liveness runs do not show. `LoggedEntriesArePushed` and `CallsReturn` hold for a
transport that does not log into the logger (`SendLogs` FALSE), without metrics, and while
threads can be started: each of these is a way to the deadlocks of section 4. `EntriesDrain`
excepts a buffer whose timer did not start.

## 4. Where the code and its documents disagree

* **Deadlock of the defaults** (`service_deadlock`). With `auto_flush` and
  `enable_metrics`, both on by default, the flush timer calls `flush` with the
  buffer's lock held and waits for its task; the worker, after a successful send,
  calls `_update_metrics`, which asks the buffer for its size under this lock,
  before it sets the event. From then on every `log()` blocks. `service_auto_live`
  shows that without metrics all is well, as long as sends do not log and threads start.
  `NoOtherDeadlock` lists the ways in which threads and workers come to wait for each other
  for ever, and shows that the models have no further one: a `Thread.start` that raised (its
  slot is lost, `log_service.py:243`), or a flush timer that holds the lock and waits for a
  worker that needs it. The worker needs it for the metrics, or, with `intercept_console`
  and with metrics off too, because httpx logs a record about its request and the handler
  on the root logger hands this to `log` (`runtime_interceptor.py:33`, `:137-139`).
* **Too many probes** (`breaker_probe_limit`). The `finally` block gives a
  half-open slot back for calls that were admitted before the breaker opened.
  `NoLeakedProbe` and `CountersSound` show that nothing worse follows: slots do
  not leak and counters stay bounded.
* **One entry that cannot be serialised** (`file_dlq_poison`). It stays in the queue
  and makes every later `add_batch` raise before it writes; a restart brings the older entries back and
  loses the newer ones. `PersistedEntriesSurvive` shows what remains true: the file
  that was there is not touched by an `add_batch` that raises before the truncation.

Others met while modelling, for which no run is kept:

* `max_memory_mb` is no bound. Over it, one add drops a tenth of the list, at
  least one entry, so two small entries and a large one stay over it
  (`memory_buffer.py:159`; ARCHITECTURE.md:17 speaks of bounded-memory policies).
* A `Timer.start` that raises (`memory_buffer.py:177`) leaves `_flush_timer` set to a timer
  that never runs, and `_schedule_flush` starts no other: entries wait until somebody calls
  `flush`. If it was `flush` that scheduled, the list has been cleared at `:59` and the batch
  is in nobody's hand. `EachEntryInOnePlace` and `OpenBufferHasTimer` say that nothing else
  has either effect. The timer of the immediate flush (`:139`) may raise as well; its
  entry stays in the list, with `add` and `log` raising.
* The only copy of the dead letters is truncated before it is rewritten (`file_dlq.py:170`):
  a crash or a full disk in between loses them (`lost` in `FileDlq`), and a file that
  cannot be read at a start is overwritten by the next `add_batch`.
* `LOGS_ENABLED=false` yields an empty list of levels, which `resolve` replaces
  by all levels (`config_service.py:189`): `init` with an argument logs
  everything. A dict without `url` hides `LOGS_URL` (`utils.py:335` keeps the
  empty text), so `init` raises; `appName` falls back to its variable.
* A dead letter file cut inside a character makes `init` raise at every start
  (`FileDlq`, process `broken`); a `max_size` of 0 becomes 1000
  (`factory.py:55`, `:60`), and a negative one is not rejected.
* The sanitizer looks at the texts of dicts, and of lists directly in a dict: a tuple, or a
  list in a list, leaves as it is (`utils.py:216`, `:224`); labels are
  not sanitized (`log_filter.py:50`); a key that is not a text makes `log` raise
  `TypeError`. A dict that occurs twice, inside itself or not, is shown once and called
  circular at its other places, where all that it holds is hidden (`utils.py:189-190`).
  `SanitizerExact` says of each place which of these stands there.
* Two threads may give two entries the same id: `_log_sequence` is read and incremented
  without a lock (`log_service.py:150-151`). The id is only reported.
* One entry that cannot be formatted makes its batch fail as a whole (`log_service.py:249`);
  the others go to the dead letter queue with it, and the breaker counts a failure of Loki.
* structlog's "warning" and "critical" become "info" (`integrations/structlog.py:13`), while
  loguru's become "warn" and "fatal".
* A failed `init` leaves `_global_runtime` at the logger it has just closed, and
  `destroy` interrupted by a signal handler's raises `AttributeError` (`Forget`).

## 5. Proofs

All are for any values of the constants that satisfy the assumptions named in the modules,
which TLC evaluates for those of the runs. Every safety property of a passing run is
proved. In each module `Invariant` says that the inductive invariant holds, and each
theorem about the specification follows from it.

* `FlushQueueProofs`: `TypeCorrect`, `SlotsExact`, `ListExact`, `NoLostWakeUp` for any
  finite set of tasks and any number of slots, with failing thread starts. The
  conjuncts are not inductive alone: that tasks wait only while every slot is
  taken (`NoIdleSlot`) is what limits each call of `_process_flush_queue_locked` to
  one task, and one popped task is what keeps count and list right; the count in
  turn shows that a worker that leaves had a slot to give back. So the inductive
  invariant is their conjunction. `StartsInOrder` needs less: whatever is popped is a
  first part of a list without repetitions (`ProcessTakesFirst`).
* `MemoryBufferProofs`: `TypeCorrect`, `Bounded`, `Accounted`, `QuietOnceDestroyed`,
  `OldestGoFirst` for any entries, sizes and limits. An add composes a put and three
  evictions, so there is one lemma for each about `Sound`: no repetitions, the tracker
  equal to the list, the dropped counter equal to the evicted. Beyond it the invariant says
  that all the list has or had was offered to it: that is why a new entry
  is not among the evicted.
* `LogServiceProofs`: `TypeCorrect`, `Conservation`, `OpenBufferTimed`, `WaitCovers`,
  `DeadlocksKnown`, and `Delivers`: the service implements `LogDelivery`. The two modules above are
  instantiated over the service's variables, so their invariants need not be proved again; the
  first lemmas give the effect of each of their operations. The invariant adds
  `ThreadsRight`, what a thread at each step can rely on (a flush past the buffer has left
  there nothing it answers for; a destroy past its flush nothing added before it);
  `TimersRight`, that an open buffer that is not empty has a timer or one that did not start,
  for which a timer thread that runs has to leave one behind; `TasksRight`; `Separate`, no entry
  in two places; and
  `Covered`, each in one. A flush that raises is a drain whose batch goes to `strayed` instead
  of a hand (`StrayedKeeps`), a worker that logs a thread like any other (`LogKeeps`). The
  refinement has three parts: `Placed` says what each value of
  `PlaceOf` means in terms of the service's own sets; each step then either moves the entries of one set
  to one place, or none; and a move is one of `LogDelivery`. Only sends,
  adds, the drain, the filter, the setting of `_destroyed` and the closing of the buffer can be moves.
  `DeadlocksKnown` says by what each step waits for (the buffer's lock, an event, the
  condition of the queue) what could also be said with ENABLED. If no thread can go on and
  no worker needs the lock, then no slot is taken: `NoIdleSlot` empties the list, the condition
  holds, and whoever waits for an event waits for a task that was created (`Awaited`) and so
  is done; what is left are threads that want the buffer's lock, and its owner could
  go on. If a worker needs the lock (`NeedsLock`), its owner is what waits for it.
* `CircuitBreakerProofs`: `TypeCorrect`, `CountersConsistent` and `NoProbeLeak` for any
  finite set of calls. `NoProbeLeak` compares a counter with a history set.
  It needs that a call that begins is not in this set already, so that counter and
  set grow together, and that the counters are zero outside half-open, where the
  `finally` block gives nothing back; both are conjuncts of the invariant.
* `ResilientTransportProofs`: `TypeCorrect`, `OvershootBounded`, `NoLoss`, `DestroyCloses` for any
  batches, workers, retries and destroys, `PayloadsAreSound` for
  what a push carries, and `SendsBoundedlyLong`.
  The length of the queue alone says nothing while workers stand between test, pop and
  append; the sum of the length and of the workers about to append (`Filled`) is bounded
  from above, and while somebody is about to pop it is at least max_size, so that the pop
  finds an entry. That uses `DlqMaxSizeAssumption`, a queue no smaller than the number of
  workers. `NoLoss` is about places and counts of entries, and about
  the payload of a push: `PayloadsAreSound` says that the formatters lose, repeat and mix
  up nothing, and put each stream in order of time. The order in which they sort is a strict
  and total one; the place of an entry is the number of entries before it, which maps
  a finite set of entries one-to-one to as many places, so every place has its entry
  (`InOrderLists`). The streams follow, one for each set of labels, in the order of the
  entries that open them.
  `SendsBoundedlyLong` is the part of `SendsEnd` that needs no fairness: a measure
  (`StepsLeft`) that counts attempts, the steps of the breaker and three steps for each entry
  left goes down with each step of a send and is raised by nobody else's, so that no race
  for the queue or the client makes a worker try for ever.
* `FileDlqProofs`: `TypeCorrect`, `Bounded`, `Counted`, `OrderKept`, `PersistedSurvive` for
  any number and kinds of entries and any limits. While the file is being written
  only the queue says what it will hold, so the queue is what has to fit
  (`QueueFits`). All that shortens the queue takes the newest of a list in order of arrival,
  and the lemmas are about that. `Counted` puts together what the three places that count
  each add by their own arithmetic (`LoadEffect`, `PushEffect`, `HalveEffect`); one that
  counted after the cut, or forgot to, would break it. `PersistedSurvive` is an invariant
  about a history: it needs that the queue of a process that is up accounts for all
  that was on disk (`MemoryAccounts`), through any number of calls that raised, because the
  next truncation leaves nothing else.
* `RuntimeProofs`, about `Runtime` and `LoggerProxy`: one inductive invariant over another.
  `SettingsInv` carries the argument of an `init` from `validate` to the factory and
  gives `SettingsInRange`; `PrecedenceKept` follows with one lemma per kind of setting.
  `HooksInv` says for each point at which the main thread or a signal handler can stand which
  runtime is open,
  which is hooked, and what a restore under way will put back; each part survives a
  whole destroy between two steps. It gives `TypeCorrect`, `OneOpen`, `HooksFollow`.
  `Linked` adds that there is a numbering of the hooks in which each calls a lower one
  (a new link goes from a hook that nobody calls yet to the current one), so that
  the lowest hook of a chain must be the interpreter's print or one that does not go on:
  `ConsoleReached`.
  `ProxyInv` adds that what a call has tested is still the global runtime or on its way to be
  destroyed, which gives `CallsFollow`. `SanitizesExactly` is about each state by itself: its invariant
  (`Right`) is one of the sanitizer's own steps. The stack holds only places in sight of the dicts
  that were entered, none twice, and every other place in sight of them has been treated, in the
  way that its value asks for; each dict entered but the context stands in full at exactly one
  place (`Standing`). Once the stack is empty the dicts are closed under what is in sight. It does
  become empty: each step takes a
  place from it, or turns a dict not entered before into its places, and their number is bounded by
  what the dicts hold together.
* `CountingLemmas`: how often a sequence holds a value, what sizes add up to, and what a part
  of a list holds, for the proofs about buffers, queues and files; when lists put together
  repeat nothing; and that an iteration
  exists and takes each of its steps, for the sanitizer. Inductions over numbers go by the
  least element that a set of counterexamples would have.

What the assumptions say of the program: sizes of entries are positive; limits are those
that `validate` lets through (`ResolvedInRange` proves it) and the queue's as above; threads
are not each other's (`ThreadsAssumption`, `WorkersAssumption`: an immediate-flush thread is
named by its entry, and each task has a worker of its own); `Unstarted` is none of the timers;
`None` is no thread, no level list and no runtime; switches of a variable or an argument are
Booleans or absent, and numbers of an argument are integers, as their types say
(`EnvVarsAssumption`, `UserConfigsAssumption`); the objects of a context are finitely many,
none of them a text, and the context itself is a dict (`ObjectsAssumption`,
`ContextsAssumption`).

Only model-checked: what must eventually happen (`EveryTaskSettles`, `EntriesDrain`,
`LoggedEntriesArePushed`, `CallsReturn`, `SendsEnd`), as fairness and ENABLED are out of the
prover's reach. What is proved of it are the parts without fairness: `NoLostWakeUp`,
`OpenBufferTimed`, `DeadlocksKnown` and `SendsBoundedlyLong`.

## 6. What is left out, and the plan

Left out for good: text, headers, compression, statistics that no decision reads (the
transports' health record among them), the context provider (a `ContextVar` set and reset
around one call), framework adapters, asynchronous wrappers (`asyncio.to_thread` around
the same calls). What a pattern finds in a text, and the verdict of level, patterns and
sampling, are free choices.
Not modelled yet: the items below. One process owns a dead letter file; `init` is called
from one thread; a task is sent whole.

The order of the work was: the flush pipeline and the buffer, because every
entry passes them; their composition and its promise; the breaker; the
transport; the persistent queue; configuration and runtime; then the client and the
format of the Loki transports, the logger proxy and the sanitizer. What comes next:

1. `LogService` with a signal handler's `destroy` re-entering its reentrant locks on the
   main thread: the handler waits for a worker that the interrupted code has counted and
   not started, or that needs the buffer's lock, and neither can go on.
2. Two processes on one dead letter file, and `init` from two threads: nothing in the
   repository says that either is supported, and both lose what the other has.
