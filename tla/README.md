# Verification of the Aurekai native runtime

TLA+ models of the concurrent core of the runtime, the TLC runs that check
them, and machine-checked proofs about them. `bf_pool.c`, `bf_hotload.c`,
`bf_dns.c`, `bf_reactor.c` and `bf_log.c` are files of `lib/libbonfyre`; AkaiQueue, AkaiAPI, AkaiProxy and
AkaiRun stand for the `src/main.c` of those directories of `cmd/`.

Contents: 1 the system, 2 the hard behaviours, 3 the modules, 4 the runs,
5 fairness, 6 the proofs, 7 what the code does not do, 8 what is not modelled,
9 the plan.

## 1. The system

The repository is some ninety C programs (`cmd/Akai*`), each a small command
over files and SQLite, and four libraries. docs/architecture.md sorts them in
layers: *surface* (servers and front ends), *value* (access, metering,
payment), *transform* (pure operators) and *substrate* (hash, index, queue,
runtime). Most of them run once, in one process, and keep no state besides
their outputs. The parts whose correctness is a question of order, sharing and
failure are few:

| component | state | operations | interacts with |
|---|---|---|---|
| thread pool, `bf_pool.c` | a deque per worker (`top`, `bottom`, array, `owner_lock`), `pending`, `submit_idx`, `shutdown`, two mutexes with condition variables | create, submit, map, wait, destroy; `worker_main` | any program that links libbonfyre calls it |
| job queue, AkaiQueue | tables `jobs`, `events`, `webhooks`, the search index; per process `g_running`, `g_db_mutex` and worker threads | work, enqueue, retry, purge, events, status, list, webhook | runs the operators as child processes; shares its database with AkaiAPI |
| HTTP servers, AkaiAPI and AkaiProxy | `g_running`, `g_thread_count`, the descriptors of the process; in AkaiAPI also the database with `g_db_mutex` and the token buckets | accept, limit, spawn; in each thread: parse, look up the key, limit its rate, handle, stream events, log, close | writes jobs for the queue's workers, reads the event log; runs operators |
| recipe executor, AkaiRun | the stages of one recipe: level, exit code, skipped, pid | levels, spawn, wait, manifest | starts operators as child processes |
| plugin loader, `bf_hotload.c` | registry of stages under one mutex, A/B pairs, a watcher thread | create, load, reload, exec, register a pair, destroy | `dlopen`, inotify, the files that a build writes |
| resolver, `bf_dns.c` | pending list, list of results, cache, worker threads, a pipe | resolve, process, destroy | `getaddrinfo`, the caller's callbacks |
| event loop, `bf_reactor.c` | connections, buffers, epoll or kqueue | accept, read, write, timeout | sockets |
| logger, `bf_log.c` | a ring per thread, a file | emit, flush, rotate, shutdown | every thread |
| QUIC streams, `bf_quic.c` | connections and stream tables | open, send, receive | the QUIC library |
| relay, swarm, CMS | frame ring; piece tables; documents in SQLite | requests | clients, child processes |
| accounts (gate, auth, meter, pay, ledger) | rows of SQLite tables | one command, a few statements | each other through files |
| operators, codecs, parsers, numerical code | none beyond the call | pure functions | files |

What makes the modelled ones correct:

* **Pool.** A submitted task is run once; `bf_pool_wait` returns when, and only
  when, what was submitted has run; no thread sleeps through the event it waits
  for; destroy frees memory that nobody uses any more.
* **Queue.** A job is executed by one worker at a time, whatever the number of
  daemons; it ends, or is tried again up to a limit; a stop strands no job;
  every change of a job is in the event log; a reader of the log misses
  nothing.
* **Gateway.** A job submitted over HTTP is a job of the queue, with its event;
  the event stream is the log. Whatever a client does, and whatever fails, the
  thread count, the socket and the mutex are given back, and a thread never
  touches another connection's socket. A key keeps to its rate.
* **Recipes.** A stage starts after what it depends on has succeeded; what
  depends on a skipped stage is skipped; a recipe that cannot be run is
  refused, and every other run ends; "success" is true of every stage.
* **Plugins.** Every `dlopen` has its `dlclose`, also when a reload fails; the
  entry point of a slot is mapped code, of one version; a new build comes into
  use.
* **Resolver.** A query belongs to the list or to one worker until it is freed;
  its callback is called once; no worker sleeps through a query or the end.
* **Event loop.** An open descriptor has one entry, and its events find it; a
  request that has come is answered, and a connection whose client went away is
  given back, although the kernel reports each change only once.
* **Logger.** A line stays in its ring until it is printed, and a shutdown
  leaves none behind.

## 2. Hard behaviours

`PROJECT.json` lists, at their lines, the places where this code could go wrong
and a test would hardly see it. They are of these kinds:

* *two threads on one word*: submitters, the owner and thieves on a deque, one
  of them growing the array under the others;
* *test, then sleep*: both condition variables of the pool;
* *test, then act, between processes*: SELECT and claim of a job; the row and
  its event; the two statements of a purge; the attempts that were read before
  the claim;
* *stops and kills*: a daemon told to stop, or killed, at any point; a failing
  `pthread_create`, INSERT, `fork` or stage;
* *an identity that is used again*: a descriptor number that `accept` hands out
  again, a bucket taken over by another key, a file that `dlopen` finds mapped
  already;
* *a lock held too long or not long enough*: the event stream writes to its
  client under `g_db_mutex`; a plugin is called after the registry's mutex was
  given up;
* *a notice that is given once*: an edge of epoll while the loop is busy with
  something else, or while the descriptor is switched from reading to writing;
* *a ring read by somebody else*: an entry that is reserved and not yet written,
  two readers that save the same tail, a ring that is full and counts as empty;
* *a graph processed by loops*: levels from passes over an unordered array,
  cycles found by lack of progress, skips passed on one step at a time.

## 3. The modules

```
TaskDeque <--implements-- DequeUse --extends--> WorkDeque <--extends-- WorkPool
JobLifecycle <--implements-- JobQueue      StageGraph <--implements-- RecipeRun
TokenBuckets <--extends, implements-- Gateway
DequeUse, LogRing, TokenBuckets <--extends-- MCStructures
PluginRegistry, Resolver, Reactor <--extends-- MCLibrary
```

`WorkPool`, `JobQueue`, `RecipeRun`, `Gateway` each have an `MC` module with the
constants of their runs; `MCStructures` and `MCLibrary` each hold three
components that share nothing. The proofs are in modules of their own:
`WorkDeque`, `WorkPool`, `JobQueue`, `RecipeRun`, `PluginRegistry` have one
each, `GatewayProofs` also has those of `TokenBuckets`, `StructuresProofs` those
of `DequeUse` and `LogRing` (both rest on masked positions that stay apart), and
`LibraryProofs` those of `Resolver` and `Reactor`. An operator whose comment
begins "Faulty:" is a wrong version of the definition below it. The
specification does not use it; it stands for a plausible mistake in the code
that a property must notice.

**WorkDeque** is `deque_push`, `deque_pop`, `deque_steal` (bf_pool.c:119-204).
`top`, `bottom`, `array`, `buf`, `ownerLock` are the fields of `deque_t`. `op[p]`
holds the locals of the call that thread `p` is in, and each action is one
access to a shared word, in the order of the source. The array pointer is a
generation number, since an outgrown array is leaked and never reused; the
bit mask is a remainder. Memory is sequentially consistent: the relaxed stores
and the fence of the code are not weakened further, so what is found here is a
matter of the algorithm and not of the memory model. `PopCas` keeps a detail
of C11 that matters: a compare-exchange that fails writes the value it found
into its `expected` argument.

**TaskDeque** is what a deque promises: append, take the oldest, take the
newest, in one step each. **DequeUse** lets chosen threads push, pop and steal
in any order, a deque's owner popping beside them as in the pool, and maps the
concrete deque to it (`Linearizable`); which threads do what (`Uses`) is chosen
in `Init`. `clashed` records the two meetings of calls that spoil a deque
(section 7): a push and a pop in progress at once, and a pop that loses the last
task to a thief. From then on nothing is claimed, and `TaskDeque` is `spoiled`.

**WorkPool** adds create, submit, wait, destroy and `worker_main`. `pc` follows
the source from one shared access to the next; a critical section with no other
shared access is one step. A thread on a condition variable is "asleep" or
"wait_asleep"; a signal makes it "woken" and it must take the mutex again;
wakeups may be spurious. `submitIdx` wraps as an `int` does (`IdxMax`), and
`CRem` is the remainder of C. A null function that is called ends the process
(`Crashed`). `submitted`, `accepted`, `awaited`, `promised` and `runs` are
history.

**JobLifecycle** is the life of a row of `jobs`: absent, queued, running,
completed or failed, queued again, deleted. **JobQueue** is AkaiQueue with the
submission and event stream of AkaiAPI. One action is one SQL statement, or
what a thread does up to the next one; threads of a daemon exclude each other
by `mutex` where the code holds `g_db_mutex` over two statements (SELECT and
claim), daemons do not. `Select`, `Claim`, `Announce`, `Finish`, `Report`,
`Notify`, `Stop` follow `worker_thread`; `Signal`, `Exit`, `Crash`, `Start` the
process; `Enqueue`, `Retry`, `Tell`, `PurgeEvents`, `PurgeJobs` the commands
and `POST /api/jobs`; `Follow` the two readers of the log. A write that fails is
ignored exactly where the code ignores it (`Written`). `rowid` is what
`sqlite3_last_insert_rowid` would say on a client's connection. A timestamp is
only "before the purge limit" or not (`old`, `Age`).

**RecipeRun** is AkaiRun from `assign_levels` to the manifest. `level`, `result`
and `child` are the fields `level`, (`executed`, `skipped`, `exit_code`) and
`pid` of each stage; the passes of `assign_levels` are followed stage by stage
(`PassOver`, `AssignLevel`, `RefuseUnknown`, `EndPass`), the two loops of
`execute_level` round by round (`Spawn`, `AllSpawned`, `Wait`), and a child ends
at any time (`ChildEnds`). The recipe itself is chosen in `Init`: every
dependency relation over the names, with cycles, unknown names and repeated
ids.

**StageGraph** is what such a run promises: a graph whose stages wait, run, and
succeed, fail or are skipped, each after those it depends on, until there is a
verdict; it knows nothing of levels and loops. `RecipeRun` maps its fields to it
(`Life`, `GraphFollowed`), so the levels are shown to be a schedule of the graph.

**TokenBuckets** is `rate_limit_check` with its table of `RL_MAX_KEYS` entries,
whole numbers for tokens and seconds (`Cost`, `Refill`), and a clock that
advances at will. `granted`, `fresh` (how often a key began with a full bucket)
and `born` are history.

**Gateway** is the accept loop and the connection threads of AkaiAPI and, chosen
by `server` in `Init`, of AkaiProxy, whose loop is the same code with three
differences: the thread counts itself, a failing `pthread_create` closes the
socket, an error of `accept` ends the server. `sock` is the descriptor table:
`accept` gives out the lowest free number, `Closes` closes whatever the number
stands for by then. `stage[c]` follows a connection through the handler (parse,
key, rate, work, event, stream, select, respond, log, close, uncount); `request` keeps
what later branches depend on. A section under `g_db_mutex` that waits for
nobody is one action; the event stream keeps the mutex (`dbMutex`) from its
SELECT to its last row. `Admit` compares the count and `CountIn` raises it: other
threads count themselves out in between. Clients connect, stall, read on, or
close ("gone"): what is written to a client that closed is lost without an error
until its system answers with a reset (`Reset`). The close of
the database and the end of the process are one step (`LoopTest`). `Clock` lets
time pass only before a check that looks at it.

**PluginRegistry** is `bf_hotload.c` with inotify. `mapped` is the dynamic
loader: references and image of a file, so that `dlopen` of a mapped file
returns the image that is there. `Load` and `Unloaded` are `load_plugin` and
`unload_stage`; `Exec` and `Return` bracket the call that is made without the
mutex; `WatchAdd`, `WatchTest`, `WatchRead`, `WatchHandle` are the watcher. Kept
as the callers' duty, because the code has no lock there: a pair is registered
where nobody else loads and no watcher runs, and a registry is destroyed when
its users are idle.

**Resolver** is `bf_dns.c` as it is built without c-ares: `pending` is the
stack of queries, `step` and `query` are where a worker is and with what. The
cache may have forgotten a name (`Resolved`, `Hit`), the list of results may fail
to grow (`Post`), and with a reactor no callback is called (`CallBack`).

**Reactor** is one reactor of `bf_reactor.c` with epoll. `turn` and `index` say
where `reactor_loop` is: it waits, handles the reported events in any order,
pushes to the streams, and cleans the array from its end (`Removed` moves the
last connection). `armed` is the kernel's list of ready descriptors: a change
puts a descriptor on it if it is watched for that (`Wakes`, `interest`), and
`epoll_wait` (`Wait`) takes it off. Bytes are chunks; `HandleRead` makes one
`recv`, `HandleWrite` one `send`. `link` is the client's side of TCP: open,
closed ("fin"), closed and sent to ("doomed", then "pipe": the next send raises
SIGPIPE), or reset ("rst").

**LogRing** is `bf_log.c`. `head` and `tail` are the atomic counters of the
ring of each thread and are reduced to a slot where one is used, so the number
of used entries wraps as it does in the code (`GettingFull`). `doing` follows a
thread through `bf_log_write` and `bf_log_flush` from one shared access to the
next; a flush copies tail and head (`at`), prints, and saves its tail. A slot
that is being written is found old, new or torn (`Found`). `printed`, `raced`
and `setback` are history.

**MCStructures** and **MCLibrary** put components in one run; `focus`, chosen
in `Init`, says which one moves, so that nothing is interleaved that is
independent. The first has safety properties only and large instances, the
second has liveness.

## 4. The runs

| run | instance | distinct states | what it shows |
|---|---|---|---|
| `structures` | deque: 2 submitters and 2 thieves, or the owner beside a submitter and a thief, 4 tasks, arrays of 2 then 4 slots, up to the first clash; logger: 2 threads with 5 lines and 1, rings of 4; buckets: 3 keys on 2 buckets | 4,367,458 | `TakenOnce`, `NothingLost`, and the deque is a sequence (`Linearizable`); `LinesKept`; `KeyRate` |
| `pool_sleep` | 2 workers, 2 clients, 1 task, failing creations, destroy | 527,075 | `NoLostWakeup`, `WaitersWoken`, `ShutdownSeen`, `DestroyEnds` |
| `queue_one_daemon` | 1 daemon with 2 threads, 2 jobs of 2 priorities, 2 attempts | 706,697 | `EveryChangeLogged`, `Settles` |
| `queue_two_daemons` | 2 daemons, 1 job, stops and restarts, a manual retry, purges | 2,382,116 | `OneRunner`, `NoOrphan`, `RetryExcess`, and the table implements `JobLifecycle` (`LifecycleSpec`) |
| `queue_follow` | 2 daemons killed at will, failing writes, purges, a follower with batches of 2, 5 events | 97,543 | `OneRunner`, `FollowerComplete`, `Delivered` |
| `recipe_run` | all recipes of 3 stages over 3 names, ids repeated or not, `waitpid` that fails | 59,328 | `SkipsSpread`, `PlannedIffWellFormed`, `GraphFollowed`, `RunShortens`, `RunEnds` |
| `gateway` | either server, 3 connections, 2 descriptors, 2 threads, failing creations, a client that stalls or hangs up, a stop | 209,432 | `CountExact`, `OwnSocket`, `MutexGivenBack`, `Finishes`, `StopsAtNextClient` |
| `library` | plugins: 2 files, 2 slots, 3 versions, a user, a watcher; resolver: 3 queries, 2 workers; event loop: 3 clients, 2 places, 2 chunks of request and of response | 167,592 | `HandlesBalanced`, `EntryMapped`, `SwapsIn`; `CalledOnce`, `OneHolder`, `NobodySleepsOver`, `Answered`; `EntriesMatch`, `EdgesKept`, `RequestsEnd`, `EndsAreSeen` |
| `pool_early_wait` | 2 workers, 1 client, 2 tasks | – | violates `WaitMeansDone` |
| `pool_wait_hangs` | 1 worker, 1 client, 1 task | – | violates `WaitReturns` |
| `recipe_wait_all` | 3 stages | – | violates `WaitedForAll` |
| `plugin_stale_call` | a watcher, a user | – | violates `NoStaleCall` |

Some properties are proved (section 6) and have no run of their own. Every module
states the types of its variables (`TypeOK`, `LogTypeOK`, `ReactorTypeOK` and so
on); those of the pool, the queue, the recipes and the servers are theorems, and
the others, as far as proofs need them, are conjuncts of the invariants of
section 6. `DependenciesFirst` and `SuccessIsWhole` are what `GraphFollowed` says
of starting and of success, `RetryBound` is `RetryExcess` of a single daemon, and
`FreshOnce` speaks of a table that is not full yet.

Why the bounds are enough to be interesting:

* an array of two slots that doubles once (`Cap`, `MaxGrow`) makes the third
  push grow it, with indices on both sides of the mask and thieves that hold
  the old array. The deque is explored up to its first clash, from where no
  property says anything; the rest is what the two pool runs that end in a
  counterexample go into;
* `SpinLimit` = 1 puts a worker to sleep after one fruitless round instead of
  64: every other count reaches the same states later;
* two workers, two clients and one task are enough for every pair of sleeper
  and waker, for a destroy that meets workers at any point of their loop, and
  for creations that fail at either worker. `QuietDestroy` lets the owner begin
  to destroy only when the other client is outside, so a submit or a wait that
  is overtaken by it is not in the run;
* two daemons with a thread each are enough for every race on a row, since
  nothing but the row connects them; two threads under one mutex are what one
  daemon adds. `MaxRetries` = 2 leaves room for one automatic retry. Two jobs
  cannot overtake a third for ever; `Settles` is stated so that it does not rest
  on that: it excepts jobs before which others keep arriving, which do starve;
  `MaxTries`, `MaxEvents` and `MaxManual` only cut what would go on for ever,
  and are above what the passing runs with fairness can use (`queue_follow`
  stops writing at five events, which `Delivered` is stated for);
* three stages are the smallest graph with a stage behind a stage behind a
  stage, siblings in a level, and cycles of one, two and three; three names
  with one id used twice leave one unknown;
* three connections on two descriptors and two threads bring a server to both
  limits, and make a number be used by a second connection while the first one's
  thread has yet to leave; one client that stalls or hangs up (`Fickle`) holds
  the mutex against one that needs it; one row (`MaxRows`) is a stream that
  waits with the mutex, none is a stream that pauses;
* two slots and two files of two stages fill a registry, put one file into two
  slots, and pair them; three versions allow a broken build between two good
  ones; three keys on two buckets push each other out, and `Capacity` = 2
  requests with `Refill` of half a request tell a refill that is counted twice;
  three queries for two names and two workers have a query in the list, one
  with a worker and one answered from the cache at once;
* three clients for two places have one turned away, and one entry moved into
  the place of another; a request of two chunks comes in one piece or two, and a
  response of two does not fit a client that takes one (`Window`). A third
  chunk after the request, and one client with a whole request each, were also
  run (224,169 and 463,965 states, no error);
* a ring of four slots with five lines wraps; two threads flush it against each
  other and against its writer, at any distance.

Where a property excepts the worst case of a hazard it describes the loss and
does not catch it. `CountExact` and `OwnSocket` count the connections whose
threads could not be started. `KeyRate` counts each time a key begins anew, so a
key that takes over bucket 0 gets a new allowance. `EndsAreSeen` is about ends
that are reported by themselves, `LinesKept` about rings whose tail was not set
back, `Finishes` about clients that read on or leave. `NoOrphan` and
`EveryChangeLogged` are checked without kills. `OneRunner` is checked in two
runs: over kills and failing writes with a single attempt (`queue_follow`), and
over restarts, automatic and manual retries and purges without faults
(`queue_two_daemons`); all of these together are in the proof only. What is lost
is in section 7.

`CHECK_DEADLOCK` is off in every run: clients need not call, so each of these
systems may rightly stop.

## 5. Fairness

* `WorkPool`: weak fairness of every worker, of every call that has begun, and
  of the owner inside create and destroy, because the kernel schedules runnable
  threads. Mutexes are not assumed fair, wakeups are not spurious on demand,
  and nobody has to call the pool. `DestroyEnds` starts where destroy has done
  waiting: that its first step, `bf_pool_wait`, ends does not hold
  (`pool_wait_hangs`).
* `JobQueue`: weak fairness of each worker thread (it polls, and `run_binary`
  returns since the operators end), of the second half of a client's command,
  and of the follower's polling. Nobody has to submit, stop or restart
  anything. `Settles` is checked where daemons are not stopped, and promises an
  end only to a job that is not overtaken for ever; `Delivered`
  holds while they are killed.
* `RecipeRun`: weak fairness of `akai-run` and of every child. `waitpid` has no
  timeout, so `RunEnds` needs the children to end; that it fails is possible
  (`WaitMayFail`) and never counted on.
* `Gateway`: weak fairness of the accept loop and of what a thread does by
  itself; strong fairness of the steps that wait, for `g_db_mutex` or for the
  client. A stream takes the mutex again and again, but sleeps between two
  SELECTs (AkaiAPI:930), and the mutex goes to a waiter then. A stalled client
  reads on some day or goes away: the code sets no timeout, and without that
  assumption `Finishes` does not hold. Nobody has to connect.
* `PluginRegistry`: weak fairness of the watcher. `Resolver`: weak fairness of
  each worker, and of the end of destroy; `getaddrinfo` returns. Nobody has to
  call, and callers are never forced to destroy.
* `Reactor`: weak fairness of the loop, whose `epoll_wait` has a timeout, of a
  client that reads what it was sent, and of a reset on its way. Nobody has to
  connect, send or leave, and nobody stops the reactor. `accept` may fail as
  often as it likes: no property promises to admit a client.

## 6. The proofs

All theorems are about every value of the constants that satisfies the named
assumptions; the assumptions say only what the code's constants are (types, at
least one worker or stage, arrays that double). Some have a hypothesis besides,
which the statement names:

* `OneDaemon`: the threads belong to one daemon. `ExcessIsBounded` is what
  remains with several.
* `NoFaults` (no daemon is killed, no write fails) and `Guarded` (no write fails,
  nobody purges): the code has nothing against these faults (AkaiQueue:395, 452,
  565), so `NoOrphan` and `EveryChangeLogged` are false with them.
* `WorkersAssumption`: the workers of a resolver are finitely many
  (`NobodySleepsOver` counts them).
* `Countable`, `Populated`: threads, clients and daemons are finitely many,
  threads and clients are not the same things, and there is a daemon.
* `OneDeque`: the abstract sequence is that of a single deque.

The theorems about the deque have no hypothesis on who uses it: they are about
the pool's own use, and about what happens until the first clash (`clashed`),
which is in the properties themselves. `LinesKept` speaks in the same way of the
rings whose tail was never set back.

| theorem | says |
|---|---|
| `WorkPoolProofs!TypeCorrect` | `[]TypeOK` of pool and deques |
| `WorkPoolProofs!WorkersWake` | `[]NoLostWakeup` |
| `WorkPoolProofs!WaitersWake` | `[]WaitersWoken` |
| `WorkPoolProofs!WorkersSeeShutdown` | `[]ShutdownSeen`, if no `pthread_create` fails |
| `JobQueueProofs!RowsTyped` | `[]TypeOK` |
| `JobQueueProofs!ExecutionIsExclusive` | `[]OneRunner`, over kills, restarts, failing writes |
| `JobQueueProofs!TableIsLifecycle` | `Spec => LifecycleSpec`, a refinement |
| `JobQueueProofs!RetriesAreBounded` | `[]RetryBound` with one daemon |
| `JobQueueProofs!ExcessIsBounded` | `[]RetryExcess`, any daemons, kills and failing writes (`Populated`) |
| `JobQueueProofs!NoJobIsOrphaned` | `[]NoOrphan` (`NoFaults`) |
| `JobQueueProofs!ChangesAreLogged` | `[]EveryChangeLogged` (`NoFaults`, `Guarded`, `Countable`) |
| `JobQueueProofs!FollowerMissesNothing` | `[]FollowerComplete`, any batch, over purges, kills and failing writes |
| `RecipeRunProofs!PlanTyped` | `[]TypeOK` |
| `RecipeRunProofs!StagesAreOrdered` | `[]DependenciesFirst`: a stage starts after all it depends on have succeeded |
| `RecipeRunProofs!SuccessIsTrue` | `[]SuccessIsWhole`: a run that reports success skipped each stage or saw it succeed |
| `RecipeRunProofs!SkipsAreExact` | `[]SkipsSpread`, recipes of any length and shape |
| `RecipeRunProofs!PlansAreExact` | `[]PlannedIffWellFormed`, recipes of any length and shape |
| `RecipeRunProofs!RunFollowsGraph` | `Spec => GraphFollowed`, the refinement of `StageGraph` |
| `RecipeRunProofs!RunsShorten` | `Spec => RunShortens`: no run takes more steps than `Remaining` says |
| `StructuresProofs!DequeTakenOnce` | `[]TakenOnce`, any uses, up to the first clash |
| `StructuresProofs!DequeNothingLost` | `[]NothingLost`, any uses, up to the first clash |
| `StructuresProofs!DequeIsSequence` | `Spec => Linearizable`, the refinement of `TaskDeque` (`OneDeque`) |
| `StructuresProofs!LinesAreKept` | `[]LinesKept`, any threads, lines, rings and slots, of rings whose tail was not set back |
| `GatewayProofs!KeysAreLimited` | `[]KeyRate`, any keys, table, capacity, rate and price |
| `GatewayProofs!BucketsAreKept` | `[]FreshOnce` |
| `GatewayProofs!ThreadsAreCounted` | `[]CountExact`, both servers |
| `GatewayProofs!SocketsAreOwned` | `[]OwnSocket` |
| `GatewayProofs!MutexIsGivenBack` | `[]MutexGivenBack` |
| `GatewayProofs!ServerUsesBuckets` | `Spec => RateSpec`: the servers use the buckets as `TokenBuckets` allows |
| `GatewayProofs!ServersTyped` | `[]TypeOK` of the servers |
| `GatewayProofs!ServerLimitsKeys` | `Spec => []KeyRate`: so every key of a running server keeps to its rate |
| `PluginRegistryProofs!HandlesAreBalanced` | `[]HandlesBalanced` |
| `PluginRegistryProofs!EntriesAreMapped` | `[]EntryMapped` |
| `LibraryProofs!CallbacksAreCalledOnce` | `[]CalledOnce` |
| `LibraryProofs!QueriesHaveOneHolder` | `[]OneHolder` |
| `LibraryProofs!QueriesAreNotSleptOver` | `[]NobodySleepsOver`, any queries and finitely many workers |
| `LibraryProofs!ConnectionsMatch` | `[]EntriesMatch`, any clients, places and descriptors |
| `LibraryProofs!EdgesAreKept` | `[]EdgesKept`, any clients, buffers, requests, responses and windows |

*Wakeups.* `NoLostWakeup` alone is not inductive: a worker may be past its look
at `pending`. The invariant `IInv` adds that such a worker holds `wake_mutex`
(`WakeHolder`) and that what it saw is still so, or a submit has yet to take
that mutex (`CheckedIdle`); `WaitHolder` and `BroadcastDue` say the same of
`wait_mutex`. No fact about the deques is used: the wakeups are right even
where section 7 shows that the deques are not. That is also why the proof of
`ShutdownSeen` (`ShutdownIInv`) stands.

*Queue.* `OneRunner` says both that a job that some thread holds is "running"
and that no other thread holds it, which is what makes it inductive with the
types: a claim needs "queued", so nobody holds the job, and nothing else leaves
"queued". It then justifies the unguarded UPDATE that ends a job, the one step
of the refinement that is not immediate. The retry limit needs the mutex: what
a thread read before its claim is still true (`FreshSelect`), the attempts it
compares are those of the row less its own (`FreshTries`), and a queued job has
an attempt left (`RoomForOne`). With several daemons what a thread read may be
old; `Room` then bounds the attempts of a job together with the threads that may
still put it back (`Capable`), of which a daemon has one at most between SELECT
and claim (`MutexHeld`).

The log is kept by account. A step makes a change and leaves somebody who has to
log it (`Opens`), or somebody logs one (`Writes`), or it concerns neither
(`Accounted`); as no row has the id of an older one (`CursorBehind`), the count
of rows and debts grows with the changes, one by one. `FollowerComplete` needs
the same order of ids and that a batch, the first rows after the cursor, has no
gap. `NoOrphan` needs only that a thread that has left its loop holds nothing and
that a daemon exits when its threads have (`ThreadsJoined`).

*Recipes.* `Inv` says that levels ascend along dependencies, that nothing is
started before all levels are given, and, of the two loops, that the levels
below the current one are done, those above are untouched, and `todo` divides
the current one (`LoopsInStep`). "At any distance" is said without recursion:
what must be skipped is what every set closed under skipping contains
(`SkipClosed`), so one direction follows from the reason each skip had
(`SkipsGrounded`) and the other because the skipped stages of a successful run
are such a set. In the same way a recipe has no cycle if every set of stages has
one that needs no other of the set: of stages that have levels the lowest
(`LowestLevel`, by well-founded order), and a pass that assigned nothing has
found a set without (`PassTrue`, `EndJust`).

The refinement of `StageGraph` needs no more than `Inv`: a stage that is reached
has all it depends on in lower levels, which are done, so they have succeeded or
were skipped. `RunShortens` is the part of termination that is not liveness: a
number, `Remaining`, that every step makes smaller and none below zero. It
weighs what is left of the planning (each pass that is not the last places a
stage, `RoundsShrink`), of the levels (`LoopingShortens`: `todo` shrinks within
one and `current` grows between them) and of the children (each is started
once and ends once, `ChildShortens`). What is missing for `RunEnds` is that some
step can be taken, which is fairness and `ENABLED` and left to TLC.

*Deque.* `DequeUseInv` says of every task that was pushed that it is at one place
(`OnePlace`): at one live index of a deque, or with one call, or in `taken` once.
A step moves at most one task, and the lemmas of the second section of
`StructuresProofs` say what each kind of move (caller to call, call to index,
index to call, call to caller) does to the places. What makes the moves true is
`CallTrue`, what the locals of a call still say about a deque that others use:
a thief whose `t` is still `top` read the slot that is now the oldest, although
the array may have doubled in between, since `deque_push` copies the live slots
and never overwrites one (`CopiedSlot`, `MaskedApart`). Each call has one access
at which the window of live indices grows or shrinks, and all others leave it
(`Stays`); with `TakenOnce`'s invariant that is the refinement of `TaskDeque`. A
pop lowers `bottom` before it looks at `top`, so thieves and owner can want the
same task only if it is the last one, and the compare-and-swap decides that. All
of this is said while nothing has clashed: beside a push, or after a lost last
task, `bottom` is not what a pop thinks it is.

*Logger.* A line is up to the tail, and then a flush has passed it, or after it,
and then it is in its slot (`InRing`). The second half needs that the ring never
fills (`RoomIn`): its own thread flushes before it writes again and, as it does
not write meanwhile, leaves it empty (`Emptied`), which needs in turn that the
count of rings a flush goes by includes its own (`Counts`) and what it has read
of a ring to be true of it still (`Reads`), for every flush but one whose tail
another has passed (`setback`). `bf_log_shutdown` runs when all others are idle,
so that every ring is still for it (`Still`) and is left empty.

*Buckets.* `KeyRate` speaks of history and has to be tied to the table: the
tokens of a bucket and what its key was granted are together at most what is due
at its last refill (`Worth`, `Due`), and no key has two entries (`OneEach`). For
`FreshOnce` the keys of the table are all that were ever seen, until it is full.

*Gateway.* Descriptors and connections point at each other (`Paired`), which is
what makes a number that is used again harmless; the loop alone has the
connection it admits (`LoopHas`), so it may compare and count in two steps
(`Counted`). `MutexGivenBack` is inductive once it says both directions (a stream
in its rows has the mutex, and nobody else has it); `ServedInv` adds to it that
the limiter is asked only about requests that carry a key (`KeyShown`). With that
each step of a server is a step of `TokenBuckets` or leaves it alone
(`GatewayLimits`), and what is proved of the limiter by itself holds in the
server (`ServerLimitsKeys`), without being proved again.

*Plugins.* `Books` says of a set of slots that it accounts for all references
and that the slots of one file agree on its version. It is stated for a set and
not for the registry because a reload passes through a state in which its slot
does not count, and a registration fills a slot that is not counted yet.

*Resolver.* A worker has a query exactly from its taking to its freeing
(`Held`), and the list has the queued ones once each (`InList`). For the wakeups
one counts: a query adds one to the list and its signal one to the workers that
are at it, a worker takes one from both; one that sleeps has found the list
empty, and one that leaves has seen the end, after which nobody sleeps.

*Event loop.* `Entries` says that entries, open descriptors and connected clients
correspond one to one, with the array a sequence whose last entry is moved into
the place of a removed one; `WalkInside` that the loops over the array, which
remove while they walk, stay inside of it. Edges are the safety half of
`RequestsEnd`. `EdgesInv` adds to `EdgesKept` what the kernel was asked for: "in"
for an entry that reads, "out" for one that writes (`Attended`), and that no
event is pending when the loop waits. A recv that leaves something has filled the
buffer, which holds a whole head (`SizesAssumption`), so the request is complete
and the entry does not read any more; a send that leaves something has filled
the window. One step handles one entry and touches nothing of the others
(`Apart`, `OneAttended`), since they have other descriptors and other clients.

Every invariant and action property of the passing runs is the subject of a
theorem, and every refinement. Three things are model-checked only.

* Liveness: `DestroyEnds`, `Settles`, `Delivered`, `RunEnds`, `Finishes`, `StopsAtNextClient`,
  `SwapsIn`, `Answered`, `RequestsEnd`, `EndsAreSeen`. Fairness and `ENABLED` are
  beyond the prover. Of some the safety half is proved: that a run shortens, that
  no edge is lost, that no query and no submit is slept over, that the mutex is
  given back.
* What the violating runs show, which are counterexamples.
* Facts about recursive data: the models that are proved about have no recursive
  operator, and closures are stated by sets that are closed (`SkipClosed`).

## 7. What the code does not do

Four runs end in a counterexample, because what the code does differs from what
a comment or document says of it. `PROJECT.json` has the quotations.

* *A task can be lost* (`pool_wait_hangs`). `deque_push` is called by
  submitters on a deque whose owner pops from it. When the pop finds the deque
  empty it restores `bottom` to the value it read before the push. `pending`
  stays at 1, and `bf_pool_wait` does not return.
* *Wait can return early* (`pool_early_wait`). After losing the last element to
  a thief, `deque_pop` computes `t + 1` from a `t` that the failed
  compare-exchange has overwritten, so `bottom` is one past `top` and a stale
  slot is run in place of a task.
* *The run of a recipe can be over while its stages run* (`recipe_wait_all`).
  `execute_level` returns at the first failure.
* *A reload unmaps code that runs* (`plugin_stale_call`). `bf_hotload_exec`
  copies the entry point under the mutex and calls it without; a reload by the
  watcher closes the handle in between.

Known and not in a run of their own:

* pool: the round-robin index becomes negative after 2^31 submits
  (bf_pool.c:401); a submit past its shutdown check is overtaken by destroy
  (398), and a client woken in `bf_pool_wait` may still use the mutex that is
  freed; `QuietDestroy` rules both out, and no property speaks of them; a worker about to sleep misses the
  broadcast of a failed create (354), so the join does not end;
* queue: with two daemons the attempts read by the SELECT may be old at the
  claim, and a job is run once more than `max_retries` (AkaiQueue:457;
  `RetryExcess` says that it stays at once for each other daemon); the result of
  an INSERT is not looked at, and its event may name a job that does not exist
  (565); a purge deletes the events of old jobs and then the old jobs, so that a
  job that becomes old in between is deleted alone, and its events name a job
  that does not exist, against the foreign key of the schema (882, 108), which
  SQLite does not enforce unless it is asked to; a daemon killed between an UPDATE and its event leaves a change without
  a row (452), and one killed while a job runs leaves it "running" for good (395);
  a job waits for ever while more urgent ones keep arriving (373);
* recipes: stages of a level are not limited to eight (AkaiRun:797); a `waitpid`
  that fails ends the run as a failed stage does (808);
* servers: the handlers are installed by `signal`, so `accept` is restarted and
  a server that was told to stop waits for one more client (AkaiAPI:1241); an
  event stream notices that its client is gone only when it has a row to write,
  and holds `g_db_mutex` while it writes (917): a client that neither reads nor
  leaves stops every other request; a failed `pthread_create` leaves a socket
  and a count behind for good (1262); the database is closed while threads may
  use it (1336). The proxy counts in the thread, so it may pass `MAX_THREADS`
  (AkaiProxy:747, 893; no property bounds its threads), and it ends when descriptors run out (888);
* rate: a full bucket and its refill allow 239 requests in the first minute,
  where the answer of 429 gives the capacity as a limit "per minute"
  (AkaiAPI:1121);
* plugins: the second half of an A/B registration is made without the mutex
  (bf_hotload.c:464); the watcher finds a stage by `strstr` on its path (187);
  a reload of the "b" variant gives it the plain name back; a watcher thread that
  could not be created is joined all the same (314, 328); a file written
  between the scan and `inotify_add_watch` is not noticed;
* resolver: with a reactor no callback is ever called, although `bf_dns.h` says
  that it is when the query is complete; without one the list of results grows
  until somebody calls `bf_dns_process`; the list is a stack, so an old query
  waits as long as new ones come; the cache is shared without a lock; workers
  that could not be created are joined all the same (230, 245);
* event loop: the end of a stream that comes together with a part of a request is
  not seen, and the connection keeps its place for good (bf_reactor.c:297); a
  `send` without MSG_NOSIGNAL ends a process that does not ignore SIGPIPE (390);
  an event that a client does not take whole is cut (414); a request head of more
  than a buffer, 64 KB, closes the connection; a reactor whose `bind` failed is
  joined and closes descriptor 0 (597, 607);
* logger: a line that is reserved when a flush passes is lost (bf_log.c:240);
  of two flushes the slower one sets the tail back (288), so lines are printed
  twice and, once a whole ring lies between tail and head, overwritten; rings
  beyond 64 threads are never flushed (71); a rotation that cannot open the new
  file leaves `log_file` NULL for a thread that is past its test (137).

## 8. What is not modelled

`PROJECT.json` names every component with its reason. In the modelled files:
`bf_pool_map` (submits, then a wait), a failing `malloc`, weak memory; webhooks,
the search index and the read-only commands of the queue; what the gateway's
handlers for uploads, statistics and binaries compute; the kqueue watcher; what
a cache entry of the resolver holds; JSON extraction, argument substitution and
the manifest's text of recipes.

Elsewhere: pure operators, codecs, parsers and numerical code have no behaviour
beyond their result; one-shot commands are straight-line code on one row;
media, telephony and QUIC are mostly the behaviour of external programs.

## 9. Plan

In order of importance, with the module, what it composes, and the questions.

1. `Webhooks` and the search index, as readers of the rows of `JobQueue`.
2. Overlapping flushes as a run of their own, with a ring whose threshold keeps
   the proportion of the code; the resolver's pipe composed with `Reactor`.
3. `FrameRelay` (AkaiMoQ), `PieceExchange` (AkaiSwarm), accounts with two
   commands at once (pay, meter, gate), the robin-hood table as a pure
   algorithm against a map.

What could still be proved: an abstract account of the logger (a line is
pending, passed or lost) and of the resolver (a query waits, is answered, is
called back) that the modules refine; numbers like `Remaining` for the queue and
the servers, whose runs have no end and shorten only between two calls of a
client.

The models cover a small share of the repository's lines and are not meant to
cover most of them: nearly all of it is parsing, numerical code and commands
that run once, whose correctness is a matter of their results and not of order.
