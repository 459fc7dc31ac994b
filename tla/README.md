# A TLA+ model of aky-go-common

The repository is a Go library: a task-pipeline engine (`workflow/`), file
handling with per-file locks (`file/`), an HTTP client, a Consul configuration
client, structured errors, logging and a few helpers. This directory models its
concurrent and protocol-bound parts in TLA+, checks them with TLC and proves
what matters most with TLAPS. Paths and line numbers are those of `src/`.

## 1. The system

| Component | State it keeps | Operations | What makes it correct |
|---|---|---|---|
| Parallel level, fastest-first (`workflow/execution_chain.go`, `runMergeUnordered`) | per call: one goroutine per task, an unbuffered channel, a semaphore, a WaitGroup, the list of errors, a context derived from the caller's | run the tasks on one state, yield what they yield as it arrives | no send on the closed channel; no goroutine left behind; nothing lost unless cancelled; a fatal failure ends the stream with an error; bounded concurrency; it returns once aborted |
| Parallel level, ordered merge or zipper (`collectParallel`, `runMergeOrdered`, `runZip`, `cartesianEach`) | per call: an errgroup with a limit, results by task index | run all, then yield grouped or combined | all or nothing; order by task; each combination once |
| Chain and terminals (`Define`, `Next`, `Stream`, `Execute`, `Collect`, `First`; `stream.go`) | the list of levels, folded into one stream function | append a level; pull all states through | the range-over-func contract at every level; termination short-circuits; errors are last; results complete |
| Middleware (`task.go`: `WithTimeout`, `WithRetry`) | none | wrap a task | at most n attempts; the context is honoured |
| State, Builder (`state.go`) | an immutable map, a mutable builder | read, copy, terminate, merge | copies do not share; later states win |
| Per-file locker (`file/locker_perfile.go`) | map from key to reference-counted RWMutex, mutex of the map | `Lock`, `Unlock`, `RLock`, `RUnlock` | a reader-writer lock per key, never split, never leaked |
| Striped locker (`file/locker_striped.go`) | 32 RWMutexes | the same | a reader-writer lock per slot |
| File handler (`file/file.go`) | the directory | create, copy, write, append, read, delete, clear, list | operations on one name exclude each other |
| HTTP client (`httpclient/`) | a shared `http.Client` | `Do`, `DoStream` | one outcome per failure; bodies are closed |
| Consul client (`consul/`) | lazily built API client | `Fetch`, `FetchKeyValue`, merging | profile over base, key by key |
| Tavily search, `apperror/`, `logger/`, `metric/`, `utils/` | a package variable or nothing | | |

How they interact. A level calls the loop body of the level above it for every
state (a callback, on the same goroutine); the tasks of a parallel level talk to
it by a channel and are stopped by a context; the caller's context reaches every
task. The file handler brackets its operations with a `Locker`. Tavily calls the
HTTP client. The other packages do not touch each other.

What is hard here: the goroutines of a parallel level racing its reader and its
context; nested range-over-func loops, in which one forgotten `return` panics or
loses states; error aggregation when failures cause each other; lock entries
that are deleted while somebody is about to wait on them; file operations that
take no lock next to those that do; timeouts and retries around one another;
maps that look like values and are references. `PROJECT.json` lists the hazards
by line, with the properties that cover them.

## 2. Modules

| Module | What it is | Source |
|---|---|---|
| `ParallelLevel` | abstract: what a parallel level promises its reader | - |
| `MergeUnordered` | the fastest-first level, goroutine by goroutine | `execution_chain.go` 422-443, 477-509, 525-591, 662-676 |
| `MCMergeUnordered` | its instance for TLC | |
| `MergeUnorderedProofs` | inductive invariant, safety theorems, refinement of `ParallelLevel` | |
| `CollectParallel` | the level that gathers before it yields: ordered merge and zipper | `execution_chain.go` 477-509, 595-658, 660-713; `stream.go` 26-36 |
| `MCCollectParallel` | its instance for TLC | |
| `CollectParallelProofs` | inductive invariant, safety theorems, refinement of `ParallelLevel` | |
| `Chain` | the builder, the tower of levels and the terminals | `execution_chain.go` 257-414, 447-509, 525-658; `stream.go` |
| `MCChain` | its instance for TLC | |
| `ChainProofs` | inductive invariant, all safety properties of run `chain` | |
| `KeyLock` | abstract: one writer or many readers per key | `file/locker.go` |
| `LockerPerFile` | the reference-counted map of RWMutexes | `file/locker_perfile.go` |
| `MCLockerPerFile` | its instance for TLC | |
| `LockerPerFileProofs` | inductive invariant, safety theorems, refinement of `KeyLock` | |
| `LockerStriped` | a fixed array of RWMutexes behind a hash | `file/locker_striped.go` |
| `LockerStripedProofs` | inductive invariant, refinement of `KeyLock` | |
| `FileStore` | abstract: files as variables that calls read and change at one moment | `file/file.go` |
| `FileHandler` | the handler's operations, step by step, over `KeyLock` and a file system | `file/file.go` |
| `MCFileHandler` | its instance for TLC | |
| `FileHandlerProofs` | inductive invariant, refinement of `FileStore` | |
| `StateValues` | abstract: states, builders and handed out maps as values | - |
| `State` | the same as references to maps that may be shared | `workflow/state.go` |
| `HttpClient` | one call of `Do` or `DoStream` | `httpclient/httpclient.go` |
| `Middleware` | `WithTimeout` and `WithRetry`, nested, around a task that makes a request; EXTENDS `HttpClient` | `workflow/task.go` |
| `WorkflowProofs` | for `State`: inductive invariant, refinement of `StateValues`; for `Middleware`: inductive invariant, all safety properties | |
| `ConsulClient` | `Fetch` against keys that change, and the merge of documents | `consul/client.go`, `consul/merge.go` |
| `ConsulClientProofs` | the recursive functions' equations, inductive invariant, both safety properties | |
| `MCPackages` | `State`, `Middleware`, `ConsulClient` and `LockerStriped` side by side, for TLC; EXTENDS all four | |

### MergeUnordered

One call of `runMergeUnordered`. `main` is the position of the stream function
(launching, receiving from the channel, inside the reader's loop body, draining,
returned); `pc[t]` that of the goroutine of task `t`; the closer is the action
`Close`. An action is what happens between two points at which another goroutine
can interfere: `Launch` is `wg.Add(1)` and the `go` statement, `Acquire` and
`GiveUpSlot` are the cases of the select on the semaphore, `Deliver`, `Drain` and
`GiveUpSend` are the outcomes of the select on the send (a rendezvous with the
range over the channel, with the drain, or `<-ctx.Done()`), `Record` and
`CancelSiblings` the two statements of the error path, `Release` and `Exit` the
two deferred calls. Tasks are arbitrary: they yield up to `MaxEmit` states, end,
or fail genuinely or with a context's error: that of the context they were given,
or of one of their own, while the given one is live.
`runTask` decides what becomes of a failure: `Fail` for a fatal task, `Resume`
(the previous state is yielded once more) for the others.

Go's select picks at random among ready cases, so the model does not prefer
`<-ctx.Done()`: a queued task may still start, and a state may still be
delivered, after the cancellation.

Left out: the interleaving of different tasks in the output (the level promises
none), the values of states, logging, and panics of a task, which end the
program.

### CollectParallel

One call of `runMergeOrdered` or of `runZip` (`zip`, chosen initially and
constant). `Launch` is one round of the loop over tasks up to `g.Go`, which
blocks while the group is at its limit and does not look at its context: tasks
still start after a failure, on a context that is done. A goroutine runs its task
(`Emit`, `End`, `Fail`, `Resume`, as in `MergeUnordered`, into the slice of
`collect`), then either stores its slice (`Store`) or appends its error under
`mu` (`Record`) and returns it (`ReturnError`, with which the errgroup cancels its
context); `Exit` gives the slot back. `Wait` is `g.Wait` with what follows it up to
the first yield: the joined error, or the enumeration. `YieldGrouped` walks the
results task by task; `YieldCombination` gives the zipper one state of each task,
and `NextCombination(pos)` and `LastCombination` are the outcomes of the inner loop
of `cartesianEach`, which looks for the last digit that can advance and resets
those behind it. The errgroup is external.

States are numbers in their task's output. The zipper is a function of the
combination and is not modelled; a combination stands for what it returns.

In the refinement of `ParallelLevel` a grouped level is its tasks; what a zipped
level yields is the zipper's, which is task 0 there: it makes a combination when
the odometer is turned to it, and its reader gets them in that order.

### Chain

The levels form a tower of nested range-over-func loops on a single goroutine.
Control is at one level at a time and goes up with a value (`recv`) or down with
the loop body's answer (`yes`, `no`); `doing[l]` remembers what the last yield
of level `l` was, since that decides what an answer means: `chainSingle` and the
parallel branch of `appendLevel` return after an error whatever the answer,
continue after a terminated state, and so on. The kinds of level are a single
task (fatal or not), a fastest-first parallel level (`merge`), one that gathers
first (`gather`: `WithOrderedMerge` or a zipper), and a level without tasks,
which replaces the stream below it. The branches of parallel levels, a goroutine
each, are launched when their level is begun on a state (`Enter`) and then move
on their own while control is anywhere above: a branch of a fastest-first level
sends (`BranchSends`: it waits in its select, counted by `sending`), is received
by its level (`EmitState`), by the drain (`DrainState`) or gives up once its
level is cancelled (`BranchGivesUp`), and every branch ends or fails
(`BranchEnds`, `BranchFails`). When its reader stops, a fastest-first level
cancels its branches and receives what they still send until the last has ended
(`TaskStops`, `Drained`). In which order branches get their slots and start
their tasks is left to `MergeUnordered`: here one is `live` until its goroutine
ends, its task started or not, and it may start it late, even when an error has
been yielded above. So `begun` counts how often a level is begun on a state, not
tasks. The caller's context is left to the modules of the parallel levels, too.
All four terminals are modelled; the caller of `Stream` may break at any state
and may ignore an error, which the tests of the repository do on purpose
(`workflow_test.go:877-910`).

The history variables `seen`, `final`, `fed`, `begun`, `stopped` and `raised` count
what happened and guard nothing.

### LockerPerFile

One action per critical step: `EnterMap` takes the map's mutex; `Lookup` finds or
makes the entry, counts the caller and releases the mutex (nothing else can
happen to the map in between); then the wait for the entry's own RWMutex, outside
the map's mutex. `Unlock` is `EnterMap`, `Drop`, `UnlockWriter` or `UnlockReader`,
`Reap`, all inside the map's mutex, step by step, because the goroutines that
wait on the entry's mutex can move in between. `sync.RWMutex` is external: a
writer announces itself when no other writer has, new readers then park, and an
unlocking writer lets the parked readers in.

### LockerStriped

The hash is any function from keys to slots, chosen initially; keys of one slot
share its `RWMutex`, which is modelled as in `LockerPerFile`. Goroutines hold one
key at a time, as the file handler does: one that held a key and waited for
another of the same slot would wait for itself.

### FileHandler

Goroutines call one `Handler`. A call of `Write`, `Append`, `Clear`, `Read`,
`Copy` or `Delete` is `Begin`, `Acquire` (the locker, used by its contract
`KeyLock`), the operating system calls one by one, `Finish` (the deferred `Close`
and `Unlock`) and `Return`. `CreateIfNotExists` (`StatFile`, `CreateExclusive`),
`DeleteAll` (`ListDir`, `UnlinkNext`, `RemoveDir`) and another `NewFileHandler` for
the directory (`MakeBase`) take no lock, as in the code, and run in between.
`os.MkdirAll` of `Copy`, and its `os.Create` of the destination, are there too.

The file system is external: a name leads to an inode, an unlinked inode lives on
for those that have it open, data moves chunk by chunk, every call may fail, and
an operation that fails in the middle leaves what it did. Left out are the
contents of `Copy`'s destination, on which nobody has a lock, the reads `Exists`,
`List` and `Path`, and spellings of names.

`FileStore` is what remains of this for a caller: a call that succeeds takes
effect at one moment between its start and its end; one that fails may leave a
prefix of its data; `DeleteAll` removes files one by one, and calls that are
writing to a file then write to one that nobody sees any more. Copies'
destinations are not part of the promise.

### State

A `State` is a reference to a Go map or nil, as in the code; assigning one
shares the map, `cloneMap` allocates, and a map that nobody refers to is
collected. `AddAll` is given the map that `State.Values` returned, to which its
caller may write as well. Of an empty state that is nil, and a caller who writes
to it panics in its own code; such callers are left out. `StateValues` has no
references: its states, its builder and its map are functions, and its
`MergeStates` takes for each key the last value there is. That what a later task
did not touch also overwrites what an earlier one changed is part of that
definition: the documentation promises that later states win, and no more.

### HttpClient and Middleware

`HttpClient` has the variables and actions of one call: it prepares the request,
sends it, gets a header or not, reads (`Do`) or hands out the body (`DoStream`).
The server may answer, break off or be silent for ever. `RequestOptions`' timeouts
are not there, because the code never applies them: only the context ends a call.

`Middleware` puts such a call at the bottom of a sequence of wrappers, the
outermost first. Control goes `Down` through the layers (`Arm` starts a
timeout's timer, `NextTry` is the look at `ctx.Err()` before an attempt), runs
the task (`RunTask`), and comes `Up` (`LeaveLayer` stops a timer, or decides on
another attempt). A task that streams yields any number of items, through all
layers, to a reader that takes its time (`ReaderReturns`). `WithRetry` gives a
`MultiValuedTask` back unwrapped, so that it is no layer of one. The caller's
context may end at any moment; `Reasons(d)` is why the context below the first
`d` layers is done. `GivesUpOnlyWhenTold` compares the number of runs with
`Runs[0]`, the product of the attempts of all retry layers.

### ConsulClient

`Fetch` reads for each template the base key and, under a profile, the profile's
key; others write to the keys meanwhile (`Write`), and any read may fail, for the
whole call. A parsed document is a map from `Fields` to leaves and to such maps
again, nested at most `MaxDepth` deep. `Strings` are the fields that are strings. The
document itself has no others (`ParsedMaps`), because it is decoded into a
`map[string]any`; a mapping inside of it that has another, a `404` say, is decoded
into a `map[any]any`, and `DeepMergeMaps` merges only maps of the first kind
(`MapsMeet`, `merge.go:17-18`). Where one of two maps is of the second, the override
replaces the base's whole, and settings of the base that the override says nothing
about are lost.
`DeepMergeMaps` is a recursive function on pairs of them, as it is a recursive
function in the code, and `MergeKeepsSettings` compares it with a definition path by
path: `Walk` follows a path through a map, and `IsMerge` says what must be found
there, without recursion into two maps at once: what the override has, and what the
base has but for what is inside a node that the override replaces (`Replaces`).
`DeepMergeYAML` is called on its own, with the pairs of documents in `Merges`.

### MCPackages

State, middleware, Consul client and striped locker do not use one another. One
run checks all: a behaviour is one of a program that uses one of them (`part`), and
the variables of the others keep their initial values. The module EXTENDS the four,
so that the run's properties are the definitions the theorems are about, and TLC
evaluates the assumptions of all four; their names are therefore distinct
(`TaskInit`, `ConsulNext`, `StripedSpec`, `AllNames` ...).

## 3. Runs

| Run | Instance | Shows |
|---|---|---|
| `merge` | 3 tasks (a fatal SimpleTask, a fatal and a non-fatal MultiValuedTask), 2 slots, up to 2 states each (plus a resumed one), caller cancelled or timed out at any moment or before the start | safety, `ParallelLevel` and `AbortTerminates`, 1.2 million states |
| `merge_lost` | 2 tasks, unbounded | violation: see finding 1 |
| `merge_first_failure` | the same | violation: finding 2 |
| `collect` | the same 3 tasks on an errgroup of 2, ordered and zipped; results of sizes 1, 0 to 2 and 0 to 3, so up to 6 combinations | safety, `ParallelLevel` and `AbortTerminates`, 66 thousand states |
| `chain` | all chains of up to 3 levels of 5 kinds, 2 states per upstream state, 2 branches, 4 terminals | safety, 10 million states |
| `chain_returns` | up to 2 levels | `Returns`, 99 thousand states |
| `chain_terminated`, `chain_nonfatal` | up to 2 levels | violations: findings 3 and 4 |
| `locker` | 3 goroutines, 2 keys, 2 entries, calling for ever | safety, `KeyLock` and `NoStarvation`, 68 thousand states |
| `files` | 2 goroutines that make any of 9 calls on a file, a copy's destination and their directory; data of 2 chunks, files of up to 3 | `FileStore` and `EveryCallReturns`, 294 thousand states |
| `packages` | states: 2 variables, a builder and a given map over 3 maps; tasks: all 15 ways to wrap up to 3 times, 2 attempts, streams without end; Consul: up to 2 templates, 4 documents, 1 write during a fetch, to merge all pairs of 101 documents (2 fields that are strings and a third that is not, maps in maps, one value on either side); striped: 3 goroutines, 2 keys, 2 slots | `StateValues`, four properties of the middleware, two of the Consul client, `KeyLock` and `StripedNoStarvation`, 154 thousand states |
| `state_terminate` | the same states and builder | violation: finding 5 |

Why the bounds are enough. Three tasks on two slots is the least instance in
which one task queues while two others fail at once or send at once; two states
per task the least in which a state can be lost in the middle of a task's output,
and sizes 2 and 3 the least in which the odometer wraps one digit and carries into
another;
three levels the least in which a level has loops both below and above it that
are not the terminal. Two goroutines that wait on one entry while a third deletes
or makes another cover the interference on the map of locks; an entry outside the
map is referred to only inside the map's mutex, so two entries serve two keys.
Two goroutines suffice on files because what has no lock interferes with one
call at a time; a file of one chunk more than a `Write` has lets an `Append` find
something, run into the end of the disk half-way, and be seen by a reader. Sharing
a map is between two references, so that three maps for four references leave out
only states in which nothing is shared. Three layers are the least with a timeout
between two retries and a retry between two timeouts. One write between two reads
makes a mixture of versions. The documents that are merged have a map where another
has a leaf, and the other way round, and maps with the third field and without; the
base's leaves differ from the override's, so that every leaf of a result shows where
it comes from. Those that are fetched have one pair of maps that is merged and one
that is not.

The bounds on counters are `MaxEmit` and `MaxLevels`, `MaxLen` for the chunks of
a file, `MaxWrites` for those of a Consul key, `MaxDepth` for the nesting of its
documents, `MaxLayers` for that of wrappers; `Spares` and `Refs` are memory.

Each property has a mutant in `PROJECT.json`: a slip in the code (a missing drain,
`wg.Add` left to the goroutine, an off-by-one in the semaphore, a forgotten
`return` after an error ...) that the run notices. The slips stand in a section of
their own in each module and are not part of its specification.

### Fairness

- `MergeUnordered`: weak fairness of the stream function, of the closer and of
  the engine's part of every goroutine: the Go scheduler runs what can run. The
  reader's loop body is assumed to return. Nothing is assumed of a task while its
  context lives; once the context is done it is assumed not to block, which is
  what the engine's cancellation relies on.
- `CollectParallel`: the same, for the stream function and the engine's part of the
  goroutines. `AbortTerminates` holds of the loop that is still starting tasks as
  well: those that start late find their context done.
- `Chain`: weak fairness of the one thread of control and, for every level, of the end
  of branches that are not sending and of the way out of the select for those that are
  (`BranchGivesUp`, enabled only when their level is cancelled). Tasks are assumed to
  end; they yield at most `MaxEmit` states. Nothing is assumed of a branch that sends
  while nobody receives and its level is not cancelled: it waits for ever, and
  `Returns` says that this does not happen. Its mutant waits for the branches, but
  neither cancels nor drains.
- `LockerPerFile`: weak fairness of what cannot be overtaken; strong fairness of
  taking `locker.mu` and of becoming the next writer, since `sync.Mutex` hands
  itself over to a waiter that has waited for a millisecond; holders unlock.
- `LockerStriped`: the same; strong fairness only of a writer's announcement, by
  which it excludes other writers.
- `FileHandler`: weak fairness of a call's own steps, system calls return; strong
  fairness of `Acquire`, which is what `NoStarvation` says of both lockers.
- `Middleware`: weak fairness of the code, of a reader that returns from an
  item, of timers, and of the end of a request or read whose context is done,
  which `net/http` promises; strong fairness of the latter for streams
  (`StreamInterrupted`), since what was received before the context was done is
  finite. Streams are not bounded otherwise, so that `TimeoutBounds` does not
  hold because they run dry. The server may be silent for ever, the caller's
  context need not end.
- `State` and `ConsulClient`: none; their properties are safety.

## 4. Findings

1. `merge_lost` (`execution_chain.go:563`). When the caller's context ends, the
   goroutines that are sending or queueing return without recording an error. If
   no task reports the cancellation itself, the stream ends cleanly: `Collect`
   returns some of the states, or none, and a nil error, though it is documented
   to return "every emitted state".
2. `merge_first_failure` (`execution_chain.go:668`). `joinTaskErrors` takes every
   `Canceled` and `DeadlineExceeded` for noise. A task whose own context error (the
   deadline of its `WithTimeout`, say) was the first failure, on a live context, is
   left out of the joined error when a sibling fails genuinely afterwards.
3. `chain_terminated` (`execution_chain.go:286`). Only `appendLevel` looks at the
   termination flag; the first level runs on a terminated initial state.
4. `chain_nonfatal` (`execution_chain.go:501`). After a non-fatal error the
   previous state is to flow through "as if the task never ran"; what a
   multi-valued task yielded before it stays in the stream.
5. `state_terminate` (`state.go:106`). "Terminate returns a copy of this state
   flagged as terminated", and the zero `State` is documented to be "a valid, empty
   state". `cloneMap` of an empty map is nil, so `ToBuilder` of an empty state has no
   map, and `Terminate`, which assigns to it without `SetValue`, panics.

## 5. Proofs

`MergeUnorderedProofs` proves, for every number of tasks (at least two), every
choice of simple and fatal tasks, every bound on emissions and every
concurrency, from `LevelAssumption` alone:

- `TypeCorrect`, `ConcurrencyIsBounded`, `ChannelIsSafe`, `NothingOrphaned`,
  `CleanEndIsComplete`, `FailuresSurface`: all the safety properties of run
  `merge`;
- `Refinement`: `Spec => ImplementsLevel`, that is, every behaviour is one of
  `ParallelLevel`.

The properties are not inductive: that the channel is closed over finished
goroutines only follows from the WaitGroup counting exactly the goroutines that
have started and not finished, and from the loop having started all before the
closer exists. `IInv` has one part per mechanism: `Counting` (loop, WaitGroup,
close, return), `Slots` (the semaphore holds exactly the tasks between their
acquire and their release), `Causes` (the context is done only if the caller's
is, or a failure was recorded, or the reader stopped), `Errors` (`errs` holds
exactly the failed tasks that are past the append), `Delivery` (until the context
is done, the reader lacks of each task at most the state it is sending). Each part
has a lemma with one step per action. `CompleteStep` and `SurfaceStep` then argue
only about `Finish`: a stream that has returned does not move
(`ReturnIsFinal`), and nothing else ends it (`OnlyFinishEnds`).

`CollectParallelProofs` proves, from `CollectAssumption` alone:

- `TypeCorrect`, `ConcurrencyIsBounded`, `NothingBeforeTheBarrier`,
  `FailuresSurface` and `OutputIsInOrder`: all the invariants of run `collect`;
- `Refinement`: `Spec => ImplementsLevel`, for both kinds of output.

Its invariant: `Counting` (the loop has started a prefix of the tasks, the
errgroup counts those that are not done), `Slots` (and never more than its limit),
`Errors` (`errs` holds exactly the failed tasks past the append), `Harvest` (what a
goroutine that is past its task has gathered is stored, or its error recorded),
`Position` (the enumeration stays inside the results). `AllDone` draws from
`Counting` that no goroutine moves once `Wait` has returned, which makes the
enumeration sequential: `Barrier` then follows from `Errors`, `Harvest` and
`FatalErrorsSurface` together, and is what the refinement needs to know that the
reader never gets a state that was not made, and at a clean end has got all.

`OutputInOrder` says in which order: grouped output lists the tasks one after the
other, and the combination given as the n-th is the number n - 1 in the mixed base
whose digits are the tasks' states. The invariant `Order` adds where the enumeration
stands (`Listing`: all before one task and nothing after it; `Turning`: what the
odometer reads). The step of `NextCombination` is the carry: the digits behind the
one that advances are all at their highest, and so many of them as there are weigh
together one less than a unit of that digit. `Before` and `Weight`, the sums and
products in this, are recursive functions, shown to satisfy their equations by
induction on the number of tasks.

`LockerPerFileProofs` proves, for every finite set of goroutines and any keys and
entries, from `LockerAssumption` alone:

- `TypeCorrect`, `LocksStay`, `NothingLeaked`: the invariants of run `locker`;
- `OneWriterOrReaders`: the mutual exclusion that `KeyLock` states;
- `Refinement`: `Spec => ImplementsKeyLock`.

Its invariant is again one part per mechanism: `MapMutex` (who is inside
`locker.mu`), `Counted` (`refCount` of an entry is the number of goroutines
between the count in `Lock` and the one in `Unlock`), `EntryInv` (what a
goroutine refers to is its key's entry, no entry has two keys, every entry in the
map has a user or is about to be deleted), `RWInv` (who has which RWMutex). The
heart is the step of `Reap`: a count of zero means, by `Counted`, that nobody
refers to the entry that is deleted, and `MapMutex` excludes that somebody else
is half-way through an `Unlock` of it.

`ChainProofs` proves, for chains of any length, any number of branches and any
bound on emissions, from `ChainAssumption` alone, `TypeCorrect`, `StopsAreHeard`,
`ErrorsAreLast`, `EverythingIsUsed`, `ExecuteIsExact`, `EmptyLevelsFail` and
`BranchesEnd`: all the safety properties of run `chain`. Its invariant: `Nesting`
(the levels that have begun and not ended are those below control, and what each
waits for), `Branching` (branches run at a level that is at its task),
`Emitting` (what a level has yielded and what its branches wait to send stay within
the bound together), `Stopping` and `Erring` (a stop or an error on its way has reached
everyone below it, and comes down to everyone: after an error the level that
control comes back to has yielded an error itself), `Using` (what was yielded was
handed to a level that was begun on it, or received, but for the state that is on its
way up). `ErrorsAreLast` says that after an error no level is begun on another state and
no state is yielded; it says nothing about the tasks of branches that were launched
before, which may still start. The lemmas `DownStep`,
`UpStep`, `EnterStep`, `YieldStateStep` and `YieldErrorStep` treat the ways control
moves, and one lemma per group of actions puts the parts together. That levels
stop when they are told to is one implication of `Stopping`; what it takes to prove
it is that control never turns from "no" to "yes" on its way down.

`FileHandlerProofs` proves, for any goroutines, names, calls and files of any length,
`TypeCorrect` and `Refinement`: `Spec => ImplementsFileStore`. Its hypotheses are the
module's assumptions. `HandlerAssumption` says what calls there are: names for those
that have one, data that is not empty for those that write, and a copy's destination
that no other call reads or writes, since nothing locks it (see `FileHandler`).
`SparesAssumption` says that a directory has an inode left for a new file; operating
systems report that they have none by a failure, which every call may meet anyway.
The invariant `IInv`: the types; `OwnInodes` (an inode belongs to one name for good);
`Exclusion` (who has one name's lock has it alone or among readers); and for every
call `CallOK`: which places its operation comes by, when it has a file open and of
what name, that a writer's file holds what it found and a prefix of its data
(`WriterOK`), and that a reader has read a prefix of its file (`ReaderOK`). They need
each other: a prefix stays one because nobody else writes to the inode, which follows
from the lock of the name the inode belongs to; and `CreateIfNotExists`, `DeleteAll`
and a second `NewFileHandler`, which take no lock, only change which inode a name
has. After what each system call does to names and inodes there is a lemma per step
of the handler, that it keeps `CallOK` of its own call and of the others
(`CallFrame`), and one that names the step of `FileStore` that it is, or that it is
none.

`WorkflowProofs` proves, for any variables, names, values and maps, from
`StateAssumption`: `StateRefinement`, that `State` implements `StateValues`. The
invariant is that the two maps that are ever written to, the builder's and the one
`Values` returned, have one holder each (`StatesAreNotWritten`); maps that states share
are never written. `OverlayThrice` shows that three `AddAll` on an empty builder leave
the last value of every key.

It also proves, for every nesting of timeouts and retries, any depth and any number
of attempts from two, from `MiddlewareAssumption`: `NothingIsHeld`, `RetriesStop` and
`GivesUpLast`, all the safety properties of the middleware. The invariant of the first
two is where the goroutine is in its layers (`Shape`), which bodies and timers there
are then, and that a late attempt is followed by a retry layer that is about to look
at its context (`Stopping`). `GivesUpLast` needs to know how many runs the failed
attempts stand for: the attempts of the layers are the digits of a number, `Runs`
their weights, `Spent[d]` what the layers down to `d` amount to. `Counted` says that
`tries` is that number at every place of the goroutine, or at most that number if
the caller's context or a timeout outside of a retry has cut it short (`Told`);
`Attempting`, that the digits are below the base and nothing inside of a retry makes
its context done. Refusing, failing, giving up and trying again have a lemma each.

`ConsulClientProofs` proves, for any templates, fields, values and depth of documents,
from `ConsulAssumption`: `SettingsAreKept` and `ConfigsAreReal`, both properties of the
Consul client. `DeepMergeMapsIs` shows by induction on the depth that the recursive
function satisfies its equation; `MergeIsMerge` then follows a path through base,
override and merge at once and distinguishes four cases: both maps go on, only the
base does, the override has taken over, there is nothing more. The override takes over
where the two are not both maps with string keys only, and `SettingsAreKept` says that
of the base's settings just those inside of such a node are lost. The invariant of a
`Fetch`, `ConsulInv`: every key's document is among those remembered, what the result
has are merges of remembered documents, of exactly the templates before `next`, and the
base document that waits for the profile's is one of this template's.

`LockerStripedProofs` proves `Refinement`, that the striped locker implements `KeyLock`,
and `OneWriterOrReaders`, the mutual exclusion that `KeyLock` states, for
any goroutines, keys, slots and every hash, from `StripedAssumption` (there is a key,
and no goroutine is called `None`). The invariant says who has which RWMutex.

Induction. The library's induction theorems take a formula as a parameter, which the
provers at hand cannot instantiate. The proofs about recursive functions therefore
use a lemma about sets (`Induction`: a set that contains 0 and with every number its
successor contains all), which follows from the well-foundedness of `<` on the natural
numbers and the theorem that every set has a minimal element.

Model-checked only: liveness (`AbortTerminates`, `Returns`, `NoStarvation`,
`EveryCallReturns`, `TimeoutBounds`, `StripedNoStarvation`), which this prover does not
reach. All the safety properties of the passing runs are proved: the runs show them
on small instances, with their mutants, the theorems for every value of the
constants. That `Lock` always finds an entry to allocate (the set `Entries` is finite in
the run, memory is not) matters to `NoStarvation` only.

## 6. Not modelled

- `tavily/` is one synchronous call of the HTTP client with its settings read from
  the environment; what can happen in it happens in `HttpClient`.
- `logger/`, `metric/` and `utils/` are single calls without state that anyone
  reads back.
- `apperror/` keeps one package variable; that `Ensure` before `Configure` returns
  an error that `Ensure` would not accept is a matter of two calls.
- `GetResult` and the `With*` setters of a chain are reads and assignments made
  before it runs. Panics of tasks end the program.
- Of the file handler, the contents of a copy's destination and names that are
  spelled in two ways: see `FileHandler`. Of the Consul client, the resolution of
  the host is one choice (`NewClient`).

What would come next: a run of `chain` in which levels are middleware, to see timeouts
across levels.
