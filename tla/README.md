# A TLA+ model of IronAccelerator

IronAccelerator is a set of Rust crates over the GPU and NPU runtimes of several
vendors. Most of it is FFI: one call of the crate is one call of a driver. What can
go wrong in an interesting way is what the crates add to the drivers: caches of
device memory, of kernels and of library handles that threads share; staging buffers
that the host refills while a DMA reads them; worker threads with raw pointers into a
caller's memory; resources that must survive until an asynchronous device is done
with them; constructors of several driver objects, any of which may fail; tables
loaded once by whichever thread comes first; and ordinals that name a device in one
enumeration and are looked up in another. These modules model that part. TLC checks it
on small instances, and TLAPS proves the safety properties for all instances.

All paths below are relative to `src/crates/`; `cuda` is `ironaccelerator-cuda/src`.

## Inventory

The components, what they keep, what they do and what makes them correct.

| Component | State | Operations | Correct when |
|---|---|---|---|
| Memory pool, `cuda/pool.rs` | a front cache per thread, a mutexed bucket per size class, the blocks in use | `alloc`, `alloc_zeros`, drop of `PooledBuf`, `into_inner`, `shrink`, drop of the pool | a block has one owner, none is lost, a block is as large as its buffer says, retention is bounded |
| Streams and host copies, `cuda/drv.rs` | the GPU's queue, a ring of pinned slots with events, its mutex | `copy_from_host` (direct and staged), `_sync`, `_blocking`, `copy_to_host_blocking`, memsets, `synchronize`, `drain`, drop of `Stream` | a slot is not overwritten before its DMA, blocking copies keep program order, calls return |
| Order between streams, `cuda/{drv,graph}.rs` | commands on several streams, events, a capture, a graph | copies, memsets and launches on a stream, `record`, `wait_for`, capture, `instantiate`, `launch`, stream-ordered alloc and free | a command finds its memory mapped and its sources as program order has them |
| Copy pool, `cuda/drv.rs` | worker threads, a channel each, a counter per call | `wide_copy`, `prefault` | no worker touches memory of a call that returned, every byte is written once, no lost wake-up |
| Kernel cache, `cuda/kernel.rs` | a map per process, a directory of PTX files shared by processes | `get_or_compile`, the disk cache's load and store | one module per key, the right image, no half-written file is published |
| Library handles and plans, `cuda/{blas,cudnn,cusolver,cusparse,cutensor,fft,rng}.rs` | a handle per device and library with the stream it is bound to, a map of FFT plans | `handle_for`, operations on a handle, the plan cache | one handle per device, an operation runs on the caller's stream, a plan's stream is alive |
| Devices, modules, events, launches, `cuda/{drv,launch,peer,events,advanced}.rs` | contexts and handles | RAII wrappers | whatever step fails, no object is lost or released twice; work finds its device's context; a handle outlives what refers to it |
| Collectives, stream pool, `cuda/{nccl,streams}.rs` | communicators, an open NCCL group, a cursor | `from_devices`, collectives, `group`, `next` | brackets are closed on every path |
| Pinned pool, `cuda/pinned.rs` | slabs per size class, two counters | `acquire`, drop of a slab | a slab has one owner and is at least as large as asked |
| Profiler, `cuda/profile.rs` | a bounded event buffer, a switch, pending GPU spans | spans, marks, `flush_gpu`, `clear`, `set_capacity`, `chrome_trace` | no event lost uncounted, spans resolved to one track, separators right |
| Metrics, CUPTI, `cuda/{observe,cupti}.rs` | counters, an activity buffer | `snapshot`, activities | - |
| Loaders, `ironaccelerator-cuda-sys`, `-rocm-sys`, `-qnn-sys`, the `drv.rs` of the others | the memoised function table, the initialisation's result, the published pointer | `fns`, `ensure_init` | one answer for all callers, none before the initialisation; nested initialisers never wait for each other |
| ROCm, `ironaccelerator-rocm` | mutexed lists per size class, a kernel cache, handles per device | pool, `get_or_compile`, `handle_for`, objects | pool, kernel cache and objects as their CUDA counterparts; `handle_for` is not: it inserts without a second look at the map (Findings) |
| Compute contract, `ironaccelerator-core/src/compute.rs` | buffers, kernels | `alloc`, `upload`, `download`, `dispatch` | an operation has its effect once, between call and return, and none after an error |
| Direct3D 12, Vulkan, Level Zero, OpenGL, Metal | command lists, fences, staging buffers, descriptor sets | implement the contract | nothing in use by the device is released or re-recorded |
| WebGPU, TPU, FPGA, Neuron, QNN | a loaded library, models and graphs | probe, enumerate; load and create | an ordinal names one device |
| Registry and runtime, `ironaccelerator-core`, `ironaccelerator` | a vector of backends | `register`, `describe_all`, `capabilities` | an ordinal names one device |

How they interact: every CUDA component runs on a `Stream`, which its users keep alive
by `Arc`. The memory pool allocates and frees in stream order and hands out
`DeviceBuf`s, whose copies use the stream's staging ring; the staged copy fills a
pinned slot with `wide_copy`, and a blocking read touches its destination with
`prefault`, both on the one copy pool of the process. A `PooledBuf` or a pinned slab
goes back to its list at once, without a command on any stream, while the GPU may
still have work on it. The kernel cache and the library handles are process-wide and
shared by all threads. Every wrapper reaches the driver through a table that the
first caller loads, and most rely on a context that is current on the calling thread.
The runtime talks to a backend by ordinals only. Nothing calls back.

What is hard about it: any thread may drop what another allocated; the GPU runs what
it was given at any later time, each stream for itself; the blocking copies do not go
through the stream at all; locks are released between the lookup and the insert of
every cache; the PTX directory has no lock and survives the processes; any driver call
may fail, at a point where half of the work is with the device; a thread's current
context is left over from whatever it did before; adapters come and go between two
enumerations. `PROJECT.json` lists each hazard with its line and the properties that
cover it.

## Modules

| Layer | Modules | Composition |
|---|---|---|
| Pools | `RecyclingAllocator` (abstract); `MemPool`, `BucketPool` | both pools implement `RecyclingAllocator` |
| Copies and order | `StagedCopy`, `CopyPool`, `StreamOrder` | - |
| Caches | `KernelCache`, `LibraryHandles` | - |
| Compute contract | `ComputeDevice` (abstract); `GpuWork` with `VulkanDevice`, `Dx12Device`, `LevelZeroDevice`, `ImmediateDevice` | `ComputeDevices` instantiates the four over one client and implements `ComputeDevice` |
| Loading and ordinals | `LibraryLoading`, `DeviceSurvey` | `DeviceSurvey` extends `LibraryLoading` |
| Driver objects | `CallSteps`; `CudaCalls`, `LibraryCalls`, `VendorCalls`; `CallSequences` | `CallSequences` runs the three tables of operations |
| Profiler | `Profiler` | - |

`MC_*` modules give TLC its instances, `*_proofs` modules hold the theorems; three of these
prove about two components each, whose definitions therefore have names of their own
(`ProfilerSpec` beside `Spec`). Where
threads interleave, a variable `pc` (or `at`) says where in its call a thread is; an
action is what a thread does between two points at which another thread, the GPU or a
crash can interfere.

### RecyclingAllocator, MemPool and BucketPool

`MemPool`'s state: `allocated` and `size` are the driver's blocks and their sizes; `bufs`
the `PooledBuf`s that exist; `plain` the blocks taken out of the pool by `into_inner`;
`cache[t]` the front cache of thread t and `cache[Shared]` the buckets. Alloc is
`AllocFromFront`, or `AllocMissFront`, `AllocFromBack`, `AllocFromDriver` with other
threads in between; a drop is `DropIntoFront`, or `DropMissFront`, `DropIntoBack`,
`DropToDriver`. A cache is a set of blocks, since no property depends on which cached
block is popped. `shrink` and the pool's drop take `&mut self`, so the guard
`Unborrowed` says no buffer exists and no call is under way; this is what the borrow
checker enforces. `BucketFor` states the size class by what it is (the smallest that
holds the request), and `MC_MemPool` assumes, for TLC to evaluate, that the code's
bit-length formula computes it.

`BucketPool` is ROCm's `MemPool` and CUDA's `PinnedPool`, which have one mutexed list per
size class; `kind` says which a behaviour is of. ROCm's lists are capped, a request above
the largest class bypasses them, and the byte size of a request wraps at the word;
`PinnedPool`'s only grow, and a request above the largest class shares its list. Both are
shared by `Arc`: `handles` are the threads with a clone of it, and whoever goes last, a
handle, a buffer or a call, gives the lists back.

`RecyclingAllocator` has two sets, memory obtained and memory held, and four actions.
The refinements map `mem` to what the driver has given and `held` to the blocks of live
buffers. A drop that has begun has given up its block already; a block between the
tiers is memory nobody holds.

### StagedCopy

State: `queue` is what the GPU has still to run, each command with the data it is meant
to write and, for a staged chunk, the slot it will read (`Carried`: what the slot holds
when the command runs, not when it was enqueued). `slot`, `armed`, `event`, `cursor` and
`lock` are the ring; `event[s]` counts the commands still to run before the event of slot
s fires; `ahead[c]` is the same for a caller that synchronizes. `expected` is a history
variable: what the calls made so far, in order, would have put in each buffer. A staged
copy is `StagedCall`, `StageRing`, `LockRing`, then per chunk `NextChunk` (with
`SlotDrained` when the slot is armed), `WideCopyDone`, `EnqueueChunk`, `RecordEvent`, and
`StagedReturn` or `StagedSync`. A slot being filled is `Torn`. `Fail` is the `?` of each
driver call; `MayFail` says at which places it may happen. `Close`, `CloseDrained` and
`FreeRing` are the drop of the `Stream`. The GPU and what a DMA carries are external: a
CUDA stream runs its commands in order, one after the other.

### StreamOrder

What `StagedCopy` does for one stream and the bytes of its ring, `StreamOrder` does for
several streams and whole buffers. `queue[s]` holds the commands of stream s, which run
in order, the streams in any order relative to each other, except that a wait at the
head of one runs only when the record it is for has run. `mem[b]` is which write b's
memory holds (or `Unmapped`), `want[b]` which one program order says. A command carries
what it should leave (`leaves`); `wrong` collects the commands that found memory
unmapped or left something else. `Owned` buffers (`DeviceBuf`) are allocated and freed by
commands on their stream, `Pooled` ones (`PooledBuf`) go from list to buffer and back with
no command at all, and `Slabs` are host memory. A capture collects steps instead of
enqueueing them, `EndCapture` makes them a graph, `GraphLaunch` runs its steps as one
command.

The wrappers do not order the commands of different streams; the safe methods let a
caller copy from a buffer another stream is writing. So the model's callers do their
part: `Ordered` and `MayDrop` say that a stream comes after the commands in flight on
the buffers before they are touched or dropped, `Idle` that nothing is in flight on host
memory when the host touches it or gives it up. `after[s]` is what the next command of s
comes after, through its own queue and through the events it waited for; it is a
history variable only these guards read. One capture or graph exists at a time, no
memory is allocated or freed on a stream under capture, and no work is recorded into a
graph by a stream other than the captured one.

### CopyPool

State: per caller its place, the slice it is about to hand out and its counter
`pending`; per worker its channel and the job in hand. `dst[c][u]` says which thread
wrote unit u of c's range, so that a unit never written, or written twice, shows. The
counter goes up before the job is sent and down by the worker after the copy, and the
notification is a separate step after the mutex is released, as in the code. `Exit` is a
worker that is gone (a thread the process no longer runs); its channel is closed and
`SendToGone` is the code's error branch. `prefault` divides and waits exactly as
`wide_copy` does and is covered by the same actions, except that below its threshold it
returns without writing anything.

### KernelCache

State: `cache[p]` is the map of process p; `path` and `tmp` are the names in the directory
and `content` the inodes, so that a writer with an open file goes on writing after
another has renamed it. `Call`, `Hit`/`Miss`, `Load`, `Compile`, `OpenTmp`, `WriteTmp`,
`Rename` (or `StoreFails`), `LoadModule`, `Insert` are the steps of `get_or_compile`; each
failure is an action or a disjunct. `Crash` kills a process at any step: its threads and
its map are gone, the files stay. `overlap` is a history variable: the files two calls
have been storing at once. A request names a device, a source, the architecture its
options ask for (or `NoArch`) and a function; `ArchFor` is the option's, or else the
device's, and it and the options are in the key, the device is not. The source text and
the other options are one value, and a hash has no collisions.

### LibraryHandles

State: `handles[l][d]` is the map of library l, `plans` the `FftPlanCache`, `bound[n]` the
stream the n-th handle or plan created is bound to. A stream is its raw value and which
of its lives it is; `Alive` follows the `Arc`s (the threads' and the plans'), and
`OpenStream` may give out any raw value no live stream has. `Binding` are the libraries
that run an operation on the stream their handle is bound to (cuDNN, cuSOLVER,
cuSPARSE), `Passing` those that are told it (cuBLASLt, cuTENSOR). `handle_for` is
`Borrow`, `HandleHit` (lookup and bind under one lock), or `HandleMiss`, `CreateHandle`,
`Adopt`, `Bind`; `get_or_insert` is `WantPlan`, `PlanHit`, or `PlanMiss`, `BuildPlan`,
`InsertPlan`. `rebound` is a history variable: the threads whose handle another has bound
since they did. ROCm's `handle_for` is not an instance: it has no second look before the
insert (the mutant `AdoptOwn` is what it does), and `SameHandle` is not claimed of it.

### ComputeDevice and its five implementations

`ComputeDevice` is the trait's promise: a call is invoked, has its effect once, and
returns, or returns an error with no effect to come. A download's result is what the
calls before it made of the buffer. OpenGL's `dispatch` may return first (`blocks`):
the effect then comes later, in the order of the thread's calls.

`GpuWork` is what the backends share: `call`, `pc`, `mem`, the staging buffer of a call,
the commands of the queue with the fence values they signal, the one command list, the
descriptor binding of a pipeline, and the GPU's two steps. Each backend module gives
`CallStep`, its path through allocate, record, submit, wait, read and cleanup with the
early return of every call that may fail: Vulkan allocates a command buffer per call
and waits until the queue is idle, Direct3D 12 reuses one list and spins on a fence value,
Level Zero closes, executes, synchronizes and resets one list, OpenGL and Metal are
immediate. `ComputeDevices` puts threads, buffers and drops around them. A descriptor
set, a fence value and a command list are modelled as the code keeps them, so a call
that leaves early leaves them as the code does.

### LibraryLoading and DeviceSurvey

`LibraryLoading` is a call's way to its library through up to three memos (`Once`), each
filled by one thread inside a closure while the others wait: `FNS`, the table, filled by
`TryCandidate` on one name after another, with the verdict each backend passes on a
library that is absent, incomplete or broken; `INIT_DONE`, CUDA's `cuInit`; and `INIT` of
`ensure_init` (Vulkan's `INSTANCE`). The third is held while the first two are filled or
waited for, so a call claims `ensure`, then goes inside it (`Inside`) through `LookHot`,
`table`, `init` and `Publish`, where `FNS_HOT` is stored, to `create`, where the closure
ends; `fns` alone goes through them outside it. `stage` says where a call is: under a
memo's name it waits or claims, under `load`, `cuInit` and `create` it is at work in a
closure. `After` is where it goes on from each. A caller that finds the table published
takes it without looking at the memos. The `OnceLock` a library is kept in (`LIB`), and the
`LazyLock` below QNN's slot, are reached from inside the table's closure only, so nobody
waits for them, and they are part of it.

`DeviceSurvey` adds what comes after: the enumeration
(`Listing`), the description of an ordinal (`Described`) and its opening (`Opening`), each a
walk of its own with its own filter, on a `machine` from which an adapter may go
in between. A `weak` adapter is what a filter is about; in ROCm it is a device that opens
and then fails a query, for which `enumerate` has a default and `capabilities` an error.

### CallSteps, CudaCalls, LibraryCalls, VendorCalls and CallSequences

The wrappers' operations are sequences of driver calls with a `?` after each. The three
tables write down 112 of them in the vocabulary of `CallSteps`: which object a step makes
(`Make`), when it moves into a value whose `Drop` releases it (`Own`), what an error path
releases by hand (`CallElse`), whether a step needs the device's context (`MakeHere`,
`CallHere`) or binds it (`Bind`). `CudaTypes` and the like are the structs: whether a
field keeps the value they were made on, and what their `Drop` releases.
A panic is modelled in one place, the closure of NCCL's `group`, which it leaves open.
`CallSequences` is the machine: the caller makes values in a `line`, each on the one
before it, drops its handles in any order, switches to threads with another current
context, and starts any operation on the last value; each step succeeds, or fails and
returns with its local values dropped.

### Profiler

`events` is the buffer, `enabled`, `capacity` and `dropped` the atomics. A push reads the
capacity before it takes the lock (`hand`), and a clear empties the buffer and then resets
the counter; both are two steps with others in between. A GPU span is a number with two
timing events on the `stream`, which the device reaches in order; `flush_gpu` resolves
those it has reached and stitches the track anew. `erased` is a history variable: drops
counted while a clear was under way, which its second step forgets.

## Runs

| Run | Shows | Bounds | Distinct states |
|---|---|---|---|
| `mempool` | `UniqueOwner`, `NothingLost`, `CacheBound`, `BlockCoversRequest`, and that the pool implements `RecyclingAllocator` | 2 threads, 4 blocks, 2 size classes, 1 block per cache | 44,482 |
| `bucket_pools` | `EachBlockOnce`, `BlockCoversRequest`, and that both pools implement `RecyclingAllocator` | ROCm and pinned, 2 threads, 3 blocks, 2 size classes, lists of 1 | 7,327 |
| `staged_copy` | `SlotIntact`, `TransferInProgramOrder`, `SyncCopyArrived`, `AwaitedIsUnderWay`, and `CallsReturn` under fairness | 2 callers, 2 slots, 3 chunks, 1 writing call each | 24,389 |
| `copy_pool` | `NoJobOutlivesCall`, `ReturnsCopied`, `PagesDisjoint`, `SleeperAwaited`, and `CallsReturn` under fairness | 2 callers, 2 calls each, 2 workers of which one may be gone | 90,546 |
| `stream_order` | `ProgramOrder` | 2 streams, 1 event, a `DeviceBuf`, a `PooledBuf`, a slab, 4 commands | 210,462 |
| `kernel_cache` | `SameModule`, `RightImage`, `TornOnlyByOverlap`, `EntriesStay` | 2 threads in one process and 1 in another, 2 devices, 2 architectures, one of them also asked for by the options, 2 functions, 1 crash | 869,438 |
| `kernel_cache_store` | violates `PublishedWhole`: two calls store one file | as above | stops early |
| `library_handles` | `SameHandle`, `RebindOnBorrow`, `PlanOnOwnStream` | 2 threads, 2 devices, a binding and a passing library, 1 shape, 2 raw values for 3 streams, 3 objects created | 1,758,728 |
| `compute_devices` | that the five backends implement `ComputeDevice`, `NothingReleasedInFlight`, `AwaitedComes`, `BindingKept`, and `CallsReturn` under fairness | 4 calls on 2 buffers and 1 pipeline, 2 threads on Metal, 1 on the others | 24,920 |
| `device_survey` | `OneAnswer`, `SameAdapter`, `NoCircleOfWaits` | 12 backends, 2 threads, 2 names in every state, 2 adapters of every kind, one of which may go | 1,252,812 |
| `call_sequences` | `NothingLost`, `AtHome`, `NoOrphan` | all 112 operations, lines of values as long as the types allow | 3,781 |
| `profiler` | `LostOnlyToClear`, `TraceProper` | 2 threads, buffers of 2 and 3 events, 2 GPU spans, 3 pushes between clears, 2 clears | 2,011,408 |

Why the bounds are enough to be interesting. With caches of one block and four blocks, every tier is
met empty, filled and full, by the thread that allocated a block and by the other. Three chunks in a
ring of two slots wrap it within one call and meet the other caller's slots. With two callers over
two workers a worker has jobs of both, and lengths that are, and are not, multiples of a page are
cut. Four commands on two streams are enough to write a pooled buffer, record, wait on the other
stream and read there, or to capture and replay with one to spare; with `MaxIssued = 5`, which adds
the allocation of a `DeviceBuf` to that, TLC finds no error in 2,702,719 states but takes long, and
`OrderKept` is proved for any number. Two threads of one process race for one key while the third,
in another process, stores the same file, and one asks for another device under that key. Three
streams on two raw values give one value a second life while a plan of the first may be cached, and
two threads on one device race to create its handle. Four calls create a buffer, run work on it,
fail once and go on with what the failure left. Two names give a load a candidate to fall back on
and two adapters an ordinal that shifts; with two threads one can be inside `ensure_init` and the
other in `fns`, at the same memos. Buffers of two and three events fill within the three pushes and
are capped below what they hold. Lines in `call_sequences` are unbounded but finite, since the types
form no cycle. Symmetry is used over sets of model values in `mempool`, `bucket_pools`,
`kernel_cache` (the two threads of one process), `library_handles`, `profiler` and `device_survey`;
no run with a liveness property uses it.

Deadlock checking is off where the system may really stop: after a pool's drop, or when
the bounded number of calls is made. It is on in `staged_copy`, whose `Finished` names the
one state in which nothing is left to do, and in `profiler`, `device_survey` and
`call_sequences`, which never stop.

### What the runs assume of callers and drivers

* `mempool`'s requests have element sizes that divide every size class, as the types the
  crate implements `Repr` for have. `bucket_pools` has requests whose byte size does not
  wrap; `BlockCoversRequest` there leaves out the recycled slabs above the largest pinned
  class, which is what the code does and a finding.
* `staged_copy` lets every driver call fail but `cuEventRecord` and the synchronize of the
  `Stream`'s drop.
* `stream_order` is for callers that order their streams (`Ordered`, `MayDrop`, `Idle`, see
  above).
* `compute_devices` lets the driver calls in `SafeFailures` fail, which is all but those
  after the work is submitted (and Level Zero's close, execute and synchronize): after
  these the code returns with work at the GPU or in the list, which is a finding. OpenGL
  is excused from returning after its effect (`blocks`).
* `device_survey` excuses three look-ups (`Divergent`): Level Zero opens by a count that
  leaves nothing out, QNN describes by its table of targets, WebGPU describes a fallback
  adapter it does not list. An answer is compared with an enumeration of the same
  machine only.
* `call_sequences` names its exceptions in three sets, each entry of which is needed: without it TLC
  finds the operation or type. `LeakyOps` (16 operations) lose an object, or release one twice, on
  an error path: a constructor's earlier objects, an nvrtc program, a cuRAND generator, the open
  NCCL group (`FromDevices`, and `Grouped` on a panic), the capture ended twice, Vulkan's instance
  and memory. `UnboundOps` (14) work in whatever context the thread has, `Event::new` among them.
  `OrphanTypes` (11) keep no `Arc` or borrow of what they were made on.

Three more configurations lift a restriction and have a counterexample. They stand beside
the runs for a reader to execute and are what the findings of the same code rest on:

| Configuration | Lifts | TLC finds |
|---|---|---|
| `MC_StagedCopyRecord.cfg` | `cuEventRecord` may fail | `SlotIntact` violated: the chunk is on the stream, its slot not armed |
| `MC_LibraryHandlesStream.cfg` | an operation is on its caller's stream, whoever else borrows | `OperationOnOwnStream` violated |
| `MC_ComputeDevicesShared.cfg` | two threads dispatch on one Vulkan pipeline | `BindingKept` violated: one descriptor set |

Two more properties are false of the code and are in no run. `RightDevice` of `KernelCache`
fails on the requests of `MC_KernelCache.cfg`: a key has no device, and the second device is
asked for with the first one's architecture in the options; two devices of one
architecture do the same. `BlockCoversRequest` fails where `MC_MemPool.cfg` is given
`Requests <- UserTypeRequests`, a user type of three bytes beside `u8`: a block of one whole
element less serves the other type.

### Fairness

Only `CallsReturn`, in three modules, needs fairness. The GPU runs the commands it was
given and a thread inside a call goes on (weak fairness of the GPU's and of each caller's
steps). The ring's mutex is a `parking_lot::Mutex`, which is eventually fair: it hands
the lock to a waiter now and then even if others keep taking it. This is strong fairness
of `LockRing`. A copy-pool worker that has a job does it (weak fairness of each worker's
steps); a worker only ever leaves when it has none. No fairness is assumed of starting a
call, of failing, of crashing or of dropping a stream.

## Findings

The `findings` of `PROJECT.json` quote the line each one disagrees with. In short:

* Memory: `pool.rs:254`, a block in whole elements of the first requester's type is
  smaller than its class if the size does not divide it; `pinned.rs:114`, sizes above the
  largest class share its list; `rocm/pool.rs:146`, the byte size wraps.
* Copies: `drv.rs:1345`, a chunk whose `cuEventRecord` fails is overwritten.
* Kernel caches: `kernel.rs:266`, all writers of a file share one temporary sibling;
  `kernel.rs:163` and `rocm/kernel.rs:199`, the key has no device.
* Library handles: `rocm/blas.rs:98`, callers that miss together leave with different
  handles.
* Shared objects: `cudnn.rs:105` (and cuSOLVER, cuSPARSE), a borrow re-binds the handle all
  threads share; `vulkan/compute.rs:471`, one descriptor set per pipeline.
* Work left behind by an error: `dx12/compute.rs:760` and `levelzero/compute.rs:207`; a
  removed device counts as done, `dx12/compute.rs:768`; OpenGL's `dispatch` returns early,
  `opengl/compute.rs:131`; a download longer than its buffer, `dx12/compute.rs:837`.
* Error paths of constructors: `rng.rs:64`, `nccl.rs:142` (and a panic in `group`,
  `nccl.rs:331`), `graph.rs:51`; `Event::new` binds
  no context, `drv.rs:891`; `split` ignores its argument, `advanced.rs:361`.
* Ordinals: `levelzero/compute.rs:472` and `qnn/backend.rs:109`. Loading: the table is
  published whatever `cuInit` returned, `cuda-sys/driver.rs:1051`; `loader.rs:53`.
* Profiler: `profile.rs:147`, a clear erases the count of drops since its first step;
  `profile.rs:207`, `flush_gpu` does nothing while recording is off; `profile.rs:260`, a
  trace that ends in a pending span ends in a comma.
* Comments that no longer say what the code does: `pool.rs:409`, `drv.rs:402`.

## Proofs

All theorems are proved for any values of the constants that satisfy the modules' named
assumptions. The runs check what they state on an instance too, but for the type invariants,
`CapHolds` (ROCm's cap) and `DeviceCorrect`, of which the theorem is the check: TLC finds no
violation when `TypeOK`, `CacheBound` or `RightDevice` is added to the configuration of a run.

`MemPool_proofs`. `TypeOK`, `UniqueOwner` and `NothingLost` are proved together, as the
inductive invariant `Owners`. None is inductive alone: that a push creates no second
owner needs that the block was in no cache, which follows from the pushing thread's
buffer still being in `bufs` (the part of `TypeOK` about what a thread carries) and from no
other thread dropping the same buffer (`OneDropper`); that the driver's fresh block is
unowned needs `NothingLost`. The steps fall into a few kinds (a block moves from a cache to
a buffer, from a buffer to a cache, leaves, is fresh, all caches are drained), each a
lemma. `RetentionBound` adds that caches are finite. `CapacityCorrect` is proved under
`ElemSizesDivide`, the condition `UserTypeRequests` violates, by the invariant that
every owned block of a class has the size of the class. `Refinement` proves
`Spec => ImplementsAllocator` from `Owners`: a block acquired is held by nobody, and a block
freed by the pool is held by nobody.

`BucketPool_proofs`. The same argument for the two bucket pools at once, with the drop of
the pool by whoever goes last: `OneOwner`, `CapHolds` (ROCm's check and push are under one
lock), `Refinement`, and `CapacityCorrect` under `NoWrap`, that no request's byte size
reaches the word.

`StagedCopy_proofs`. `TypeCorrect` needs no assumption. `SlotsIntact`, `TransfersOrdered` and
`SyncCopiesArrive` assume `EventsRecorded`: `cuEventRecord` and the last synchronize do not
fail; `MC_StagedCopyRecord.cfg` shows that without it the property is false. The invariant
behind `SlotsIntact` is that every queued command that reads a slot is guarded: the slot
is armed and its event fires no earlier than the command (or the slot's owner is between
enqueueing the chunk and recording the event, with the lock in hand). For the next two,
`Latest` says that the last queued command for a chunk, or the device if there is none,
holds what is expected, and `Awaited` that a caller's `ahead` counts all of its own queued
commands. `WaitsEnd` assumes nothing: whatever call fails, nobody waits for what cannot come.
It needs only that the mutex is with the one caller inside the copy loop (`LockHeld`, which
an error's return must restore) and that no event and no `ahead` counts more commands
than the stream still has (`OnStream`).

`CopyPool_proofs`. `PointersLive` needs that the counter counts: `Counted` says it is the
number of workers with a job of the call, plus one between the count and the send. That
it counts workers rests on `Once` (a worker has one job of a call at most) and `Ahead` (the
workers with a job come before the next one to be offered a slice); a call below the
threshold never waits, and `Alone` says it need not. `RangeCopied` and `PagesApart` add
what is written: the jobs not yet copied are apart (`Apart`), before the next slice and
untouched (`Within`); a unit before the next slice is written once or in one of these jobs
(`Before`); a unit behind it is the caller's (`Behind`); and every cut is on a page (`OnPage`),
so that a page has one writer. `SleepersAwaited` adds the wake-up: a sleeper's counter is above
zero, and then `Counted` gives a worker with a job of it, or it is zero and the worker that
took it there has not notified yet (`WakeUpDue`); no job is left with a worker that is gone
(`GoneEmpty`).

`Streams_proofs`, `StreamOrder`. `OrderKept` says that the order in which the GPU runs the streams
never shows. No invariant about the GPU's next step is enough for it: a command that is enqueued now
must find what it expects after whatever runs in between. The invariant (`OrderInv`) is therefore
about the queues, in which commands stand in the order of their numbers and wait only for smaller
ones (`QueueInv`), and about pictures of the commands in flight (`Picture`). `Before(q, m, n)` says
that n cannot run before m has, as closure under the queues' order and the waits: every set that
holds n and is closed under what has to run first holds m. `PairsOk`: of two commands that use a
buffer, one of which writes it, one comes before the other. `Finds(q, mem, k, b, v)` is what command
k finds in b: what the last writer before it leaves, or what memory holds now. `CommandsWell`: each
command finds what program order wants and leaves what it should; `HostsFind` says the same of the
host. That running a command changes nothing any other command finds follows because those that use
what it writes come after it. `UsersOk` and `AfterOk` relate the bookkeeping the guards read
(`users`, `after`, `event`) to `Before`: who comes after the recorded users comes after all. `Apply`
is a fold over a graph's steps; what is needed of it (`Agree`: it does not tell contents apart that
agree on what a step reads) is proved with the prefix of the fold as the object of a
least-counterexample argument, since the library's induction cannot be used.

`Streams_proofs`, `Profiler`. `LossAccounted` from `Balanced`, which says what the two steps of a
clear leave in between: while no clear is under way, buffer, counter and `erased` make up
what was offered; while one is, buffer and the drops it will erase do. `TraceIsProper` rests
on `MeasuredOnce` (a span has one stop event, on the stream or measured, so a later flush
cannot change its length) and `TrackInv` (the resolved spans lie end to end from where the
first starts), which a flush restores whatever a clear, a drop or a push into a full buffer
left of the last. `WellWritten` is the invariant of `chrome_trace`'s loop: elements and commas in
turn, a comma exactly when something precedes.

`KernelsAndCalls_proofs`, `KernelCache`. `KernelIdentity` and `EntriesPermanent` rest on the
invariant `Held`: a kernel a thread holds is the entry its key has in the thread's process.
`DeviceCorrect` says how far a key without a device goes: an entry is of a device somebody
asked for under its key (`Keyed`), so it is the right one where requests of one key are of
one device. That is a hypothesis about the callers: the architecture in a key may be the
one the options name, so devices of different architectures can share a key too, as they
do on the run's requests, where `RightDevice` is false.
`ImageCorrect` and `TornCorrect` speak of the directory, so their invariants do too. `Files`: an
inode has one name at most and is of the image it is named by, and the file a thread has
open is its own image's. `Tears`: while nobody else has been storing its file, the temporary
sibling of a storing thread is the one it writes and is whole once written, so that what
it renames is whole.

`KernelsAndCalls_proofs`, `CallSequences`. The machine is proved for any tables of operations and
types and a line of values of any length; what a table must satisfy is the hypothesis of each
theorem, and is about one operation or one struct at a time, so that a reader can check it at the
source of a wrapper he adds. `CallInv` says what an operation in progress stands on: its value is
the last of the line, alive, and held unless it was taken. `ReleasedOnce` assumes `Tidy` of each
operation outside `Leaky`: at each fallible step, what has been made and not released is what its
local values and the step's error path release. `LiveAfter` and `OwnedAfter` define both by the last
step that touched an object, and `Accounted` says that they are what the machine has. `KeptAlive`
assumes that a type made on another value keeps it, unless it is in `Orphans` (`KeptOrOrphan`); that
a living value's predecessor lives is then kept by every drop (`Chained`). `BoundWhenRead` assumes a
set of types that keep their device, each through the one before (`KeepTheRoot`), and that
operations outside `Unbound` bind before they read, on these types (`BindFirst`); then nothing that
is dropped while such an operation runs can end its device's context, which is what `AtRoot`
carries. The 112 operations satisfy all of it: those that are not tidy are exactly the 16 of
`LeakyOps`, and the types in question (`RootTypes`) are all but those of `OrphanTypes` and the
executable graph made on one of them. This is `TablesFit` of `MC_CallSequences`, which TLC evaluates
under `MC_CallTables.cfg`, a configuration beside the runs. `Leaky` and `Orphans` thus also say what
a repaired wrapper would gain.

`Libraries_proofs`, `LibraryHandles`. `OneHandle` is inductive with what a thread has at each
place of a call (`Types`) and once extended to the place between adopting and binding
(`Adopted`). `PlanStreams` needs two facts that no single step shows: a handle or plan is
known by its number, so binding a handle never moves a plan (`Counted`), and live streams
differ in their raw values, with every cached plan's stream alive and on the raw value of its
key (`Keyed`); this is why a plan must keep its stream. `EveryBorrowBinds` adds
`BoundOrRebound`: a borrower's handle is on its stream or the borrower has been marked.

`Libraries_proofs`, `LibraryLoading` and `DeviceSurvey`. What a caller has behind it is not in its
own state: it is in the memos, in who fills them and in the candidates tried. `Filled` says
what a memo holds and what its filler has passed over; `Place` what the stage of a call
stands for: which closures it is in, and which memos it has seen filled, also when the
published pointer let it in behind them; `Got` what it left with. `OneAnswerForAll`
follows, for any number of callers and candidates. `InitialisersNest` needs of `Place` that
whoever is in `ensure_init`'s closure is not at its own memo again, and that whoever fills
the table or runs `cuInit` is at work and waits for nothing: a wait for the first therefore
leads to a wait for the second at most, and none closes a circle. `SameAdapterEverywhere` is about the walks
alone: each is a function of the machine it was given, and outside `Divergent` they agree on
every sequence of adapters, or one refuses.

`ComputeDevices_proofs`. The theorems but the last assume `NoneAbandoned`, that no call fails after its
work is at the GPU or in the one list (`Abandoning`, disjoint from the run's `SafeFailures`);
without it the properties are false, which is a finding. The invariant has a part common to
the APIs (`Common`: what a thread has at each place of a call, and that no other call is on
a buffer under construction) and one for each: `SharedQueue` (Vulkan and Metal: each queued
work is of a thread that waits for it, one per thread), `LevelZeroQueue` (the list is empty
between calls), `Dx12Queue` (the fence is behind exactly while its signal is in the queue, so
the spin cannot end early) and `OpenGLQueue`. What they have in common, `Waited`, gives
`NothingReleased`. `PromiseKept` maps each step to a step of `ComputeDevice` or a stutter; it
also assumes that a Vulkan device is one thread's (`Sole`; `MC_ComputeDevicesShared.cfg` is the
counterexample without it) and that OpenGL's read sees the dispatch before it (`Coherent`).
`SoleBindingKept` is what `Sole` buys: a dispatch runs on the buffers its own call bound.
`WaitsAreForSomething` assumes none of it. After a call that failed the fence may be ahead of or
behind the calls, so its invariant is its own (`AwaitInv`): the signals in the queue are in
order, beyond what the fence has and below what will be taken next (`SignalsInOrder`); hence
the value a thread spins for is reached or still to be signalled, also where a `Signal`
that failed has used up a value, and a command buffer Metal waits for has run or is at the
GPU.

Every invariant, action property and refinement a passing run checks is a theorem. Only
model-checked are the liveness properties (`CallsReturn`, three times), which are out of the
prover's reach, and that the tables of `call_sequences` satisfy the theorems' hypotheses
(`MC_CallTables.cfg`). What can be said of a wait without fairness is proved: `SleepersAwaited`,
`WaitsEnd` and `WaitsAreForSomething` say of a wait in their module that what it waits for is under
way, and `InitialisersNest` that waits for memos form no circle. That it then comes is left to
`CallsReturn`.

## Not modelled

* Driver calls are atomic and their effects the documented ones: a CUDA stream is in
  order, `cuMemFreeAsync` of a block that is in use by earlier work is stream-ordered and
  safe. Contents of kernels, numerics, formatting, logging and error texts are left out.
* Metrics and CUPTI (`observe.rs`, `cupti.rs`): relaxed counters read one by one and
  records another library fills; no state of the program depends on them.
* The facades of `cuda` (`alloc`, `cudarc_compat`, `safe`, `prelude`): re-exports.
* Constant tables (`capability.rs`, `dtype.rs`, `ontology.rs`) and the `-sys` crates'
  declarations have no behaviour to check.
* ROCm's kernel cache is `KernelCache` without the directory and was not written down again; its
  `handle_for` has no second look and is a finding; ROCm's asynchronous copies are one driver call
  each.
* Launch geometry, peer-access tables, attribute queries, root signatures, memory types
  and shader words: a query is a step that may fail, what it returns is not modelled.
* The second end of a capture whose end failed (`graph.rs:50`), in `StreamOrder`; in
  `CudaCalls` it is there, as an object released twice.
* In `CudaCalls` a value keeps the one it was made on, so a graph made executable stands on
  the stream of its capture, though its field is the device.
* Several captures or graphs at once, and work recorded into a capture through another
  stream's event.
* `mem::swap` of the inner buffers of two `PooledBuf`s through `DerefMut`, a kernel file the
  driver refuses for ever, and a `metrics` snapshot of no single moment are listed as
  hazards without a property, each with the reason.
* Hash collisions in the kernel cache's 64-bit keys are ignored.

## Plan

The plan's modules are written, and the safety properties of their runs proved. What is
left, in this order:

1. ROCm's kernel cache, as `KernelCache` with an empty directory.
2. Captures on several streams, and with them work recorded into a capture through another
   stream's event.
3. The refusal of a file for ever (`kernel.rs:188`), as a liveness property that fails.
4. The hypotheses of `ReleasedOnce` and `BoundWhenRead`, which TLC evaluates on the tables
   (`MC_CallTables.cfg`), as theorems.
