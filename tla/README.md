# A verification project for LCW

LCW (Lightweight Communication Wrapper) gives asynchronous many-task runtimes one
small interface over several communication libraries: two-sided `send`/`recv`,
one-sided `put`, completion queues and handlers, and an explicit `do_progress`.
Its core is a multithreaded program: every thread of a process may call every
function at any time, completions are found by whichever thread happens to
progress a device, and the shared state is guarded by a few spinlocks, some of it
read without them. This directory holds TLA+ models of that core, their TLC
configurations, and TLAPS proofs. `PROJECT.json` maps every definition to the
lines it models.

## Inventory

| Component | State | Operations | What is hard |
|---|---|---|---|
| `backend_mpi_t` (`backend/mpi/backend_mpi.{cpp,hpp}`) | `g_pending_msg`, `g_ndevices`, `g_comp_managers`; per device `put_entry`, `put_entry_lock`, `put_rbuf`, communicator, tags | `alloc_device`, `free_device`, `do_progress`, `send`, `recv`, `put` | check-then-act on the pending counter; unlocked read of `put_entry.mpi_req`; one receive buffer for all puts; user code run from inside the library |
| `manager_req_t` (`comp_manager/manager_req.*`) | deque `entries`, `lock` | `add_entry`, `do_progress` | unlocked `empty()`; an entry lives in a local variable between `pop_front` and `push_back`; managers shared by devices |
| `manager_cont_t` (`comp_manager/manager_cont.*`) | `cont_req`, `lock`, MPI continuations | `add_entry`, `do_progress`, `complete_cb` | callbacks from inside MPI, possibly under `stream_lock` |
| completion objects (`comp/`) | LCT queue of `request_t`, or a function pointer | `signal`, `poll`, alloc, free | signalled by one thread, polled by another |
| `bigcount_wrapper.hpp` | none | `type_contiguous`, `isend`, `irecv` | integer widths |
| `lcw.cpp`, `env.cpp`, `backend/backend.cpp` | `backend_p`, `config` | `initialize`, `finalize`, `alloc_backend`, forwarding wrappers | order of initialization |
| `util/spinlock.*` | global table `spinlock_op`, `setuped`; one object per `spinlock_t` | `custom_spinlock_setup`, `custom_spinlock_init`, lock, try_lock, unlock | the table is swapped under objects made by the old one |
| LCI and LCI2 backends (`backend/lci`, `backend/lci2`) | `g_ndevices`; per device an endpoint or a handle for remote completions; one `request_t` per operation in flight | as above | a post may be refused, or complete before it returns; the `request_t` has one owner at a time |
| GASNet-EX backend (`backend/gex`) | `g_devices`, `g_allocator_copy` | as above | active-message handlers on any thread |
| `examples/pingpong_mt.cpp` | `g_device_sequence_control`, `progress_thread_stop`, two thread barriers | worker and progress threads | collective calls made in turn; devices freed under progress threads |
| counters, logging, other examples | none that anything reads back | | |

How they interact: the API wrappers forward to the backend. `send`, `recv` and
`put` start an MPI request and hand an `entry_t` to the device's completion
manager. `do_progress` first looks after the device's put receive, then asks the
manager to test one entry. A finished entry goes through `signal_comp`, which
gives back the pending slot and pushes on a queue or calls a handler. Threads
meet in the pending counter, `put_entry_lock`, the manager's `lock`, and the
queues.

What makes each part correct: every accepted operation is reported exactly once,
at the right object, with the data of its own message; a put is in addition
reported exactly once at its target; slots are neither leaked nor returned
twice; locks exclude and are never held while user code runs; a device never
stops listening for puts; and under fair scheduling everything completes. Some
of this the library leaves to its client: devices are allocated in one order
everywhere, and freed when nothing is outstanding and nobody progresses them.
The benchmark is the client that has to get this right.

## Modules

| Module | Models | Role |
|---|---|---|
| `Requests` | `op_t`, `request_t`, `entry_t`, device and manager assignment | constants, their assumptions, vocabulary |
| `MpiLib` | MPI, as the backend uses it (external) | requests, matching, the put receive |
| `Frames` | the locals of a thread inside a call | program counter and frame |
| `Completions` | `comp_cq_t`, `comp_handler_t`, `util::signal_comp` | completion objects of every backend |
| `Signal` | `mpi::signal_comp`, `poll_cq` | the way back to the client |
| `ManagerReq` | `manager_req_t` | the deque and its lock |
| `BackendMpi` | `send`, `recv`, `put`, `do_progress`, `post_put_recv` | composes the six above; the properties |
| `LcwContract` | what `lcw.hpp` promises | abstract specification, implemented by `BackendMpi`, `BackendMpix`, `BackendGex` and `BackendLci` |
| `BackendMpix` | `manager_cont_t`, `complete_cb`, `enter_stream_cs`, `leave_stream_cs` | extends `BackendMpi` to the build with the MPIX extensions |
| `BackendLci` | `backend_lci_t` and `backend_lci2_t` | LCI (external) as operations that are refused, or completed when it likes |
| `PingPong` | `examples/pingpong_mt.cpp` with the collective calls of the MPI backend's `alloc_device`, `free_device` and `barrier` | the client: threads, turns, barriers, windows |
| `BackendGex` | `backend_gex_t`: devices, `put`, `gex_reqhandler`, barriers | GASNet-EX (external) as a set of active messages |
| `Lifecycle` | `initialize`, `finalize`, environment, spinlock table, device allocation | one process, sequential |
| `BigCount` | `bigcount_wrapper.hpp` and the reported length | pure algorithm in a two-step machine |
| `MCBackendMpi`, `MCBackendMpix`, `MCBackendLci`, `MCBackendGex`, `MCPingPong` | | instances for TLC |
| `LockProofs`, `ReportProofs`, `MpixProofs` | | theorems about `BackendMpi` and, on top of them, `BackendMpix` |
| `LifecycleProofs`, `BigCountProofs`, `GexProofs`, `LciProofs`, `PingPongProofs` | | theorems about `Lifecycle`, `BigCount`, `BackendGex`, `BackendLci` and `PingPong` |

### How the models correspond to the code

*Operations.* An element of `Ops` is the argument list of one call of `send`,
`recv` or `put`. It also stands for the `request_t` the call allocates and for the
bytes it sends, so "the payload at `request_t::buffer`" is the operation that sent
it. `todo` holds the operations the client still has to issue; a refused one
(`return false`) simply stays there. `Programs` are the sets of operations a client
may choose to issue: once it has issued an operation, all it issues belongs to one
of them (`MayIssue`).

*Threads.* `pc[t]` is the next atomic step of thread `t`, `"idle"` when it is in
the client's code. A step is cut at every access to state that another thread
may touch: the load and the `fetch_add` of `g_pending_msg` are two steps, MPI's
calls are one each, taking a lock is one, and what a thread does under a lock is
divided where MPI or an unlocked reader can see the difference (`TestPut`,
`CopyPut`, `PostPutRecv`, `UnlockPut`). Steps that touch only locals are joined
to the next one.

*Data races.* `put_entry.mpi_req` (`backend_mpi.cpp:310`) and `entries.empty()`
(`manager_req.cpp:19`) are read without the lock. While another thread holds the
lock the read may give either answer (`ReadPutReq`, `ReadEmpty`); while nobody
holds it the read is exact.

*MPI.* A request is started, becomes complete at a moment MPI chooses, and is freed
by the `MPI_Test` that sees it complete. Because of `mpi_assert_allow_overtaking`
(`backend_mpi.cpp:242`) any message in flight may match any receive that fits. A
send may complete before it is received (eager) or after (rendezvous); those no
longer than `eager_limit` are sure to complete by themselves. The put
receive takes any put for its device and writes `put_rbuf` when it does.

*Completion objects.* `cq` is the FIFO of LCT, whose push and pop are taken to be
atomic; a handler runs inside the signal, so its completion goes to `polled` at
once.

*Contract.* `LcwContract` knows what was posted, what is queued and what the client
has seen. `BackendMpi` implements it under the mapping at the end of the module:
an operation counts as posted when it is handed to MPI, because from then on its
effects may be seen (a put may be signalled at its target before the sender's
`add_entry` has even taken the lock).

*Lifecycle.* The order inside `initialize` is the code's: the spinlock table is
chosen, then the environment is read, then `backend_p` is set, and only then does
the backend start MPI and make its managers; `finalize` ends MPI before it resets
`backend_p`. Both are two steps, and `inside` names the call the process is in the
middle of. A `spinlock_t` does not know the table that made it, so the model
records it, where the code has the lock: `put_entry_lock` and `stream_lock` in the
`device_t`, the manager's lock in `g_comp_managers` and behind the device's
`comp_manager_p`, a `shared_ptr` that keeps the manager alive when `finalize` clears
`g_comp_managers`. MPI can be started once per process. `custom_spinlock_setup` is
accepted whenever the client runs. `env` holds the variables that change what the library does, and
the extensions (`"stream"`, `"cont"`) of the MPI it was built with, because
`initialize` and `alloc_device` assert against settings that need them.

*BackendGex.* The client follows `examples/pingpong_mt.cpp`: `phase` is the part of
the program a process is in, with a barrier between any two. An active message
carries the sender's `device_p->id`, and the handler looks it up in the target's
`g_devices`. A handler runs on whichever thread is inside GASNet, so `running`
belongs to no thread, and it keeps the device it has looked up from one step to
the next. A device outside the table, not filled in or deleted may give any
completion object (`CompFound`). `send` and `recv` throw before they do anything;
the client catches the exception (the model has no client that dies of it), and for
the contract such an operation is never posted.

*BackendMpix.* `in_mpi[t]` is the MPI call a thread is in, from the step that starts
it and has its effect to `LeaveMpi`. If streams are in use, the call is made under
the device's `stream_lock`, except for the two calls on `cont_req`. A continuation
may run inside any such call of any thread of the process, subject to the flags
(`MayContinue`): inside the `MPIX_Continue` that attaches it only with
`LCW_MPI_CONT_IMM` and without `LCW_MPI_CONT_DEFER`; with `LCW_MPI_CONT_POLL_ONLY`
only inside the test of `cont_req`; and only while `cont_req` is started, if there
is one. `complete_cb` has two steps, as `signal_comp` has. The steps of `BackendMpi`
are used as they are, for either manager.

*BackendLci.* Both backends allocate a `request_t`, post, and delete it again if LCI
asks to retry; whoever receives the status LCI signals copies the `request_t` and
deletes it (`ctxs` counts them). A completion may come while the post is still
running. Both ends of a message choose medium or long by the length they give,
and the two may differ; the completion is then called by either one's class. With LCI a
status has one of two union members, and reading the other one gives `Garbage`; with LCI2 a handler is signalled by LCI itself, and a put names
the completion object at the target by the sender's own handle. Devices are
allocated in turn, as the benchmark does. `backend_lci_t::alloc_device` asserts that
`max_put_length` is no longer than a medium message (`PutLengthFits`; the client's
longest put stands for it), so with LCI a program with a longer put stops there;
LCI2 only warns, and long puts go on.

*PingPong.* `pc[t]` is the loop or barrier of `worker_thread_fn` a worker is in and
`j[t]` the loop's variable; the sending and the receiving side do the same steps in
another order (`Steps`). A turn is passed on by an increment of
`g_device_sequence_control` and, after the last device, a store of 0 that is a step of
its own (`NextTurn`, `ResetTurn`): in between the counter is the number of devices and
nobody's turn. A post is the call that is accepted; the refused ones before it
change nothing but make progress, and show as the time a worker spends in
`PostSend`. Thread barriers count arrivals. `MPI_Comm_dup`,
`MPI_Comm_free` and `MPI_Barrier` return when the peer has made the same call; the
communicator a device gets is the number of the call. A completion appears only
while some thread calls `do_progress` on the device (`Progressed`). Messages of one
worker are counted: the windows are posted and waited for as a whole.

*BigCount.* `int_max` is a constant, small for TLC. A datatype is its type map.

## Runs

| Run | Instance | Checks |
|---|---|---|
| `self` | 1 process, 2 threads, 2 devices sharing a manager, limit 1; 2 sends of one tag and 2 longer receives | `ExactlyOnce`, `PendingExact`, `LocksExact`, `ReportsTrue`, `ContractSpec` |
| `one_device` | 1 process, 2 threads, limit 1; 2 puts for one `put_rbuf`, or 4 sends for one slot | `TypeOK`, `PutExactlyOnce`, `PutAlwaysPosted`, `PendingBound`, `LocksExact`, `RbufStable`, `ContractSpec`, `AllPutsArrive`, `AllComplete` |
| `cont` | 2 threads, 5 settings, a send and its receive or a put | `XExactlyOnce`, `XPendingExact`, `SafeToReenter`, `ContractSpec`, `XAllComplete` |
| `lci` | LCI and LCI2, 2 processes, 2 devices each | `TypeOK`, `ContextsExact`, `ContractSpec`, `AllComplete` |
| `gex` | 2 processes with 2 and 1 threads, 2 devices each, 3 puts and a send | `TypeOK`, `HandlerFindsDevice`, `HandlerKeepsDevice`, `ContractSpec`, `AllExit` |
| `pingpong` | 2 processes, 4 command lines, 2 sizes, 2 ping-pongs each | `TypeOK`, `PeersShareComm`, `FreedIsQuiet`, `ProgressOnLive`, `AllDone` |
| `lifecycle` | all environments, 0 to 2 managers, 3 devices, 2 custom tables installed at any time | `TypeOK`, `MpiFollowsBackend`, `DevicesSupported`, `OnlySetupMismatches` |
| `bigcount` | `int_max` 7, sizes 0 to 60 | `TypeOK`, `BlocksTile` |
| `cont_length` | as `cont`, a message shorter than the receive | violates `ReportsTrue` |
| `spinlock_setup` | as `lifecycle`, 1 custom table | violates `LocksMatchTable` |
| `force_spinlock` | as `lifecycle`, 1 custom table | violates `ForceHonoured` |
| `long_receive` | as `bigcount` | violates `LengthExact` |

Deadlock is checked in every run of `BackendMpi` and `BackendMpix`: an idle thread
can always call `do_progress`. It is off for `Lifecycle`, `gex`, `lci` and
`pingpong` (the processes end; `AllExit`, `AllComplete` and `AllDone` say that they
do) and `BigCount` (a message is sent once).

### Bounds, and why they are enough

- Two threads in one process reach every pair of concurrent calls; the locks and
  the two unlocked reads involve two parties. A process that sends to itself has
  both ends of every message, and its threads play sender and target at once.
- Limit 1: the limit is reached (2 pending pass `<=`), refused messages are retried,
  and in `one_device` both threads can pass the load before the other's `fetch_add`,
  so that the bound limit + threads is attained; four sends leave one to be refused.
  That every further thread adds one is proved (`PendingHolds`), not run.
- `eager_limit` is 1 in `one_device`, where the sends have length 1 and no receive:
  they complete all the same, and give their slots to the refused ones.
- Two puts for one `put_rbuf` are the least that can overwrite one another.
- Receives are longer than the messages, so a length taken from the wrong side
  shows.
- `int_max` 7 and sizes to 60 pass `int_max` squared (49), where the assertion
  `c < int_max` starts to fail.
- In `gex` each process has two devices with different completion objects, so an
  active message that names the wrong one shows; puts go both ways, so both
  processes wait for one another in every barrier.
- `cont` covers the request manager with streams, continuations without `cont_req`
  (the default of such a build), inline callbacks under `stream_lock`, and
  `cont_req` with and without POLL_ONLY. Its two threads are enough for a callback
  to run on the thread that did not issue the operation, also while that one is
  inside `MPIX_Continue`.
- `lci` has a medium and a long message, the medium one for a receive of the long
  class, puts, a long put (which LCI2 carries and LCI's `alloc_device` refuses), and
  a handler for LCI2; two devices with different completion objects, so that handles
  out of step show.
- `lifecycle` has two custom tables, so that one can replace another, and three
  devices, so that two share a manager of two; a device may outlive `finalize`.
- `pingpong`: two workers that share a device and its `put_cq`; devices of their
  own, with windows of two one way and one the other; two workers, two devices
  and one progress thread for both; and a single thread with windows of two. Two
  ping-pongs let one worker be an iteration ahead; two sizes run the barriers
  between them.
- Every operation is issued once; the number of operations bounds every counter.

### Fairness

`ThreadFairness`: a thread inside a call goes on (weak), and `add_entry`'s
blocking lock is obtained if it is free again and again (strong: a pthread
spinlock has no queue, but threads in `do_progress` only `try_lock` and leave, so
the lock is free most of the time). `ClientFairness`: the client keeps calling
`do_progress` on every device, polls its queues, issues what it has left and retries
what was refused, the loop of `examples/pingpong_mt.cpp`. These are strong, because
the thread that does it may be busy in another call at any given moment, and by
whichever thread: no particular thread has to issue an operation, and none has to be
accepted. `MpiFairness`: MPI delivers a message whose receive is posted and completes a
send whose message was received or is no longer than `eager_limit` (`SendDue`, weak). In `BackendGex` threads go
on, GASNet runs the handlers of messages that have arrived while clients poll,
and a barrier everybody has entered is left (all weak). `XFairSpec` assumes in addition that MPI runs a continuation that stays
due if some thread is inside a test again and again; nothing is assumed of the
other calls. `BackendLci`: LCI takes an operation that is posted again and again and
completes what it has taken while clients progress and poll. `PingPong`: every
thread is scheduled, and messages arrive and sends complete while somebody
progresses the device (all weak). A worker that posts a send is only sure to get on
while no send of its process is pending (`Admitted`): otherwise the library may refuse
it, and it retries.

## What the violations show

- `cont_length`: `MPIX_Continue` is given `MPI_STATUS_IGNORE` (`manager_cont.cpp:35`), so
  that a receive that a continuation completes reports its buffer's length. With
  `manager_req_t` it reports the message's.
- `force_spinlock`: `custom_spinlock_init` (`lcw.cpp:17`) runs before `init_env`
  (`lcw.cpp:18`), so `LCW_FORCE_PTHREAD_SPINLOCK` has no effect on a custom table.
- `spinlock_setup`: `custom_spinlock_setup` replaces the table at any time
  (`spinlock.cpp:85`), and locks that are alive are then locked and freed by functions
  that did not make them. `lcw.hpp:116` allows no call before `initialize`, so this is
  the only time its documentation leaves for it; a client is safe if it disregards
  that and installs its table before `initialize`, or while it has neither devices
  nor shared managers (`OnlySetupMismatches`).
- `long_receive`: messages longer than `INT_MAX` are carried, but the length of the
  receive is read into an `int`.

Smaller disagreements are not worth a run. `send` and `put` refuse only when the
counter is *above* the limit (`backend_mpi.cpp:349`), so one message more than "Max
Pending Messages" is admitted by a single thread, and one more by every further
thread that passes the load before the others' `fetch_add`; what does hold is
`PendingBound`. `backend_gex_t::do_progress` always returns false, whatever it did
(`lcw.hpp`: "Whether some works have been done"), and its `get_max_tag` returns the
longest message. Continuations are refused for the lack of streams
(`backend_mpi.cpp:80`), with the message that continuations are missing.
`LCW_MPI_CQ_TYPE` is read and logged but `comp_cq_t` always allocates an LCRQ
(`comp/cq/cq.cpp:12`), and the assertion in `put` that the device has a `put_comp`
cannot fail, because `alloc_device` always sets `enable_put` (`backend_mpi.cpp:228`).

What the newer models say about the code, and its clients have to know:

- With streams and continuations, a handler may call back into the library only
  if continuations run inside the test of `cont_req` alone (`LCW_MPI_CONT_REQ` and
  `LCW_MPI_CONT_POLL_ONLY`, without `LCW_MPI_CONT_IMM`). `SafeToReenter` states that
  these settings, and the request manager, signal without `stream_lock`; in the
  others `complete_cb` may run under it.
- Without `cont_req` continuations run because the put receive is tested. The
  comment at `backend_mpi.cpp:226` is right, and the mutant `XProgressNoPut` shows what
  happens otherwise.
- `backend_mpi_t::free_device` does not cancel the put receive and keeps device 0's
  communicator. `FreedIsQuiet` and `ProgressOnLive` are what the benchmark does to make
  this harmless.
- `backend_lci_t` does not override `alloc_handler`, so a handler would be handed to
  LCI as a queue; it reads a put's arrival as a medium buffer only, and depends on
  the assertion on `max_put_length`, which makes the long put at `backend_lci.cpp:236`
  unreachable for a client that keeps to what it declared. Neither LCI backend deletes its `device_p`.
- The benchmark needs every device to have a worker (line 137 rounds up, and a
  device nobody allocates keeps `g_device_sequence_control` from returning to 0),
  and `nprgthreads` to be what the loop at line 474 spawns (5 threads with 2 progress
  threads spawn 3). Workers that share a device and put with windows above one
  take each other's messages and wait for ever, which is what its warning at line
  464 is about. `ConfigsAssumption` states all three.

## Proofs

All for any number of processes, threads, devices, completion objects and
operations. Those about the communication backends are from the assumptions in
`Requests` (finite sets of threads and operations, the types of the constant
functions, `NULL` outside of them, tags of puts distinct from the client's, receives
long enough).

- `LockProofs`, types: `TypesHold`, `Spec => []TypeOK`. `TypeOK` is not inductive: a step
  that reads `dev[t]` or `entry[t]` needs to know that they are not `NULL` at that
  program counter (`FrameOK`), that what `MPI_Test` reports for a finished
  receive is a message (`MpiOK`), and that deques hold operations of the manager's
  own process (`EntriesOwned`). `TypeInv` is the conjunction.
- `LockProofs`, locks: `LocksHold`, `PutPosted` and `RbufHolds`. The
  invariant `LockInv` adds that a lock's owner is exactly the thread whose program
  counter is in the code it guards, and that a put request is `MPI_REQUEST_NULL`
  exactly while a thread is between the successful test and the repost
  (`NullExact`). From it follow `PutAlwaysPosted` and the action property
  `RbufStable`; that no lock is held while user code runs is part of `LocksExact`.
- `ReportProofs`: `OperationsOnce` (`ExactlyOnce`), `PutsOnce` (`PutExactlyOnce`),
  `ReportsHold` (`ReportsTrue`) and `ContractHolds` (`Spec => ContractSpec`). Two
  layers on `LockInv`:
  - `PlaceInv` adds `StageOK`, which ties the place of an operation to what MPI has
    done with it: nothing is started before `isend` or `irecv`, the request of an
    entry in a deque or on its way there is live, that of a finished entry is freed.
    Without it a step could test, or post, an operation a second time. Deques need
    lemmas about `pop_front` and `push_back`: an operation that is once in one
    deque leaves it with the thread that pops it.
  - `MessageInv` adds what is known of messages: the message a receive completed
    with matches it, is off the network and is no other receive's (`MatchedOK`);
    `put_rbuf` holds a put for that device (`RbufOK`); a thread's status describes
    the message in `put_rbuf` until it is copied and the copy from then on
    (`StatusOK`, which rests on `put_entry_lock`); reports and puts accordingly.
  - The refinement follows step by step: only posting, `poll_cq` and the signals
    change what the contract sees, and `MessageInv` says that what is signalled is due
    (posted, not reported, and its message not reported by another receive).
- `ReportProofs`, the limit: `PendingHolds` (`PendingBound`) and `PendingCounted`
  (`PendingExact`). For the bound, the inductive invariant counts the threads
  between the load and the `fetch_add`: the counter plus their number never
  exceeds limit + threads. For exactness, the set of operations that hold a slot
  gains one element with `fetch_add` and loses one with `fetch_sub`, and no other
  step changes it; that needs the places of the operations.
- `MpixProofs`: `XOperationsOnce` (`XExactlyOnce`), `XPendingCounted`
  (`XPendingExact`), `ReentryHolds` (`SafeToReenter`) and `XContract`. A step of
  `BackendMpix` is either a step of `BackendMpi` that leaves the continuations alone
  (`XSteps`) or one of the few that `manager_cont_t` adds, so the step lemmas above
  are used again: they are about `Next` from any state of the invariant, and say of
  an operation that it is in *at most* one place (`MostOnce`), because in this build
  it may also be attached to a continuation or inside `complete_cb`. `XPlaceInv` adds
  those places: an attached operation has a live request, one in `complete_cb` a freed
  one, and neither is anywhere else. `StreamsOK` says that a thread with a
  `stream_lock` is inside a call of MPI that cannot be the test of `cont_req`, from
  which `SafeToReenter` follows. `XContract` has a hypothesis, `BuffersFilled`: every
  message is as long as the buffer of its receive. It is needed, because `add_entry`
  asks MPI for no status: `cont_length` shows the wrong length otherwise.
- `BigCountProofs`: `TilesHold` (`BlocksTile`) and `BigCountTypes` (`TypeOK`, with
  every block within an `int`), for every `int_max`.
- `LifecycleProofs`: `MpiFollows`, `DevicesWork`, `LifeTypes` and `OnlySetup`. `LifeInv`
  adds that a table is installed as soon as anything makes locks, that MPI comes up
  once and is up exactly while it is the backend, but for the middle of `initialize`
  and `finalize`, and that the settings were looked at by then. `OnlySetup` is about
  steps: a lock takes the table installed when it is made (a shared manager's comes
  from `initialize`), so only a step that changes the table can part them, and
  `initialize`, which also does, runs before the first lock, because MPI comes up
  only once.
- `GexProofs`: `HandlersFind`, `HandlersKeep`, `GexTypes` and `GexContract`.
  `GexInv` says how far the processes can be apart (nobody is past a barrier that
  somebody has not reached, which makes every table complete before the first
  message and every device alive until the last), that ids are places in the
  table, and where each put is: at the source, in flight, with a handler, or
  reported, once for the operation and once for the arrival.
- `LciProofs`: `ContextsKept`, `LciTypes` and `LciContract`, for LCI and LCI2. In
  `LciInv` every operation is in one place (with the client, the call that posts
  it, LCI, a queue, or reported) and has its `request_t` in exactly three of
  these; a message is taken by one receive or arrives once; and the handle of a
  device is its place in the table of every process, so that a put's remote
  completion is the one of the peer device. `PutsOK` says that with LCI a put in flight
  is a medium one, because some device was allocated past the assertion; reports then
  never read the wrong member of the union.

- `PingPongProofs`: `PingPongTypes`, `PeersAlwaysShareComm`, `ProgressAlwaysOnLive`
  and `FreedAlwaysQuiet`, for any number of devices, workers and progress threads,
  any windows, sizes and ping-pongs, with send and with put. Two layers:
  - `LiveInv` relates threads, barriers and devices. Every device has one owner
    (arithmetic on `nworkers_per_device`: `OneOwner`, `SomeOwner`) and its state follows
    from the step the owner is at (`DeviceOf`); while devices are allocated,
    `g_device_sequence_control` is the number of `MPI_Comm_dup` calls made or that of
    the one under way, up to the store of 0 by the owner of the last device (`TurnOf`), so communicator n belongs to device n - 1 on both
    sides; and nobody is past `tbarrier_all` before everybody came there (`MetOK`), so
    that nobody allocates while somebody communicates, and nobody communicates
    while somebody frees.
  - `FlowInv` is the bookkeeping of messages. The place of a worker in its loops
    tells which of its messages, numbered by size, ping-pong and place in the
    window, it has sent and which of its peer's it has taken. `FlowOf`: its queues
    hold exactly the completions it still waits for. `BalanceOf`: the messages sent
    to a device are as many as those under way, in the receive queues of its
    workers, in its `put_cq` and taken. It is a balance per device and not per worker
    because workers that share a `put_cq` may take each other's messages. When an owner frees
    its device all workers of the process have taken every message that can ever
    be sent to them, so the balance leaves nothing under way.

`GexProofs` and `LciProofs` also use `GexAssumption` and `LciAssumption`: finitely many devices,
numbered from 0 as `alloc_device` numbers them; for LCI also that no handlers are
used with `backend_lci_t`. Nothing is assumed of the lengths of puts or of the size
classes of the two ends of a message. `LifecycleAssumption`, `BigCount`'s assumption, `EagerAssumption`,
`ProgramsAssumption` and, in `BackendMpix`, `CallsAssumption` say what the constants are.
`ConfigsAssumption` of `PingPong` says which command lines are sound: those that pass
`main`'s assertions, give every device a worker and spawn as many progress threads
as the barriers count, and that heed the warning about windows and put.

The inductive invariants (`MessageInv`, `PendingInv`, `GexInv`, `LciInv`, `LifeInv`,
`XPlaceInv`, `LiveInv`, `FlowInv`) also hold when TLC checks them on
the instances of the runs (for `FlowInv` with the naturals in `Counted` cut off at a bound).
They are not in the configurations: the theorems say it for
every instance.

Every safety property and every implementation of the contract that a passing run
checks is stated by a theorem. Only model-checked: liveness (`AllComplete`, `AllPutsArrive`,
`XAllComplete`, `AllExit`, `AllDone`) and the absence of deadlock, which need fairness
and `ENABLED` and are outside the prover's reach. The warning of the benchmark about
windows and put is about liveness: the proof of `FlowInv` does not use that part of
`ConfigsAssumption`, only `AllDone` needs it.

## Plan

1. *Done:* the MPI backend with both completion managers and streams, its
   contract, the lifecycle, long messages, the GASNet-EX, LCI and LCI2 backends,
   the benchmark as a client, and the proofs above: every safety property of all
   of these, with the implementation of the contract by all the backends.
2. Handlers that call back into the library from inside a signal; a put longer
   than the target's `put_rbuf`.

## Not modelled

- Handlers that call back into the library from inside a signal. `LocksExact`
  and `SafeToReenter` say when they could.
- Of LCI: the wrapper around a custom allocator, queues allocated and freed while
  others are in use. Of the benchmark: contents of messages, timing, thread
  affinity, and its single-process mode.
- Of GASNet-EX: devices allocated while others communicate (only the client's
  barrier keeps `push_back` and the handler apart), `get_max_tag`, puts above the
  longest medium message (GASNet aborts), and `set_custom_allocator`: it stores the
  allocator and the handler's copy one after the other, at any time, and nothing but
  the client keeps handlers away from it, so that no property of the library could
  be stated.
- The `MPI_REQUEST_NULL` branch of `manager_req_t::do_progress`: `isend` and `irecv`
  never return it.
- Messages longer than the receive's buffer, and tags above `get_max_tag`: errors
  of the client that MPI reports by aborting.
- Out of memory, errors returned by MPI (they abort), custom
  allocators, counters (nothing reads them back but the
  report at the end), logging, `comm_exp.hpp` and the hello-world programs.
