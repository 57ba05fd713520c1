# A TLA+ verification of fsim

fsim is a simulator for VHDL, Verilog, SystemVerilog and SystemC. It compiles a
design to SimIR and runs it, interpreted or compiled, on one deterministic
event scheduler. This directory holds TLA+ modules of the parts where order and
concurrency decide correctness, the TLC configurations that check them, and
proofs checked by TLAPS. `PROJECT.json` lists the components, runs, mutants,
hazards, findings and theorems, and gives for each definition the source lines
it models.

Paths below are relative to the repository.

## The system and its parts

| Part | Source | What is hard | Module |
| --- | --- | --- | --- |
| Event scheduler | `src/runtime/scheduler*.cpp` | callbacks re-enter every call; stop, throw and resume at any point; limits | `Scheduler` |
| Phase queue | `WorkQueue` in `scheduler_internal.hpp` | five representations of one order | `WorkQueue`, `OrderedQueue` |
| Cancellation slots | `CancellationSlots` in `scheduler_internal.hpp` | stale handles, exhausted generations | `CancellationSlots` |
| Static kernel pool | `simir_static_kernel_pool.hpp`, `simir_static_kernel_parallel.cpp` | relaxed stores, late workers, lost wake-ups, wrapping epoch | `KernelPool` |
| Parallel loops | `include/fsim/support/parallel_for.hpp` | exceptions, failing thread creation | `ParallelFor` |
| Fork, disable, process handles | `src/runtime/simir_fork.cpp` | a child ends while its parent is disabled, stale timers, suspension | `SimirProcesses` |
| Mailboxes, semaphores, events | `src/runtime/simir_synchronization.cpp` | killed and suspended waiters, order of service | `SimirSynchronization` |
| UVM objections | `src/runtime/uvm_objection.cpp` | a drain racing a raise, re-entrant callbacks | `UvmObjection` |
| VPI callbacks | `src/runtime/vpi_callback.cpp` | registration, removal and dispatch during a dispatch | `VpiCallback` |
| Directory lock | `CacheDirectoryLock` in `src/compiler/object_cache.cpp` | crashed owner, several recoverers | `DirectoryLock` |
| Library store | `src/app/application_workspace_store*.cpp` | a crash between catalog and files, obsolete artifacts | `LibraryStore` |
| Interpreter, drivers, static kernel domains, class heap | `src/runtime/simir_*.cpp`, `class_heap.cpp` | data | |
| UVM phases, sequences, events; VHPI | `src/runtime/uvm_*.cpp`, `vhpi_callback.cpp` | waiters, handshakes | |
| Frontends, elaboration, LLVM engine, SystemC backend, tracing, coverage, API, CLI | rest of `src` | data, I/O, external kernels | |

The parts meet in the scheduler. The interpreter, the UVM services, VPI and the
SystemC backend all act by scheduling callbacks; a callback runs inside `run()`
and may call any scheduler operation. The static kernel replaces the
interpreter for some processes and spreads one batch over the lanes of its pool,
inside one scheduler callback. Elaboration and the kernel's planning use
`parallel_for`. Compile and link commands of several processes meet in the
library store, under the directory lock.

## Modules

`MC*` modules are the instances for TLC, `*Proofs` modules the theorems about
the module they extend. Two modules compose others: `SimirSynchronization`
extends `SimirProcesses`, so that kills and suspensions meet every waiter queue,
and `LibraryStore` extends `DirectoryLock`, so that its writers crash, recover
each other's lock and continue on what the other left.

### CancellationSlots

A slot is `[generation, active, task]`; the free list is the sequence from
`free_head_`. Entries and handles are identities (slot, generation) with the
task they were issued for. Each call is one action: `AcquireFreeSlot` and
`AcquireNewSlot` are the two branches of `acquire`, with the entry and handle
the scheduling call makes. `Execute` is `take` on a popped entry, `DropCancelled`
the lazy deletion, `DiscardEntry` the release in `discard_queued`.

### WorkQueue and OrderedQueue

A key is the rank of an (order, sequence) pair. The bulk is a sequence sorted
from the cursor on; insertions are kept as a sorted sequence, which is what a
heap offers through its front. A ticket is one entry with the keys of its
members. `push`, `pop`, `next`, `compact`, `compact_batchable_groups`, the
readiness calls and the direct dispatch are actions or operators of the same
name. `OrderedQueue` is the abstract specification: a set of keys, taken in
order. `ImplementsOrderedQueue` maps the representation to the set of live keys
and says that every operation is an insertion, a removal of the least keys, or
no change.

### Scheduler

State: `future` (live entries of later slots), `queued` (entries of the current
slot, each naming its queue), the cursors of the slot (`phase`, `delta`,
`sv_phase`, `sv_round`), the key counter, epoch and reserved keys, and `pc`, the
point `run()` has reached. `Client` has one action per call of the interface and
is enabled between runs, in every callback and in every hook. `Select` is the
top of the loop in `run()`: stop, run dry, time limit, load a slot, resume or
freeze a SystemVerilog batch, select a phase, begin a delta, end the slot.
`Dispatch` drains: an ordinary task, a batch, their ends and failures, the end
of a pass and the hooks.

What is abstracted:

- All batch entries have one executor and group. A batch takes a run of batch
  entries from the front, at most `BatchChunk`. An executor consumes members one
  by one and ends on a stop, on a new revision or on a failure, as the
  interpreter's does (`simir_execution_part2.cpp` 959-989). `BatchThrows` stands
  for other executors, which may throw before any member.
- A declined batch runs its first entry alone, which is `StartTask`.
- The revision counter is the flag `revised`, set since the callback began. Work
  pushed into the running Active batch (`scheduler_systemverilog.cpp` 1081) does
  not set it, as in the code.
- The quiet hook cannot throw (the code requires `noexcept`).
- A reserved key has at most one live entry; its clients keep to that.
- Cancelled entries leave at once. In the code they stay until skipped;
  `WorkQueue` shows that popping and `empty()` do not tell the difference. Only
  `next()` does, while a ticket is dispatched directly: it may give the key of a
  cancelled entry behind the ticket. `run()` does not use it there.
- `status` and `finished` are history.

### KernelPool

Lane 0 is the caller. Every access to an atomic that another lane can observe is
a step. The relaxed stores of a batch become visible in any order before the
release store of the word, which is how a late worker can meet them. A weak
compare-and-swap may fail spuriously (`ClaimFails`). Spinning is stuttering.
Waiting is atomic with its comparison, as a futex's is. `ran` counts body
calls per item of the last call. `MixesModes` says whether one owner makes both
kinds of call; the run says FALSE. In a pool that used both `run()` and
`run_lanes()`, a late worker could run its pinned share before the batch is
published and again after it. By default one pool uses one of the two; with
`FSIM_KERNEL_MT_COMMIT=0` and a plan with domains it uses both. Left out: trace
output, and failure to create a thread in the constructor.

### ParallelFor

The call's count and the set of throwing indices are chosen at the start. The
serial path, thread creation and its failure, chunk claims, body calls, the
catch per chunk, join and rethrow are actions.

### SimirProcesses and SimirSynchronization

One process executes at a time; an operation is one step and `current` is who
executes it. A program is the set of operations a process may execute, so one
instance covers all texts made of them. Of a program counter the model keeps
whether it is inside the one block that `disable` names and what the process
waits at. `queue` holds the wakes handed to the scheduler; a timed wake carries
the `timer_epoch` it was made for and does nothing when `disable` has advanced
it. `fork_groups`, `waiting_for_children`, `waiting_process` and the three
suspension variables are the interpreter's. Ending a process runs the whole of
`complete_process`: joins, `wait fork` and `await` of it are settled in that
step.

`SimirSynchronization` adds one mailbox, one semaphore and one event, with their
waiter queues. Killed waiters stay queued, as in the code, and are skipped when
reached. A value is its number, so order and loss can be stated; `sent`, `taken`
and `dropped` are history.

Which designs are run. Programs in which `disable` reaches a process that waits
at a mailbox, a semaphore or an `await`, or in which a process suspended at an
event is triggered, are left out of `SoundDesigns`: `NoProcessStranded` and
`NoSpuriousWake` are false of them, because the waiter is then forgotten or
wakes at the wrong place. So the `processes` run does not say that these two
hold of every program. The second case is the `suspended_event` run; the first
has no run of its own. Among the things
that hold but may surprise: a killed waiter with a large demand at the head of a
semaphore's queue keeps the live ones behind it waiting until the next `put`,
and `SemaphoreFair` says no more. A semaphore may be created with a negative
number of keys (`simir_synchronization.cpp` 510); `SemaphoreFair` then says that
the number does not fall further.

Left out: `disable` by hierarchical name, `disable fork` of one site, the end of
a program block, the kill of dynamic processes at the end of a simulation, wait
timeouts, `wait_order`, element kinds and byte limits, and processes hosted by a
static kernel.

### UvmObjection

One phase and one root. `mutate` (raise, drop and set) and the finalization of
the root are frames of a stack, because their callbacks call the service again
in the middle; each frame advances by one step per callback. A drain is a
generation and a scheduler task; a task of an old generation completes into
nothing. All callbacks are re-entrant in the run, those of a raise too. There
`LastDropEndsPhase` needs an exception: a `Raised` callback that drops what is
being raised starts a drain, and when it returns `mutate` cancels the drain of
the raise's source without looking at its count again (`uvm_objection.cpp`
594-596). Nothing is then raised, no drain is pending, and the phase does not
end before the next raise and drop. `undone` is the history that tells this
state, and `NothingLeftToEnd` is all that the property leaves out. No test
re-enters from `Raised`. The counts kept
for components between source and root, which no decision reads, and the
resource ceilings other than the re-entry ceiling are left out.

### VpiCallback

`calls` is the stack of dispatches that have not returned: the manager's lock is
not held while a callback runs, so the callback registers, removes and
dispatches again. An item of a dispatch is a registration and the change it is
told. `StartCallback` and `CallbackReturns` are the two halves of
`dispatch_callback` around the call. `scheduled` holds the tasks given to the
scheduler; value changes are dispatched in the order of their numbers.
`dispatch_pending` from inside a callback is kept out of `Nested`: a callback
that asks for pending changes while another change is being told sees them in
the order it asks for, and `ChangesDelivered` is not claimed there. The theorems
below include it. The callbacks of a change are those registered when it is
dispatched, as the comment at 406-410 says, and `ChangesDelivered` is about
them.

Calls fail too. `RegisterFails` is a registration that the scheduler refuses or
memory does not allow: its record is erased, and what was done before the
failure stays, an entry in `slot_start_waiting` (726, 790-793) or in the index
(697-711). `RetiredLeavesNothing` says that such entries are all that is left,
and that they never run a callback. `ObserveFails` is a change whose task is
refused: the registrations that it concerned retire (479-489). One failure is
left out, a change that cannot be appended to the kept ones (420-424): after
`dispatch_pending` has told a later change, that change is passed over, although
the comment there says it is dispatched in its turn.

### DirectoryLock and LibraryStore

A contender is a thread; several may share a process, and a crash takes the
process. One action is one access to the file system: `create_directory`, the
publication of the owner file, the read of an owner, the rename to a quarantine,
the comparison after it, the rename back, the removals. "crash" may happen
between any two, "io" makes an access fail where the code handles it.

A `LibraryStore` writer that holds the lock loads the catalog, allocates and
fills pending files, merges its records, saves the catalog in one SQLite
transaction, installs the files one by one and collects what nothing names.
`merge_records` and what it makes obsolete (VHDL secondary units, dependents,
plugins) are operators over sets of records. The revision id of an artifact
stands for its content. `Outputs` are the objects that compiling may make of the
sources, and which of them a command makes is open: an edited source defines
another unit, or one less, and a secondary unit moves from one source to
another. A collection lists the files the catalog does not name and removes them
one by one; the listing may stop early and a removal may fail
(`store_io.cpp` 292-297, 375-381).

Four variables are history, and the properties except exactly what they name.
`torn`: records whose file never followed, because the writer crashed or failed
in between. `unbacked`: dependencies of a command's records that the same
command replaced. `missing`: units that were deleted, or that their source no
longer defines; `merge_records` leaves those who depend on them, and
`validate_workspace_dependencies` reports them at elaboration. `refused`: files
that this collection could not list or remove.

## Runs

| Run | Instance | Distinct states | Shows |
| --- | --- | --- | --- |
| `cancellation_slots` | 5 tasks, 3 generations, symmetric | 337 thousand | handle and free-list safety |
| `work_queue` | 4 keys, 1 group, compaction from 2 entries | 631 thousand | refinement of `OrderedQueue`, `next` is the least live key |
| `scheduler_generic` | 2 entries before and 2 after a discard, 2 ticks, 2 phases, fair | 56 thousand | deltas with hooks, throws, cancel, discard; results; every task finishes |
| `scheduler_systemverilog` | 3 entries, 2 orders, limit 2, chunk 2 | 1.5 million | rounds, frozen batches, stops, receipts, key order, limits |
| `kernel_pool` | 2 lanes, 2 or 5 items, 3 batches, epoch modulo 3, fair | 139 thousand | each item once, in its call; return and shutdown; both modes |
| `parallel_for` | up to 6 items, 3 jobs, fair | 46 thousand | same result as the serial loop |
| `processes` | 2 processes, 2 forked ones, 4 designs | 330 thousand | no waiter stranded or woken early, kills, order of service |
| `uvm_objection` | 2 sources, 2 descriptions, 6 mutations, depth 3, fair | 206 thousand | drains exact, the last drop ends the phase |
| `vpi_callback` | 3 registrations, 2 changes, depth 2 | 2.5 million | one-shots, removal, failing registrations, delivery of changes |
| `library_store` | 3 commands of 2 writers, 6 objects of 5 sources, 1 fault, 4 revisions | 1.2 million | backed records, nothing obsolete, no garbage, recovery of stale locks only |

Why the bounds are enough. Two entries show an order; three show one inserted
between two others, and leave a suffix behind a batch of two. The generic run
has no batches and reserves no keys; what it checks of them is proved
(`NoTaskLost`). Two ticks separate the present from the future. A limit of two
is reached and would be passed by one more entry. Phases are chosen so that a callback can schedule
behind, at and ahead of the cursor. Three generations let a slot be reused twice
and then retired. Two batches make a worker late, three make it late twice. An
epoch modulo three wraps within the life of the pool. Counts of two and five
give one item per lane, and chunks with a short last one. Four processes give a
parent, two branches and an outsider that kills or suspends; a mailbox of
capacity one with two puts is empty, full and waited at from both sides. Six
mutations nested three deep let a drop's callback raise and drop again while
another drain is pending. Three registrations, two changes and two dispatches
let a callback remove itself, another and a new one, with a change in between.
Two writers and one fault let each command meet what any prefix of any other
left, and let a second collection remove what the first could not. An entity
with an architecture that two sources may define, a user of the entity and a
user of that user reach the branches of `merge_records` for secondary units, the
closure over dependents, and units that are moved or dropped.

Deadlock is checked in the scheduler, slot and queue runs. It is not in the
others, whose processes rightly end.

Two runs find a disagreement between the code and what the repository says:

- `directory_lock` (code): `recover_stale_lock` renames whatever is at the lock's
  path and only then compares owners. With one crashed owner and three
  contenders, a late recovery takes away a valid lock and a third contender
  creates its own before it is put back: two hold the lock.
  The comment at `object_cache.cpp` 272 calls the restore conservative. The two
  writers of `library_store` are too few for this, so what that run shows holds
  of a lock that excludes, and exclusion is not among its properties.
- `suspended_event` (doc): an event trigger skips a suspended waiter and forgets
  it, where `docs/simulation-engine-v4-progress.md` 1914 says that a wake is
  held until resume. The section describes the threads of the static kernel,
  which are to behave as the interpreter does.

Two comments of `scheduler.hpp` promise slightly more than is checked here. A
receipt (190-193) is exact for the Active region (`ActiveReceiptExact`); for
other regions Active work that arrives later can start a round first. And the
phase revision (709-711) does not change for work pushed into the running Active
batch.

## Fairness

- Scheduler: weak fairness of `Select` and `Dispatch`, because `run()` is a loop
  on one thread and callbacks return or throw; strong fairness of an unlimited
  `run()`, because a program that stops calling it finishes nothing. The fair
  run has no calls that request a stop and no batchable work (an executor that
  always throws would starve its batch), and its limit on deltas is high enough
  that no cycle error ends it.
- Pool: weak fairness of every thread, from the operating system; strong
  fairness of a successful claim, because a weak compare-and-swap does not fail
  spuriously for ever. The owner need not make another call.
- Parallel loops: weak fairness of every started thread and of the caller.
- Objections: weak fairness of the service's own steps and of the drain tasks,
  which the scheduler executes in time; none of the testbench's calls.

`PoolStops` excepts one case. The epoch has 16 bits, so a worker that misses
65535 batches in a row can find the number it saw last in the destructor's word,
and sleep through the stop. Without the exception TLC finds this with an epoch
modulo three.

## Theorems

Twenty-four theorems, in eight `*Proofs` modules, hold for every value of the
constants that the named assumptions allow. The assumptions are about typing,
positivity and the kinds of values (`ConstantsAssumption` and its like in each
module). Two theorems have a hypothesis besides, on what is called:
`EachItemRunsOnce` and `WakesReachTheirWaits`.

**Cancellation slots** (`CancellationSlotsProofs`: `CancellationCorrect`,
`EntriesFindTheirTasks`, `CancellationIsFinal`, `FreeListCorrect`). The four
invariants are not inductive: nothing in them says that two identities differ in
slot or generation. `IInv` adds that an identity names an existing slot and a
generation not above the slot's, that identities are unique, that an active slot
has the one queued entry that names it with its generation, and that the history
is about issued tasks. The free list needs lemmas on pushing to and popping from
a sequence without repetitions.

**Scheduler, states** (`SchedulerProofs`: `SlotCorrect`, `PresentIsOwned`,
`LimitHolds`, `NoTaskLost`). `SlotInv` adds `CursorsFit`:
what the cursors are without a slot, which points of `run()` have a slot, when a
phase is selected, and which queues future entries are in. One step per action;
the scheduling actions share a lemma on where an entry may be placed.
`NoTaskLost` also needs `KeysFit` (no reserved key ahead of the epoch, usable
keys differ, an ordinary callback runs one entry) and keeps books: the sequence
numbers handed out are the disjoint union of those of live entries, finished
tasks and usable keys (`Accounted`).

**Scheduler, steps** (`SchedulerProofs`: `StopPrompt`, `DeltaSettled`,
`FrozenBatchCompletes`, `PostponedLast`, `RunResultTrue`, `ActiveReceiptTrue`).
Action properties over `SlotInv`. Most follow from the guards of the few steps
that can disturb them. `PostponedLast` needs `EndOfSlotAlone`: as long as an
end-of-slot pass has not run its callback, only end-of-slot work is queued, and
after the callback the pass ends. `ActiveReceiptTrue` needs `ReceiptsFit`: the
receipt of a queued Active entry, where it has one, is the round after the
current one, which is the round of the next freeze.

**Kernel pool** (`KernelPoolProofs`: `EachItemRunsOnce`). For any number of
lanes and batches, any counts and chunk sizes and any epoch modulus, under
`~MixesModes`. The invariant has two halves. For `run()`: the items handed out
are those below `state.item`, each is settled or in the claim of one lane, a
claim has run up to its `at`, and `completed` counts the settled ones; a lane
that holds a claim has the word and the body of the running call, because the
call cannot end before that claim is counted. For `run_lanes()`: each worker is
before, in or after its pinned share of this batch, and the call waits for all
of them, so that nobody is a whole batch behind and the wrap of the epoch does
no harm. A pool that was not called yet may become either.

**Parallel loops** (`ParallelForProofs`: `IndexOnce`, `AllJoined`,
`AsSerialLoop`). Chunks partition the indices, for any count, grain and number
of jobs. The invariant says, per chunk, who has it and which of its indices have
been called: all of a finished one up to its failure, those behind `at` of a
running one, none of one not yet claimed. The first failing chunk then holds the
lowest failing index.

**VPI callbacks** (`VpiCallbackProofs`: `RetirementClean`, `OneShotRunsOnce`).
What waits to be dispatched is told apart from what is being dispatched: a
registration in a dispatch neither waits for a slot start nor has a task of its
own. A one-shot registration is in at most one dispatch of the stack, because
nested dispatches have only lifecycle, assertion and value-change kinds and no
two are of the lifecycle kind. A registration that failed is never among the
records again (`FailedInv`), so that the entries it left start no callback.

**Mailbox** (`SimirMailboxProofs`: `MailboxCorrect`). For every capacity and any
number of processes and programs. `MailboxInv` adds to `MailboxFair` that the
values stored and those waiting with a writer are apart from each other and from
the dropped ones, and that the box is never over capacity. The hard step is a
`get`: it skips killed writers, whose values are dropped, and lets in the first
live one; the values behind it stay in order.

**Killed families** (`SimirProcessProofs`: `KilledFamiliesStayEnded`). A
suspended process hides the status it had, and a wake of a killed process would
run it again; `FamilyInv` says that neither happens, that nothing of a halted
process is in the scheduler and that parents were born before their children.
Ancestry is the least set closed under `parent`, so that its transitivity is a
lemma and needs no recursion.

**Semaphore** (`SimirWaitProofs`: `SemaphoreCorrect`). For any initial keys,
negative ones included. `SemaphoreInv` adds only types and that waiters exist.
The demand of the first waiters is a recursive function; a lemma shows by
well-foundedness that its sums exist, and a `put` then takes the longest prefix
that the keys allow.

**Waits and wakes** (`SimirWaitProofs`: `WakesReachTheirWaits`, for
`NoProcessStranded` and `NoSpuriousWake`). The hypothesis `Undisturbed` is on
the designs: nobody executes `disable`, and nobody who waits for an event can be
suspended. `WaitInv` says for every kind of wait where the process is found by
what will wake it: a join in its group, with live children; an `await` or a
`wait fork` with those it waits for alive; a get, put or semaphore wait once in
its queue; an event waiter in the event. And it says that the scheduler has
exactly one wake of every process that is due, a timer if it waits at a delay.

Only model-checked:

- Liveness: `EveryTaskFinishes`, `EveryCallReturns`, `PoolStops`, `CallReturns`
  and `LastDropEndsPhase`. Fairness and ENABLED are out of the prover's reach.
- `StartsInKeyOrder`, which does not hold for all constants: neither work pushed
  into a running Active batch nor end-of-slot work scheduled while a postponed
  batch runs changes the revision.
- `ImplementsOrderedQueue` and `NextIsLeast`: they rest on sorting, filtering and
  folding sequences, which is induction over data.
- `RunsOnceEach` of a pool that mixes `run()` and `run_lanes()`: false, as
  described above.
- `LibraryStore`: mutual exclusion holds for two contenders and not for three
  (see `directory_lock`), and the rest depends on it.
- `NoSpuriousWake` and `NoProcessStranded` of designs with `disable`: the designs
  `Families` and `Blocks` of the run.
- `DrainsExact`, which counts entries, and `ChangesDelivered`, which holds under
  the restriction on nested dispatches described above.

## Not modelled, and why

`PROJECT.json` has one entry per part. In short:

- Readiness pools and SystemVerilog group batch reservations
  (`scheduler_systemverilog.cpp` 124-939): storage reuse for entries whose order
  the queue model already has.
- Ordered SystemVerilog tickets and the queries `has_order_at_most` and
  `pending_orders` of the queue.
- `parallel_sort`: merges of disjoint ranges on top of `parallel_for`.
- Static kernel domains, commit and replay: what may run in parallel is the
  result of an analysis of the design. The lanes are `KernelPool`.
- The interpreter's operations, signal resolution and the class heap: data.
- UVM phases, sequences and events, and VHPI: control of the same kind as the
  modelled objections, processes and VPI callbacks, and not written. A phase
  jump reaches the objections as `cancel_phase`, which is modelled.
- The object cache: one SQLite transaction per operation.
- The SystemC backend: two kernels in lock step, of which one is external.
- Frontends, elaboration, code generation, constraint solving: large pure
  transformations of data, where a bounded instance says little.
- Tracing, coverage, PLI, API, CLI, platform code: I/O and forwarding.
