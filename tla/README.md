# A TLA+ model of the Cartesi machine emulator

The emulator runs a RISC-V machine deterministically and can prove what it ran.
Its correctness rests on four things that tests reach badly:

* **the root hash is the hash of the state.** Memory changes behind the hash
  tree's back (stores that hit the TLB touch no bookkeeping), trees are rehashed
  incrementally and in parallel, and all of it may live in files that are shared
  and survive the process;
* **the execution is a function of the state.** One long `run()`, many short
  ones, `log_step()` and the microarchitecture, one cycle at a time, must go
  through the same states, although the interpreter looks at interrupts only now
  and then, and every instruction must compute what the manual says;
* **what is logged can be verified, and only that.** Two programs that never meet,
  a recorder with the whole machine and a verifier with a log, must agree on one
  root hash;
* **nothing is lost between guest and host**: buffers in rings, packets, requests,
  characters, file descriptors, forked servers and the inputs of a rollup.

This directory models these parts, checks them with TLC on small instances, and
proves with TLAPS, for instances of any size, the main results about the first
two, those about access logs and, of the last, those about file descriptors and
forked servers. Paths below are relative to the repository, whose C++ sources are
in `src/`.

## 1. Inventory of the system

| Component | State | Operations | Interacts with |
|---|---|---|---|
| Dirty-page tree (`dirty-page-tree.hpp`, `i-dirty-page-tree.hpp`) | one flag per node of a complete binary tree over a range's pages, in a file that may be shared | mark page dirty / clean and up, iterate over the dirty nodes of a level, `clean()` | marked by every write path, walked and cleaned by the hash tree |
| Page hash-tree cache (`page-hash-tree-cache.hpp`) | entries (copy of a page and its word-level hash tree), LRU list, borrowed flags, in a file; address map in memory | borrow, return, enqueue the words that changed, flush, reopen | lent to the hash tree's updates and proofs |
| Hash tree (`hash-tree.cpp`, `dense-hash-tree.hpp`) | a dense tree per range, a sparse tree above, marked flags, all possibly in shared files | `update`, `update_page`, `get_proof`, `get_node_hash`, `verify` | reads memory, the dirty-page trees and the cache; root hashes go to clients, logs and collections |
| Write TLB (`machine.hpp`, `machine.cpp`, `shadow-tlb.hpp`, `interpret.cpp`) | shadow slots (part of the hashed state), hot slots with host pointers | hit, miss, flush, mark, verify, overwrite, store / load | decides which pages an update marks dirty |
| Interpreter (`interpret.cpp`, `soft-float.hpp`, `riscv-warl.hpp`, `translate-virtual-address.hpp`) | `pc`, registers, `mcycle`, privilege, CSRs, `iflags` | outer and inner loop, traps, every instruction, the page-table walk | devices through MMIO, host through break reasons |
| CLINT, PLIC, HTIF (`*-address-range.cpp`) | `mtimecmp`; pending and served lines; `tohost`, `fromhost` | MMIO reads and writes | drive `mip` and `iflags` |
| VirtIO devices (`virtio-*`) | queues, device status, interrupt status, host-side queues | MMIO, `poll`, host completions | PLIC, guest memory, host I/O |
| Microarchitecture (`uarch-*`, `uarch/`) | RV64I registers and RAM | step, reset, log, replay | runs the interpreter compiled for it, over the same state |
| Logs (`record-*`, `replay-*`, `uarch-record-*`, `uarch-replay-*`) | touched pages or words, sibling hashes | record, replay, verify | hash tree; verifiers outside the machine |
| Collections (`collect-*`, `back-merkle-tree.*`) | period, phase, bundle, pages noted | `collect_mcycle_root_hashes`, `collect_uarch_cycle_root_hashes` | interpreter, hash tree |
| Storage (`machine.cpp`, `machine-config.cpp`, `scope-remove.hpp`) | files of a stored machine | store, load, clone, remove | every part with a backing store |
| CMIO (`send-cmio-response.cpp`) | rx buffer, revert root hash, `iflags.Y` | send response | yields of the guest; rollup hosts |
| Consoles (`machine-console.cpp`) | output and input buffers, where they lead | flush, refill, redirect | HTIF, VirtIO console, `run()`, host |
| 9P file system (`virtio-p9fs-address-range.cpp`) | fids, the descriptors they hold | the 9P2000.L requests | a directory of the host |
| Remote machines (`jsonrpc-*`, `json-util.cpp`, `base64.cpp`) | server processes, sessions | fork, rebind, shutdown, every machine call | clients over HTTP |
| Command line (`cartesi-machine.lua`) | current and backup server | run, advance, snapshot, commit, rollback | remote machines |

`PROJECT.json` lists every component, with its status, and under `hazards` the
places where the code is hard to test. What makes it hard, by kind:

* *crashes*: trees, flags and caches are updated in place in files mapped shared,
  in several steps, and the next owner starts from whatever is there;
* *stale state*: hashes, cached pages, TLB slots and host pointers outlive what
  they describe, and every path that changes the original has to know;
* *order*: the batches of an update clean pages of the set it is walking; hashes
  wait in SIMD queues; threads finish pages in any order;
* *interleaving of guest, devices and host*: when an interrupt becomes
  deliverable and when it is looked at are decided at different places;
* *partial failure*: an answer that does not fit, a flush cut short, a rebind that
  fails after the shutdown before it succeeded; each has its own undo, in a
  branch hardly ever taken;
* *boundaries*: ticks, targets, waits, ring indices that wrap, queues at their
  limits, more dirty pages than cache entries, the edges of number formats.

What makes each part correct is stated in section 3, run by run.

## 2. Modules

```
DirtyPages <--implements-- DirtyPageTree --- DirtyPageTreeProofs
                              |  (its set of dirty pages)
PageHashTreeCache ----------- HashTree ------ HashTreeProofs
  |  (its borrows succeed)    |  (its update rehashes what is dirty)
  PageHashTreeCacheProofs  WriteTlb --------- WriteTlbProofs
                              |  (its root hashes are those of memory)
                           AccessLog -------- AccessLogProofs
                           StepLog
Plic <--extended by-- Interpreter ----------- InterpreterProofs
Virtio <-- VirtioBlock, VirtioNet, Console <-- Devices
P9fs ---------------------------------------- P9fsProofs
RemoteMachine <--extended by-- RollupLoop --- RollupLoopProofs
Arith <-- Ieee754 (SoftFloat twice), Isa, and instances of Decode, Translate,
          Hashers, CollectHashes, Csr, FloatInsn, Codec
```

A module takes for granted only what the one below it shows: `HashTree` has the
*set* of dirty pages that `DirtyPageTree` is shown to implement and lets borrows
succeed, as `PageHashTreeCache` shows they do; `WriteTlb` has an update that
rehashes every page marked dirty, as `HashTree` shows. Hashes are terms built by
injective constructors, so two hashes are equal exactly when what they hash is.

### DirtyPages, DirtyPageTree

`DirtyPages` is what the users of the tree are promised: a set of pages, a cursor
over the nodes of a level that cover a dirty page, in increasing order, and a
sweep after which nothing is dirty. `DirtyPageTree` is the code: flags at
positions `1 .. 2^LevelCount - 1`, position 0 marking an initialized file, and
every *iteration* of every loop a step (`pc`, `pos`), because the owner of a
shared file may be killed between any two of them. Actions: the constructor
(`Open`, `Fill`, `BuildLevel`, `SetInitialized`), `MarkDirty`/`DirtyStep`,
`MarkClean`/`CleanStep` (the climb towards the root), the dirty iterator
(`BeginWalk`, `First`, `Up`, `Down`, `StepWalk`, `EndWalk`), `clean()`
(`BeginSweep`, `SweepBody`, `SweepNext`, `EndSweep`) and `Crash`, which is also
closing. `CrashPoints` names where a crash may happen.

### PageHashTreeCache

Entries with a page, the hashes of its words, a root and the borrowed flag; the
LRU list; the map, rebuilt on open. A borrow takes several steps
(`BorrowHit`/`BorrowMiss`, `SetBorrowed`, `SetPaddr`) in the order in which the
code writes to the file. The update (`BeginUpdate` .. `EndBatch`) borrows until
nothing is left, hashes the entries of the batch in any order (`HashEntry`, one
per thread) and returns them; a proof (`BeginProof` .. `ServeProof`) trusts a
hit. `Crash` restarts from the file. `mem` is the guest's memory, a function from
words to values.

### HashTree

Dense nodes `<<range, level, index>>` with pads after the last page, sparse nodes as
a table (`Sparse`, what `create_nodes` built), dirty leaves, page cache. `update`
is the page phase (`WalkPage`, `BatchFull`, `HashPage` in any order,
`ReturnPage`, `EndBatch`), the dense phase level by level (`DenseLevel`), the
sparse phase (`SyncRanges`, `PopNode` from the priority queue with the flush at
every level, `EndSparse`) and the cleaning (`CleanRange`, `EndUpdate`).
`RecordedWrite` is a write followed by `update_page()`, `GetProof` a proof below
page level, `Replace` a range replaced by one with new files, with a stored dht,
or with stored clean files. Levels are real: the small instance has a range
deeper in the sparse tree than the other. `Resumable` says that updates are killed
only where the next one can resume them and that replacements are marked dirty;
section 4 has what happens otherwise.

### WriteTlb

Which pages are `stale` (changed since they were hashed) against which are
known to be: marked `dirty`, in the write TLB, pages of the shadow, or noted by a
collection. Actions: stores that hit, miss, or go elsewhere (devices, faults),
each with the page-table entries the walk writes; `Flush`; writes of the
microarchitecture and of the host (`WriteWord`, `WriteUnverified`,
`WriteShadow`); `Reopen` (store and load, with any part shared); `Replace`;
`GetRootHash`; collections (`BeginCollect`, `CollectHash`, `EndCollect`), which
update the tree without looking at the TLB.

### Plic, Interpreter

`Plic` has the devices' interrupt status, the pending and served lines and the
external bits of `mip`, as operators; `Interpreter` extends it with the loops.
`phase` says where `interpret()` is: with the host, in the outer loop, or in the
inner one. `OuterLoop` is one turn of the outer loop up to the inner one: the
timer, the poll, the interrupt of highest priority. An instruction is one of the
actions from `Plain` to `WriteTohost`, by what it does to privilege and
interrupts; how it ends (`Continue`, `ServeInterrupts`, `ReturnToHost`) is the
`execute_status` of the code. The host calls `interpret()` with any target,
completes device requests and answers yields between runs. Addresses, data and
causes are left out: exceptions are delegated or not (`medeleg` is not looked at
anywhere else), and the virtual time is `mcycle`, which is kept.

### Virtio, VirtioBlock, VirtioNet, Console, Devices

`Virtio` has the registers and split rings as a record `s` and the functions of
the base class as operators on it: walking descriptor chains (`Walk`,
`Transfer`), `ConsumeDesc`, `PrepareQueueWrite`, the loop of
`on_device_queue_notify` (`NotifyBegin`, `NotifyTurn`), interrupt status, resets
and register writes. Each device module has its virtual functions; `Console` has
`machine_console`, whose operations are sets of outcomes because the host decides
how much a write takes, and the VirtIO device that uses it. `Devices` composes one device with a driver
(`DriverInit`, `Publish`, `Notify`, `Acknowledge`, `DriverReset`, the HTIF
commands), the interpreter (`Run`, `RunFlush`, `RunRefill`, `Return`,
`PollNetwork`) and the host, between runs (requests taken and completed, packets,
characters, a change of destination). Ghosts count what was sent, given and
received. The driver keeps to the VirtIO specification for its rings and may do
anything else; rings and buffers may lie outside RAM, which makes the device ask
for a reset.

### P9fs

One action per request (attach, walk, open, create, mkdir, symlink, mknod, link,
rename, unlink, read directory, clunk, and those that only look), and the reset. A request is
a descriptor chain, an operation of the host, which may fail, and an answer,
which may not fit; `last` remembers the request, `lost` the descriptors that a
walk of an open fid onto itself gives up. Names are sequences of letters, since
`op_renameat` compares paths letter by letter: `Occurs` is one occurrence of the
old path in another, `StartsWith` what `path.rfind(oldpath) == 0` says, that the
*last* occurrence is at the beginning.

The host's file system is a function from paths to files, directories and links,
with the shared directory and those above it from the start. The device hands
whole paths to the host, so every call first resolves one: `Entry` follows the
links on the way and not the last name (`lstat`, `unlink`, `rename`, and the calls
that make something), `Final` the last one too (`open`, `opendir`, `statfs`).
Targets of links are absolute paths without dots, there or not; relative ones, and
dots in a target, are left out, as they lead nowhere that an absolute one does not.
The shared directory's own path is taken to be absolute and without links.

### AccessLog, StepLog

`AccessLog` has a memory of sixteen leaves and hashes that are their own
preimages. The three logged programs (a microarchitecture step, its reset, a CMIO
response) are given as the accesses they make as a function of what their reads
returned; the recorder answers them from the machine, updating its tree page by
page, and the verifier from the log, entry by entry. Between recording and
verifying, entries may be lost, repeated or changed (`Damage`). `StepLog` has
eight pages and an interpreter with a two-slot TLB, run over two accessors: the
recorder, which saves a page when it is first touched, and the replayer, which
has only those pages and the sibling hashes. Its file may be changed in one place.

### RemoteMachine, RollupLoop

`RemoteMachine` has server processes (address, sessions, what they inherited
across a fork, their machine) and clients with one call each. A handler is one
step; the child of a fork closes what it inherited in another. Faults: an answer
lost, a process killed, `fork` or `bind` refused. A request whose client has given
up is still carried out, at any later time (`HandleLate`). `RollupLoop` adds the script:
`todo` holds the calls it still has to make before it next decides, and a failed
call drops them as an error in Lua does; then the closers run (`Closers`).
Another client, `o`, is connected throughout.

### Arith and the modules it instantiates

Pure functions, each beside an independent definition of what it should return:
`SoftFloat` (the template of `soft-float.hpp`, any sizes) against `Ieee754`, which
compares exact values and computes no rounding; `Isa` (integer, atomic and
compressed instructions of `interpret.cpp`, and those of `uarch-step.cpp`)
against arithmetic on integers, against expansions, and against each other;
`Decode`; `Translate`; `Csr` and `FloatInsn` (what instructions do to the state
around those computations); `Hashers` (both functions, bit by bit, against the
standards, and the batches of the SIMD queues; each of the 24 rounds of Keccak has
the lanes and rotations of its own unrolled code); `CollectHashes` (the back tree
against the Merkle tree, a timeline against its definition); `Codec` (base64,
every structure of `json-util.cpp`, the type tags of VirtIO devices and the refusal
of unknown ones included, the arguments and answers of requests). A step of `Arith` is a call. A
byte has `BYTE` bits, a float `EXP32 + MANT32 + 1`: the code's widths are
parameters, and the small ones make all first operands enumerable.

## 3. Runs

Every run is small enough for TLC and big enough for the case it is about to
happen. Deadlock is checked, except in `writetlb`, where a store through an
unmapped host pointer ends the process, in the two logs, which are finite
sequences of calls, and in `arith`. `PageHashTreeCache` is run as it is; the
other runs are of `MC` modules, which hold the values of the constants.

| Run | Instance | Properties |
|---|---|---|
| `dpt` | four levels, five of eight leaves are pages; killed between operations, while the file is built, and inside walks | `TypeOK`, `TreeInvariant`, `OperationsReturn`, `ImplementsDirtyPages` |
| `phtc` | three pages, two entries, two words: an update cannot be served in one batch; killed anywhere | `CacheConsistent`, `NeverFails`, `ProofsCurrent` |
| `hashtree` | eight pages of address space: a range of three pages and a pad, one of one page, replaceable, two levels deeper; batches of two; killed where an update can be resumed | `HashesTrue`, `ProofsCurrent`, `UpdatesEnd` |
| `writetlb` | four pages (one of the shadow, one of a drive), three virtual pages on two slots | `HotAgreesWithShadow`, `NoWriteLost`, `RootCoversWrites` |
| `interp` | two devices, a tick every two cycles, runs of up to three cycles; several delegations | `AssertNoBrk`, `LinesReachTheHart`, `RunsCanBeCut`, `TargetReached`, `RunReturns` |
| `devices` | five kinds of device, rings of two, indices modulo four, queues of two packets and three to give, buffers of one or two characters, one reset | `NothingWaits`, `NothingReordered`, `CharactersKept`, `UsedInOrder` |
| `p9fs` | two fids (symmetric), the shared directory `/a/a`, the names `a`, `ab` and `..`, two names deep, two files made, links to `/a` and to `/a/a/ab`, two descriptors | `FidsSound`, `RefusedUndone`, `RenameFollowed` |
| `accesslog` | two programs, responses of none, a leaf and a half, one word too many, and longer than the core's length counts; four operations, one damaged entry | `LogsAccepted`, `DamagedHarmless`, `SendTakesEffect` |
| `steplog` | three programs of four cycles (a TLB slot replaced, a page table changed, an input rejected), steps of 0, 1, 2 and 4 cycles, one place damaged | `StepsProved`, `StepDamageHarmless` |
| `server` | four processes, an epoch of two inputs or of one and a query, one output each, one fault anywhere | `FaultsContained`, `EpochKept`, `AnsweredByListener`, `EverythingStops` |
| `rollback_lost` | the same | violation of `StateSurvives` |
| `arith` | floats of eight and fourteen bits, registers of eight bits, 256 first operands | `FloatsCorrect`, `InstructionsCorrect`, `PrivilegeRespected`, `HashesCorrect`, `HashesCollected`, `CallsTransmitted` |

A property that has several parts is the conjunction of named definitions, each
with its own comment; every part has a mutant of the code that breaks it. In
words:

* **Dirty pages.** `ImplementsDirtyPages`, `TreeInvariant`, `OperationsReturn`:
  no dirty page is hidden from a walk, although pages are cleaned under the walk's
  feet; `clean()` leaves nothing (its assertion is a step of the abstract
  specification); no loop runs for ever.
* **Page cache.** `CacheConsistent`: list, array and map agree, and an entry not
  borrowed is the hash tree of its own copy even in a file left by a killed
  process. `NeverFails`: the exceptions of `borrow_entry()` are unreachable unless
  a process was killed. `ProofsCurrent`: a proof served without reading memory is
  about memory.
* **Hash tree.** `HashesTrue`: after an update every node is the Merkle hash of
  memory, whatever happened before (`UpdatedHashesTrue`), and between updates what
  is out of date is where the next one looks (`StalePagesDirty`,
  `StaleNodesReached`). `UpdatesEnd`.
* **Write TLB.** `NoWriteLost`, `RootCoversWrites`, `HotAgreesWithShadow`: every
  write is covered by the next root hash, by whichever path it was made.
* **Interpreter.** `RunsCanBeCut`, `AssertNoBrk`, `TargetReached`, `RunReturns`: at
  every instruction boundary, returning to the host and starting again changes
  nothing; every run ends, at its target if it says so. `LinesReachTheHart`:
  external interrupts are neither lost nor invented.
* **Devices.** `NothingWaits`: the driver hears of every used buffer
  (`UsedAnnounced`), a block request published while another was in flight is not
  forgotten (`BlockRequestsServed`), packets do not wait for a guest with room
  (`ReceiveFlows`). `NothingReordered`: a request is at the host once and at the
  head of the ring (`OneRequestAtAHost`), packets arrive once and in order though
  full queues drop some (`PacketsInOrder`). `CharactersKept`: over partial writes,
  errors, full buffers and changes of destination (`OutputKept`, `InputKept`).
  `UsedInOrder`: buffers come back in the order they were published, each once,
  over a wrap of the indices.
* **9P.** `FidsSound`: a descriptor is open exactly when one fid holds it, and the
  path kept for a fid begins with that of the shared directory and goes on by legal
  names, whatever was walked, created and renamed. That is a statement about the
  text of the path, which is what the code checks; the host may follow a link on it
  out of the directory (section 4). `RefusedUndone`: a request that is not answered
  with success leaves files and fids as they were, wherever it failed, apart from
  the exceptions it names. `RenameFollowed`: fids below a renamed path follow it,
  unless the old path's letters come again in theirs or the new path leads through
  a link.
* **Logs.** `LogsAccepted`, `StepsProved`: recorder and verifier agree on the root
  hash after, the revert root hash of a rejected input included.
  `DamagedHarmless`, `StepDamageHarmless`: a damaged log is refused, or the damage
  does not matter. `SendTakesEffect`: a response the host may send is never
  silently ignored by the core.
* **Servers.** `FaultsContained`, whatever fails: outputs follow the verdicts, each
  once and none lost from the buffer (`OutputsFollowVerdicts`), all of them are
  written when nothing failed (`OutputsWritten`), and no process
  holds the address another is about to take (`AddressFree`). `EpochKept`, faults
  aside: accepted inputs stay, rejected ones leave no trace (`AcceptedKept`), and no
  server remains (`NoServerLeft`). `AnsweredByListener`: no forked child or closed server answers
  in another's place. `EverythingStops`.
* **Computations.** `FloatsCorrect`, `InstructionsCorrect`, `HashesCorrect`: as the
  standards define them, at every edge of the small formats. `PrivilegeRespected`:
  the walk allows what the manual allows, a CSR write flushes every TLB that
  depends on it and breaks the loop when it enables an interrupt (`CsrsTakeEffect`),
  and stays within its privilege (`CsrsConfined`). `HashesCollected`: however a
  collection is cut by calls, yields and errors, it is the same timeline.
  `CallsTransmitted`: values survive JSON and base64, and every request of a batch
  that wants an answer has one.

**Bounds.** `MaxCycle` bounds the targets of runs, `CycleModulus` stands for
2^64, where times of the clock wrap around. A tick inside a run, a run that ends
on a tick, and a wait that ends on either need three cycles when a tick is two
cycles long. Two devices are needed for one line to be served while another is
pending. Two cache entries for three pages, and two slots for three virtual
pages, are the least with evictions. Three packets over queues of two make the oldest drop. In
`P9fs`, `MaxPath` and `MaxLookups` stand for the host's limits on the length of a
path and on the links it follows; `/a/a/a/a`, the shared directory's path twice, is
within them, and so is a loop of links, which resolves to nothing. `LenModulus` is
the 2^32 at which the length of a response is narrowed on its way to the core. Values are two per word or page: hashes are
injective, so more values only repeat what two show. Initial registers in
`Interpreter` are arbitrary, because a configuration sets them freely. Ring
indices wrap at four over rings of two, so that a wrap of the index, which the
code has at 2^16, happens within `MaxPublish` buffers. `MaxServers` is the number
of processes an epoch of two inputs needs; `MaxFaults` is one, as the code
promises nothing after two. `MaxOps`, `MaxSteps` and `MaxDamage` bound the logs: a
second step sees what the first left in the TLB and the tree. Eight-bit floats
have every kind of number, and their products and sums reach every rounding case;
a register of eight one-bit bytes has every access size.

**Fairness.** `WF(Step)` in `DirtyPageTree`, `WF(UpdateStep)` in `HashTree` and
`WF(Loop \/ Instruction)` in `Interpreter`: each is one call of a function that
never blocks on anyone (a poll has a timeout), so a step that stays possible is
taken. In `RollupLoop`, weak fairness of the script, of the other client's reading
of its answers, and of each process's handlers, start and exit: each is a process
the operating system schedules, and none waits for a lock. Calls, crashes, faults
and host events are never assumed to happen.

## 4. Findings

`rollback_lost` shows the code doing other than its comments say: when the rebind
of a rollback fails, `backup_machine` still names the object whose server has been
swapped in, the closer at exit takes it for a backup to roll back to once more and
shuts it down with the only copy of the state.

More disagreements were met while modelling. The models have them, and the
instance named shows them; the checked properties say what holds apart from them.

*Hash tree and TLB*
* The constructor's comment says that leaves past the last page "start clean"
  (`dirty-page-tree.hpp:96`); the code marks them dirty (line 113), and so does the
  model.
* Marking goes from the leaf up in a shared file; killed in between, the page is
  dirty under clean ancestors, no walk finds it and marking it again returns early
  (`dirty-page-tree.hpp:331`; add `"dirtying"` to `CrashPoints` of `dpt`).
* The dense leaf of a page is written long before its parents; killed in between,
  the next update finds the leaf right, calls the page clean, and the root hash
  stays wrong without an error, although `doc/README.md:4066` says that a shared
  tree "is maintained up-to-date on disk" (`hash-tree.cpp:340`; add `"dense"` to `CrashPoints` of
  `hashtree`).
* A range replaced by one whose dirty-page file is clean keeps its old pages in the
  page cache, and proofs are served from them (`machine-address-ranges.cpp:664`;
  add `"clean"` to `Backings`). A replaced range also leaves host pointers to its
  old memory in the write TLB (`machine.cpp:726`).
* Borrowed flags that a killed process leaves in a shared cache file make the next
  owner's updates throw (`NeverFails` excuses what follows a kill).
* A machine whose drive is shared while its processor is not loses, when stored, the
  marks that only the write TLB has (`Sharings <- {Drive}` violates `NoWriteLost`);
  `SafeSharing` below excludes it.

*Interpreter*
* The fixed order of priorities (`interpret.cpp:567`) serves a delegated interrupt
  before one that goes to M-mode, which then waits for the next tick; a run cut
  there takes it at once. Linux and OpenSBI delegate all three supervisor
  interrupts, the case `RunsCanBeCut` covers.
* In an unreproducible machine a `WFI` that waits until `mcycle_end` ends one cycle
  past it (`interpret.cpp:2855`).
* A trap or an `MRET` that stays in M-mode with MPRV set changes MPP and flushes no
  TLB, although translations depend on MPP then (comments at `interpret.cpp:2306`
  and `translate-virtual-address.hpp:112`); `CsrsTakeEffect` excepts it.

*Devices*
* Block request ids restart at a reset, so a completion from before it is accepted
  for a request after it; `OneRequestAtAHost` is about requests since the reset.
* A packet that the TAP interface refuses with `EAGAIN` is dropped where the comment
  says it is retried; transmit paths commented "Consume the queue and notify the
  driver" do not notify, which `Announced` records.
* A notification with more characters than the console's buffer loses some, and a
  cyclic descriptor chain, which the driver of the model never publishes, would
  never end.

*9P*
* Links are the host's to follow: `lstat` of a joined path (`virtio-p9fs-address-range.cpp:2226`)
  follows those in the middle of it, `open` (1187, 1273, no `O_NOFOLLOW` unless the
  guest asks for it) and `opendir` (1829) also the last. A link that the guest has
  made therefore leads to files outside the shared directory, under a path that
  stays inside; the run has fids there. A refused `lcreate` through a link that
  dangles unlinks the link and leaves the file made at its target (1296, 1301). A
  rename whose paths lead through links may not be undone.
* The comments at 2064 and 2068 say that the paths of all fids "starting with the
  old path" are changed; `rfind` finds the last occurrence, so in the
  run a fid at `/a/a/a/a` keeps that path when `/a/a/a` is renamed.
* A walk of an open fid onto itself leaks its descriptors (`lost`); a rename rewrites
  paths that merely begin with the same letters; undoing a creation removes a file
  that was there before, and undoing a rename does not restore what it replaced;
  `unlinkat` is not undone. `RefusedUndone` and `RenameFollowed` name each exception.
* A lock that the host refuses is reported as success. Not visible in the model,
  which has no contents: a write is answered with `P9_RREAD`, errors of `readdir`
  read as the end of the directory, `op_version` ignores `msize`.

*Servers and requests*
* An unknown yield reason at the last input is committed, though a comment at
  `cartesi-machine.lua:2917` has it as an error; outputs of the last input are
  flushed before its commit and those of others after.
* A failed commit makes the closer shut down the main server; a fork whose answer is
  lost leaves a server nobody knows; requests are carried out after their client
  timed out; `--remote-destroy` does nothing when the machine halts inside an input.
* A request with an invalid id is answered with an error and carried out all the
  same, and in a batch gets two answers. The reader of proofs checks
  `log2_root_size` twice; a truncated last group of base64 is dropped silently.

*Collections*
* The phase is computed as `(x % period) + phase`, which overflows for periods above
  2^63; a collection on a machine that has already stopped drops the back tree of
  the call before.

## 5. Theorems

All proofs are checked by TLAPS down to the last leaf, with SMT, Zenon and LS4.

**DirtyPageTreeProofs.** `TypeCorrect`: no loop leaves the array, for every size
and every crash. `TreeConsistent`: `QuietOwner => (Spec => []TreeInvariant)`,
where `QuietOwner` says that the owner is not killed inside a climb. No
induction over the tree is needed, because each iteration is a step. The
inductive invariant `ClimbInv` adds that while a climb runs, the node it stands
on is the only one that may disagree with its children, and in which direction;
while the constructor builds, the levels already built are consistent.
`TreeImplementsSet`: under `QuietOwner` every step of the code is a step of
`DirtyPages` or leaves the set and the cursor alone. It needs two facts about the
iterator: every dirty node of the level that the walk has still to report lies at
or behind the subtree the iterator stands on (`WalkInv`), and those the sweep of
`clean()` has passed are clean (`SweepInv`). Assumptions: `LevelCount > 0`, and
that powers of two double, which TLC evaluates on the instance.

**PageHashTreeCacheProofs.** `CacheIsConsistent`, `BorrowersAreServed`
(`NeverFails`), `ProofsAreCurrent`, for any number of entries, pages and words, an
owner being killed anywhere. `IInv` says at every `pc` how far list, array and map
may disagree (`Lists`), which entries are lent and to whom (`Lent`), whose hashes
are those of their own copy (`Hashes`) and whose copy is the page or is about to be
made so (`Copies`). A new file gives page 0 to every entry, so an address alone
does not say which entry is the page's: the map does, and the last of the
entries that share an address wins when it is rebuilt.

**HashTreeProofs.** `HashesAreTrue` and `ProofsStayCurrent`, for every layout that
`create_nodes()` builds (`LayoutAssumption`), all contents and sizes of batch,
under `Resumable`. Between operations the dense tree of a range is either untouched
since its file was made, with all its pages dirty, or every node is the hash of
its children. In the walk over dirty pages the *sticky* ones, whose hash was or
will be found changed, stay the same from the first step to the last, and the nodes
out of date have a sticky leaf under them; in the dense phase they lie at or above
the level rehashed next; in the sparse phase they are in the queue or above a node
that is. `Resumable` is where an update killed half-way breaks this: the leaf has
its hash already and the nodes above do not, and nothing says so any more.

**P9fsProofs.** `FidsAreSound`, for any number of fids, names, links and descriptors
and every way a request may fail. `IInv` adds to `FidsSound` the types of fids, that a
host descriptor is never the 0 that stands for none, and that a descriptor given
up by a walk is not also held. The lemmas are about the text of paths: what `..`,
the walk of a name and the respelling of a rename leave still begins with the
shared directory's path and goes on by legal names. Where the host goes from there
is not part of it. `RefusalsAreUndone` (`RefusedUndone`) and `FidsFollowRenames`
(`RenameFollowed`), for any `Depth` in `Nat`, need a second invariant, `TreeInv`:
every file lies in a directory, no directory has two paths, and no path is longer
than the bound. The look-up of a path through links gives a path or nothing
(`EntryTypes`, `FinalTypes`), and a path whose directory is in the tree is its own
entry (`EntrySelf`), since nothing in the tree lies below a link. From that a
rename of such paths can always be renamed back: nothing was below the target, and
the old directory is still there; moving a path there and back is the identity
(`RenameTakenBack`). With links on the way the second look-up may end elsewhere,
which is the exception. What is left of the second theorem is that the code's
respelling of a fid's path (`Respelled`) is the move of the file (`Moved`) for
each fid at or below the renamed path in which that path does not come again.

**AccessLogProofs.** `LogsAreAccepted` (`LogsAccepted`), `DamageIsHarmless`
(`DamagedHarmless`) and `ResponsesTakeEffect` (`SendTakesEffect`), for all
programs and responses, and any number of operations and of changes to a log, on
the sixteen leaves of the model. The only assumption is that the core is told of
fewer than 512 words (`InputsAssumption` bounds `LenModulus`, where lengths are
narrowed, by it), which is as far as `WriteLog2` is defined and a hundred times the
receive buffer. A verifier and a recorder share no state, so
the invariant `IInv` speaks of a history that neither keeps: the memory `M[k]` and
the values read `G[k]` before each access. A recording extends it (`RecordInv`), a
verification walks along it (`VerifyInv`): its next access is `k`, its root hash
is that of `M[k]`, and it has read `G[k]`, so the program, being the same, asks for
the same access. `GoodChecked`: an access as it was recorded passes its check;
`Sound`: an access that passes tells the truth about `M[k]`, whatever it was
made from. The second rests on `BubbleNode` (a root hash is reached from one node,
along one path, only) and on `TermsApart`: after a change of its size an access may
have the siblings of a smaller node, and what keeps it out is that hashes of nodes
of different heights differ. It holds for every access of a certain shape (`Shape`),
which all the changes of `Damage`, together and repeated, preserve. `Sent` says
when the revert root hash in memory is that of the last input: not while the
recording of a response has written it and the response is not complete.

**RollupLoopProofs.** `AnswersComeFromListeners` (`AnsweredByListener`), for any
number of servers, inputs, outputs and faults. Its invariant (`InductiveInvariant`)
is about three parties at once. Servers: a session is of a client whose stream
leads back to that process; one told to stop has none; one that is up has closed
what it inherited. Calls: the call under way is the head of `todo`. The script's
plan: a call that ends a server, and each call of the backup, closes its stream; an
address to rebind to is a real one; a swap comes only at the head of the plan and
with a backup there; an object is made again only when its stream is closed. A
session that led nowhere would have to come from a swap or a
re-made object with its stream open, which is what the last part excludes.

`FaultsAreContained` (`FaultsContained`), with `AddressIsFreeToRebind`, needs three
more besides that of the types (`TInv`), each inductive relative to the ones before. `AInv` (`ScriptInvariant`): the
plan fits what the script left behind. A rebind comes right after the shutdown of
the server that had the address, or first in the plan with nobody at it; a fork
that makes a backup comes when none answers; a child that still holds a copy of
the user's acceptor is one that the script is about to call, so that it has closed
the copy before it answers. Plans are put together from pieces (`do_commit`,
`do_snapshot`, `do_rollback` and single calls), and `Piece`, `Clears`, `Takes` and
`Closes` say which piece may follow which; what a failed call leaves is the empty
plan. `OInv` (`OutputInvariant`): verdicts are counted (one for each input before
`next`, and perhaps one for it), the buffer holds outputs of one input only, and
only a commit comes before the flush. A failed commit drops the flush, not the
buffer, and the script does not come back to the loop: this is why nothing is
written twice or under a later verdict. `BInv` (`BackupInvariant`) is about a script
whose calls do not fail, and so holds its second half only without faults: the
backup listens and has the request it was sent, from the fork that made it, whose
answer names a running process, to its shutdown. The one call between a verdict
and the flush is that shutdown, so the flush is reached, and at the end no output
of an accepted input is in the buffer only. Its first half, which holds under every fault,
says where in the plan each step may stand and that a backup that no longer answers
is replaced or renamed by the very next step.

**WriteTlbProofs.** `RootsCoverWrites`, `WritesKnown` (`NoWriteLost`),
`TlbAgrees`, `TypeCorrect`, for any number of pages, slots and virtual pages,
under `SafeSharing`: where a memory range is shared, so is the processor.
`NoWriteLost` is not inductive: inside a collection the TLB is not looked at, so
the invariant `IInv` adds `CollectionTracks` (there, a stale page is marked,
noted or of the shadow) and `NotesSpent` (what was noted is gone when the
collection returns). The argument has one lemma per action.

**InterpreterProofs.** `RunsSplit` (`RunsCanBeCut`), `NoBreakPending`
(`AssertNoBrk`), `LinesCorrect` (`LinesReachTheHart`), `TargetsReached`,
`TypeCorrect`, for any number of devices, tick length, target and register
values. `IInv` adds to the properties: `SpanEndsByTick` (the inner loop ends by
the next tick), `TimerSet` (an instruction at a tick runs with the timer looked
at), `NothingPending` (with low delegation, nothing
is pending in the inner loop) and `FlagsClear`. The step that matters is
`OneLevelAtATime`: when an interrupt is raised to S-mode, whatever else is
pending comes later in the order and so is delegated too, and S-mode now has its
interrupts off; this is where `LowDelegated` is needed and what a delegation
of other interrupts violates. `NoTickBetween` is the
arithmetic of `NextTick`.

Facts that need induction over numbers (a first element of a list, a path's first
letter, a level of a tree) are proved by a least counterexample (`LeastNat`).

Model-checked only: liveness (`OperationsReturn`, `UpdatesEnd`, `RunReturns`,
`EverythingStops`), which TLAPS does not handle; everything about `Devices` and
`StepLog`;
`EpochKept` of the servers, which follows the contents of every machine and counts
the servers that are left; and `Arith`, since what its recursive functions compute is beyond
the provers.

## 6. What is not modelled

* Instructions: `LR` and `SC` (only the loss of a reservation is), fences, the
  dispatch tables, the trap registers (`xcause`, `xepc`, `xtval`) in `Csr`.
* `EVENT_DRIVEN_INTERPRETER_DEADLINES` builds, in which the timer is looked at
  whenever the outer loop turns; performance counters; a misaligned `pc` set by
  the host, which `interpret_loop()` turns into an exception before it begins.
* `update_words()`, the construction of the sparse nodes, and statistics.
* A process killed *inside* a call, for the TLB: the trees have it, `WriteTlb`
  reopens between calls.
* The files of a stored machine and their removal when a store fails: system
  calls whose failures the code passes on. What of the state survives is modelled.
* 9P: relative targets of links and dots in them; contents, attributes, locks and the layout of messages; slirp.
* Servers: handlers of the network library already queued when a server forks, which
  run in the child too, and the refusal to fork a machine with shared ranges.
* The C API and the Lua bindings (`cm.cpp`, `clua-*.cpp`), the device tree, and the
  RISC Zero guest around `replay_step_state_access`: conversions and glue without
  state of their own, of which every property would restate a line.
* The options, reports and files of the command line.

## 7. Plan

The parts of the system with state of their own are modelled. What is left, in
order of what is worth most:

1. Theorems: `EpochKept` of `RollupLoop`, from `BInv`; `StepsProved` and `StepDamageHarmless` of
   `StepLog`, with a history of pages in place of that of leaves; the ring
   invariants behind `UsedInOrder`.
2. A kill inside a call for `WriteTlb`.
3. `MachineStore`: files created, removed and retained, with a failure at any
   step; composed with `Reopen`.

Runs are kept to one for each part, so that the whole suite stays quick to repeat.
