# TLA+ verification of the Ricoq substrate

Ricoq's `substrate` crate (`crates/substrate/src/`) is the library a seL4 root
task is written with. It runs as one thread on the classic (non-MCS) kernel: it
owns the root CNode, carves kernel objects out of untyped memory, builds
isolated tasks, and serves their calls and faults. This directory models the
parts of it whose correctness depends on the order of steps: who holds which
reply authority, who owns which slot and which memory, and which task may run.

Paths below are relative to `crates/substrate/src/`.

## 1. Inventory

| Component | State | Operations | Module |
|---|---|---|---|
| Endpoint receive and reply (`ipc.rs`) | `implicit_reply_pending` per `Endpoint`; live `ReceivedMessage`; kernel caller slot | `receive`, `try_receive`, `reply`, `finish`, `defer` | `Ipc`, an implementation of `RequestReply` |
| The root as a sender (`ipc.rs`) | receive path of the IPC buffer | `with_capabilities`, `prepare`, `send`, `try_send`, `call` | `Outbound` |
| Deferred replies (`ipc.rs`) | `ReplyPool.occupied` bits; live `DeferredReply`s; kernel pool slots | `reserve`, `release`, `DeferredReply::reply`, `discard` | `Ipc` (as a set); `ReplyPool` (as a word), an implementation of `ReplySlots` |
| Receive slots (`ipc_state.rs`, `cspace.rs`) | `SlotTracker.states`; live `ReceiveSlot`; kernel child CNode | `receive_slot`, `commit`, `cancel`, `mark_occupied` | `Ipc`, `Outbound`, `CSpace` |
| Fault adapter (`fault.rs`) | none of its own | `FaultEndpoint::receive`, `reply`, `FaultRoute` | `Ipc` (decoding is one Boolean there), `Recovery`, `CSpace` |
| Task control (`task.rs`, `thread.rs`) | thread state and registers in the kernel | `start`, `resume`, `suspend`, `read_registers`, `write_registers` | `Ipc`, `Recovery` |
| Root slot allocator (`free_slots.rs`, `boot.rs`) | `remaining` range; root CNode | `try_allocate`, `reserve`, `checkpoint`, `allocated_since`, `rewind` | `Bootstrap` |
| Task construction (`task.rs`, `cspace.rs`, `vspace.rs`, `thread.rs`) | the slots made so far | `create_task`, `map_recovery_frame`, `rollback`, `delete_root_slots` | `Bootstrap`; its decisions in `CreateTask` |
| Kernel object allocator (`object.rs`) | untyped list and watermarks | first-fit retype | `ObjectAllocator` |
| Delegation validation, CSpace (`cspace.rs`) | child CNode and its tracker | `validate`, mint, `mark_occupied`, `root_data` | `CSpace`, in `CreateTask` |
| Translation tables (`vspace.rs`) | tables mapped so far | `map_translation_tables` | `TaskLayout`, in `CreateTask` |
| Task layout (`task.rs`) | none | `TaskLayout::validate` | `TaskLayout`, in `CreateTask` |
| Fault decoding (`fault.rs`) | none | `Fault::decode` | `FaultDecode` |
| Notifications and badges (`ipc.rs`, `ipc_state.rs`, `cspace.rs`) | kernel notification word; `BadgeSequence` | `signal`, `wait`, `poll`, badge issue, delegation | `Notification` |
| Root address space frames (`vspace.rs`, `boot.rs`) | mapping of each frame capability | `map`, `unmap`, `TaskMapping::unmap`; `image_frame` | `Recovery` (all but `image_frame`) |
| Boot harness (`tests/boot.py`, `tests/image.py`) | QEMU process, serial pipe, QMP dialogue, deadline | `run`, `quit_qemu` | `BootHarness` (all of `boot.py`'s control) |
| Entry points, errors (`main.rs`, `lib.rs`, `errors.rs`) | none | start-up glue | not modelled, no state |

**How they interact.** `Bootstrap` hands out slots; a `ReplyPool` owns a range of
them and fills it with reply capabilities made by clients' calls. A task made by
`create_task` owns a child CNode whose free slots become destinations of
`Endpoint::receive`. A task's faults arrive at a `FaultEndpoint`, an adapter over
the same `Endpoint`. `suspend` and `resume` reach across all of this: the kernel
cancels a blocked client's IPC and deletes the reply capability made for it,
wherever the root keeps it, while the root's own handles stay. A faulting task is
recovered through all of them: the fault arrives as a call, registers and frames change
what the task finds when it restarts, and only the reply restarts it.

**What is hard.** The crate has no threads of its own. The interleavings are
between the root and its clients (a client may queue at any moment, and
its call may be cancelled between being received and being answered) and between the
root's operations on shared kernel state: one caller slot, one slot range, one
CNode seen twice (by the tracker and by the kernel). Failure is the other half:
every kernel call may be refused, a dozen steps into a construction or within the
rollback itself. `PROJECT.json` lists each hazard at its line.

**What makes each component correct.**

- Endpoint, deferred replies, fault adapter: each reply reaches exactly the
  request its handle was made from, no caller is lost, no error path leaves an
  endpoint refusing work, every call is eventually answered.
- Receive slots: the tracker never offers a slot the kernel finds taken.
- Allocator and construction: the free suffix is empty, each taken slot has one
  owner, a failure restores what was there, nothing an owner holds is touched.
- Object allocator: objects never share memory, a retype is refused only if no
  untyped can hold the object, and a rolled-back construction gives its memory back.
- Recovery: a suspended task stays suspended, registers that are fresh undo nothing a task has executed,
  and a fault the root can do something about is overcome.
- Outbound IPC: nothing but the reply to a call, along the last receive's path, fills a slot the tracker calls free;
  every send and call returns if the servers serve.
- Boot harness: PASS is earned, no failure is invented, it returns by the deadline and
  leaves no process behind.
- Layout, delegation, tables, decoding: agreement with a reference definition.
- Badges: never zero, never repeated; notifications: no signal is lost
  altogether, though signals merge.

## 2. The modules and the code

### `Ipc`

The state is the root's Rust values (`pending`, `held`, `occupied`, `deferred`,
`tracker`, `reservation`), the kernel's view of the same things (`caller`,
`saved`, `cnode`), the clients (`phase`, `target`) and where the root is blocked
(`waiting`, `armed`). `calls` and `abandoned` are history: a handle carries
`[src, n]`, the client and the number of the call it was made from, so that a
property can say "this very request".

| Code | Action |
|---|---|
| `Endpoint::receive` / `FaultEndpoint::receive`, up to the system call | `Receive`, `ReceivePending` |
| the same, from delivery to the return | `CompleteReceive` |
| `try_receive` | `TryReceive`, `TryReceiveNothing`, `ReceivePending` |
| `ReceivedMessage::reply`, `FaultEndpoint::reply` | `Reply` |
| `finish` | `Finish` |
| `defer`: saved / pool full / `save_caller` refused | `Defer`, `DeferExhausted`, `DeferRefused` |
| `DeferredReply::reply`, `discard` | `DeferredReply`, `Discard`, `DiscardFails` |
| losing a `#[must_use]` value | `DropReceived`, `DropDeferred` |
| losing a `ReceiveSlot`, which is not `#[must_use]` | `DropReceiveSlot` |
| `receive_slot`, `ReceiveSlot::finish` | `ReserveReceiveSlot`, `FinishSlot` |
| `start`, `resume`, `suspend` | `Resume`, `Suspend` |

A blocking receive is two actions because clients run in between; every other
operation of the single root thread is one. `Deliver` carries the whole tail of a
receive: slot bookkeeping, the validations in the order the code makes them,
and on rejection `clear_implicit_reply`. A message is its shape: length, extra
capabilities, how many of them were unwrapped, and whether it decodes as a fault.

**Facts about the kernel the model takes as given** (external, in the `map`; they
are the classic kernel's behaviour as `src/` relies on it):

- there is one caller slot per receiving thread; `recv` and `nb_recv` delete what it
  holds before anything else, also when a poll finds nobody;
- `seL4_Reply` with an empty caller slot does nothing; a send on an empty slot is lost;
- suspending or resuming a blocked thread cancels its IPC and deletes its reply capability;
- `CNode_SaveCaller` with nothing to save may report an error or succeed and move nothing;
- a transferred capability to the endpoint itself arrives as a badge and is not installed;
- an empty poll reports badge 0, length 0, no capabilities.

Client badges are not zero (`IpcAssumption`): the crate delegates endpoints
only through `badged_endpoint` and `FaultRoute`, whose `Badge` cannot be zero, and
`Endpoint::cap` is private to the crate.

Two constants describe the caller of the library rather than the library.
`Overlap`: may the root receive on one endpoint while it holds a message of
another? The type system does not forbid it. `Drops`: may it lose a `#[must_use]`
handle? The compiler only warns.

### `RequestReply` and `IpcService`

`RequestReply` is the service a client may rely on: at most one request open per client,
which is refused unseen or accepted; an accepted one is owed until it is answered or given
up, and an answer closes its own request or, if that was cancelled, none. `IpcService`
maps `Ipc` to it: a client is "asked" while queued and "accepted" while it awaits a reply,
and what is owed is read off the live handles of the root. Flags, queues, the caller slot,
the pool and the receive slots have no counterpart, so deferring, polling, a full pool
and dropped slots must all be invisible or a step the service allows.

### `Outbound`, `ReplyPool` and `ReplySlots`

`Outbound` is the root as a sender, with what a sender shares with the receiving side: the
receive path, one field of the IPC buffer that only `receive` and `try_receive` write
(`ConfigureReceivePath`) and that a reply to a `call` also uses, and the tracker and CNode behind it.
`Prepare` panics where a slice of the buffer is too short. `given` and `exposed` are history: the slot argument of
the last receive, and the slots that were the last receive's when the root made a call.

`ReplyPool` is the pool as the code has it, one word, written as the set of its bits that are 1 (`!`, `&` and `|`
are complement, intersection and union): `low_bits`, `trailing_zeros`, the borrow of a subtraction,
shifts modulo the width of the word, and `Reserve` and `Release` on them; `ReplySlots` is the set
of slots that `Ipc` and `Bootstrap` take it for, and `ImplementsSlots` the refinement. A handle ends with a
release (`Consume`) or without one (`Abandon`: a `discard` whose delete is refused, or a handle that is dropped);
`lost` is the history of the second kind. `Outbound`
extends `ReplyPool`: the one root thread uses the pool only while it runs, and the
reply to a deferred caller is prepared like any other message.

### `Notification`

One kernel word (`word`, as a set of bits, with `active`), the capabilities of the
tasks (`cap`) and what the root meant them to be (`path`), the badge sequence (`next`,
`issued`). A signal goes to a waiting root or into the word; `Wait` and `Poll` take all of
it. `merged`, `credited` and `lost` are history: which tasks' signals are in the
word, in the last observation, or gone. Kernel fact taken as given: polling an inactive
notification reads badge 0, which is also what an unbadged signal reads as.

### `Bootstrap`

`start` is the free range's start, `root` the kernel's content of each slot,
`handles` the values the caller owns, each with its slots and the steps of its constructor. `create_task` and `map_recovery_frame` are scripts: sequences of
kernel calls and checks in program order, of which the members of `Object` take
the next slot. `StepObject` and `StepInvoke` perform the next step, `StepFails` is the
`?` operator, and `RollbackDelete`, `RollbackDeleteFails` and `RollbackRewind` are
`Bootstrap::rollback`. `Commit` includes `map_recovery_frame`'s check of its slot
count. A failed rollback's slots are recorded as a "leaked" handle, which is history.
Pool slots also change by themselves (`SaveCaller`, `DeleteReply`): they are the place
where `Ipc`'s `saved` lives.

### `ObjectAllocator`

`allocate_blueprint` inside `FreeSlots::try_allocate`, for single objects and for
constructions (`Plans`), with the kernel's watermarks: an object is placed at the next aligned
address of an untyped, deleting it does not lower the watermark, and an untyped without
children starts over. `SkipUntyped`, `Retype`, `NoKernelMemory` and `NoFreeSlots` are the
ways through the loop; `StepFails` is any later error of the construction, and the
rollback is the one of `Bootstrap` with the memory it frees.

### `CreateTask`, of `TaskLayout` and `CSpace`

`CreateTask` composes the two in the order of `create_task`: validate the layout,
build the CSpace, map the tables.

In `TaskLayout`, `validate` is an operator that returns the first error in program order. The two loops over
addresses are one sequence (the task's four pages, then the reserved ones), since the second loop
makes the same tests against everything before it. `map_translation_tables` is a
loop of `SkipTable` and `MapTable` steps over levels and pages; the kernel's side of
a table mapping (external) refuses a table that is there already, lacks its parent, or lies at or above `UserTop`,
the end of the user's addresses, of which `validate` knows nothing. A page size that
passes validation is a multiple of an instruction (`PageSizeAssumption`): `create_task` is given `Frame::BYTES`.

`CSpace` is `CSpace::create` in its steps: `ValidateSpace`, `AllocateCNode`, `NewTracker`
(which is where a CNode that is too large for the tracker is found), and one `Install`
per delegation with the mint (external; a source that has a badge is refused, whatever badge is asked for) and `mark_occupied`. `guard_size` and `fault_endpoint`
are what the thread is configured with; `Lookup` is how the kernel resolves them
(external). `CSpaceAssumption` says what the Rust types and constructors ensure: a route's badge is not zero, and its
source, an endpoint that `allocate_endpoint` retyped for the `FaultEndpoint`, has all rights. What it leaves behind, a tracker that agrees with the CNode, is `Ipc`'s initial state.

### `Recovery`

Tasks execute programs of instructions that may touch an unmapped page, make an
unknown system call or raise an exception; the kernel side is `pc`, `thread`, `authority`
(whom a reply restarts) and `at` (where each frame capability is mapped). The root's
values are `fault` (the `ReceivedFault`), `regs` (the `Registers`), and the copies
`1..used` its `TaskMapping`s name. Nothing in the types ties them together, so every
action may come at any time; in particular registers may be read of a running task and written back after it has
run on. `stale` is the history of that, and only `FreshRegistersKeepProgress` looks at it. Two obligations of the root program are assumed:
`map_recovery_frame`'s safety contract (`MayMap`: the task is stopped and the page is free), and that a
`Registers` value is written to the task it was read of.

### `BootHarness`

`run` as a control state (`at`) with its counters; QEMU, the guest and the clock
(`Write`, `Close`, `Exit`, `Expire`, `AcceptQuit`) are external and do anything at any time. Output is bytes. `ReadSerial`
appends a chunk of any number of them to `pending`; `ParseLine` takes the bytes up to the first line break from
`pending`, drops a carriage return at the end and compares the rest with the markers (`Strip`, `StartsWith`, `Kind`); what follows the last line break stays for the
next chunk, while the guest goes on writing. The markers are any distinct byte strings. As in the code, an unterminated
last line is never looked at: what a PASS says is about complete lines. The QMP dialogue needs a process that has not exited when it is polled,
not an open serial line; QEMU may close its output and exit between taking `quit` (`AcceptQuit`) and the reading of its answer.
A timeout may strike in every wait, and not while lines are looked at. `process.kill` and the final `wait` are assumed to work.

### `FaultDecode`

`decode` and its helpers are operators with the source's names. `Encode` is the kernel's
description of a fault on AArch64 (external). A message is either a raised fault or one
that the holder of a fault capability sends itself: the route is an ordinary badged endpoint
capability in the task's CSpace. A register index out of bounds, a panic in the code, would stop TLC.

Mutated forms of definitions stand beside the originals with a comment "Mutant:".
They are used by no specification; replacing a definition by its mutant must
make the property named in `PROJECT.json` fail.

## 3. Runs

| Run | Question | Bounds |
|---|---|---|
| `replies` | Does each handle hold exactly its own request's authority, is no caller lost and no endpoint wedged, and is `Ipc` a `RequestReply`, under every order of suspends, resumes and refused deletes? | 2 clients, 1 generic and 1 fault endpoint, pool of 2, 2 calls per client |
| `slots` | Do tracker and CNode agree about free slots and destinations, handles and reservations dropped included? | 2 clients, 2 child slots, tracker longer than the CNode, all message shapes |
| `live` | Is every call answered? | 2 clients, 1 endpoint, pool of 1, 2 calls each |
| `outbound` | Is the tracker wrong at most where a call used an earlier receive's path, does the pool's word implement a set of slots also when handles are lost, and does every send and call return? | 2 servers, 2 child slots, messages with 0, 3 and 4 capabilities, pools of 1, 2 and 3 in a word of 3 bits |
| `bootstrap` | Does the allocator keep one owner per slot through every failure, and does every construction return? | 15 slots, at most 3 handles, pools of 1 and 2 |
| `objects` | Is memory never shared, never lost, and never claimed exhausted when it is not? | untypeds of 2 and 8 units around a device of 4, 6 slots, five plans of up to three objects |
| `construct` | Are exactly the well-formed layouts and CSpaces accepted, before anything is built, and is what is built what was asked for? | 5-bit words of which the last 8 bytes are the kernel's, pages of 4 and 8, two table levels, 4 pages and up to 2 reserved ones; CNodes of 1 to 16 slots (4-bit pointers, tracker of 4), up to 2 delegations and a route, 5 kinds of source |
| `decode` | Is `decode` the exact inverse of the kernel's encoding? | faults with distinct registers; every label 0 to 6 with every message of up to 5 registers, and around 13 |
| `recovery` | Does a suspended task stay suspended, do fresh registers undo no progress, and is every decodable fault overcome? | 2 tasks, one touching a page, one with a system call and then exceptions without end; 1 page, 1 frame, 2 slots for mappings |
| `notification` | Are badges unique up to the last word, observations exact, and badged signals observed? | 2 tasks, words of 3 bits, allocated, raw and no badges |
| `harness` | Is PASS earned, no failure invented, no process left, and does it always return? | 3 bytes (line feed, carriage return, a letter), markers of one and two letters, output limit of 7 bytes and a guest that writes one more, 2 events, chunks of up to 3 bytes |
| `overlap` | (violation) reply authority with two endpoints in flight | 2 clients, 2 endpoints |

Where several invariants belong together they are checked as one conjunction of named parts:
`OwnershipInv`, `AllocatorInv`, `TablesComplete`, `ConstructionInv`, `RecoveryInv`, `OutboundInv` and
`HarnessInv`.

**Why the bounds are enough.** Two clients are needed to confuse an answer, and two
calls of one client to confuse an old request with a new one; a third client or
call plays the role of one of these. A pool of two has slot reuse, a free and
a taken slot at once, and exhaustion. The 15 root slots hold a complete task (11
slots with one mint and one table) with a pool or an object beside it and a recovery
mapping after it, and run out both within a construction and for a pool; tasks with more
mints or tables only repeat a step. A 5-bit word has the last page (whose end overflows), adjacent
pages and pages that share a table on one level only. A tracker of 4 slots is smaller, equal
and larger than the CNodes it is asked for; two delegations and a route can meet in a
slot in every way. A pool of 3 slots in a 3-bit word is the limit case of `low_bits`, one of 2 its neighbour. Two
child slots are one that a stale receive path names and one that is lent meanwhile. The
untypeds are large enough for any plan once and too small for all of them, so that search, exhaustion,
rollback and restart of an untyped all happen. Words of three bits have two badges whose
union is a third, and an end of the badge sequence. Seven bytes are both markers with their line breaks, carriage returns or a line of noise, cut
anywhere, a marker that is a prefix of the other included. `MaxCalls`, `MaxHandles`, `MaxWritten`, `Slots` and the
program lengths cut unbounded counters. The theorems below do not depend on any of these values.

The `Ipc` runs do not check deadlock: when every client is suspended while the root blocks in
`receive`, nothing can happen, and in the code nothing can either; the same holds for `notification`.
`construct`, `decode` and `harness` stop when the function returns. The other runs do check it.

**Fairness.** `live` uses `ServerSpec`, a root that serves. Its assumptions are:
`Reply` and `DeferredReply` are weakly fair (the root answers what it holds);
a queued client is served with strong fairness (a kernel endpoint queue is
first-in first-out, so a client is not passed over for ever by a root that keeps receiving);
and the root does not block in `receive` while it owes a deferred reply. The
last is a real obligation on the user of the crate, since there is only one
thread: a root that blocks there can keep a deferred caller waiting for ever.
Clients are not assumed to do anything. `bootstrap` assumes weak fairness of the construction
under way: it is straight-line code of a thread that waits for nobody.

`recovery` uses `RecoverSpec`. Tasks that can run do (weak fairness). The root may do
anything in between, but it does not give up: receiving a queued fault, mapping the missing page, and
reading, changing and writing the registers of the held fault's task are strongly fair, since
suspending, resuming or answering disables them for a while, and a held fault is answered (weak).
The other task's exceptions, which the adapter answers itself, are not assumed to end. `outbound` assumes that servers
serve: a server that is ready, has met the root, or owes it a reply takes its step. Without
that, or if the root calls an endpoint on which only it receives, the root blocks for ever; the crate
has no timeout. `notification` assumes a root that keeps waiting or polling. `harness` assumes that
time passes and that the harness's own parsing, timeout and clean-up code runs; nothing is assumed of QEMU.

## 4. Findings

1. **One flag per endpoint, one caller slot per thread** (`ipc.rs:293`, run
   `overlap`). With a message of one endpoint held, receiving on a second is
   accepted; the kernel deletes the first caller's authority, and the first message's `reply`
   answers the second caller. `fault.rs:54` promises the "exact" reply authority.
   With `Overlap = FALSE` the property holds (run `replies`, theorem `OwnHandleOnly`).

**Further differences** between comments and code, and limits of the code met while modelling. Where a
definition or formula is named, adding it to the run's configuration reproduces the behaviour:

- *A refused receive loses its slot* (`ipc.rs:293`). `ReplyPending` is returned before the
  `ReceiveSlot` is looked at; it has no `Drop`, so the tracker keeps the slot reserved, where
  `cspace.rs:141` says "until the receive completes". `ReservedOnlyDuringReceive` as an
  invariant of `slots` fails.
- *An unwrapped capability marks an empty slot occupied* (`ipc.rs:300`), where
  `ipc_state.rs:100` says commit follows an installed capability. `OccupiedMeansInstalled` in `slots`
  fails. This errs on the safe side: a slot is lost, never reused while full.
- *Merged badges may look like another path's* (`ipc.rs:521`). The allocator issues 1, 2, 3, ...
  and the kernel or-s what arrives before the root looks, so paths 1 and 2 together read as path 3, where
  `cspace.rs:42` says "distinguishable" and `ipc.rs:39` "unambiguous". `ObservedPathSignalled`
  as a property of `notification` with a third task fails; distinct powers of two, given to `Badge::new`, are distinguishable.
- *A call uses the receive path of an earlier receive* (`ipc.rs:284`). After a receive with a slot that
  transferred nothing the path still names that slot while the tracker calls it free; a capability in the reply
  to a later call is installed there, unrecorded, and the next `receive_slot` lends a slot that is full, where `cspace.rs:141`
  says "known-empty". `LentIsEmpty` as an invariant of `outbound` fails (receive with a slot, reserve it again, call, reply with a capability).
  `OutboundInv`, which holds, says that this is the only way: a receive without a slot before the call avoids it.
- *Registers can be written back late* (`thread.rs:138`). Nothing ties a `Registers` value to the moment it was read; written after
  the task has run they undo what it did, and the kernel does not mind. `FreshRegistersKeepProgress` without
  its condition on `stale` fails in `recovery`. No comment promises otherwise; stopping the task before the read and writing before it
  runs again is left to the root, as its own test does.
- *A page beyond the user's addresses passes `validate`* (`task.rs:40`), and is refused by the kernel only when its first
  table is mapped, after the CSpace was built; the construction is then rolled back. In `construct` this happens.
- *An unterminated last line is not looked at* (`boot.py:119`). At the end of the output `pending` is discarded: a `TEST_RESULT: FAIL`
  without a line break after the last marker does not fail the run.
- *Four capabilities do not fit* (`ipc.rs:15`, `ipc.rs:230`). `EXTRA_CAPACITY` is 4 and called the "Maximum
  capability words provided by the pinned seL4 IPC buffer"; seL4 transfers at most three, and `prepare`'s slice of the
  buffer panics. `root # "panicked"` as an invariant of `outbound` fails. The length of the buffer is a fact about
  the kernel, not under `src/`.

## 5. Proofs

Each `*Proofs` module proves, for every value of the constants that satisfies the named assumptions of
the module it extends:

| Theorem | Statement | Assumes |
|---|---|---|
| **`IpcProofs`** | | |
| `TypeCorrect` | `Spec => []TypeOK` | |
| `SlotsSafe` | tracker and kernel agree about free slots and destinations | |
| `AuthoritySafe` | handles hold their own authority, released slots are empty, no caller is lost | `Sequential` |
| `OwnHandleOnly` | only a request's own handle answers it | `Sequential` |
| `ServiceImplemented` | `Ipc` implements `RequestReply` | `Sequential` |
| `NeverWedged` | the flag is set exactly while a message is held or awaited | `~Drops` |
| `DeliveredHandled` | no call is consumed without being handed over or answered | |
| **`OutboundProofs`** | | |
| `TrackerTrue` | only the reply to a call, along the last receive's path, fills a slot behind the tracker | |
| `BitsAreSlots` | the bits of the pool's word are the slots in use or lost, each one of these only | |
| `PoolImplemented` | `ReplyPool` implements `ReplySlots`, for words of any width | |
| **`BootstrapProofs`** | | |
| `OwnershipSafe` | free suffix empty, handles disjoint, every slot accounted for | |
| `HandlesStayIntact` | a handle's slots hold what its constructor's steps put there | |
| `RollbackRestores` | an ordinary failure restores allocator and CNode | |
| `SuccessReturned` | only a refused delete makes `RollbackFailed` | |
| **`ObjectAllocatorProofs`** | | |
| `AllocatorSafe` | no memory is shared or lost, retried slots are empty | |
| `NoMemoryTrue` | `NoKernelMemory` is returned only when nothing could hold the object | |
| `MemoryReturned` | a rollback leaves the objects that were there, and returns the memory | |
| **`CreateTaskProofs`** | | |
| `LayoutsAccepted` | exactly the well-formed layouts are accepted, for any page size and word width | |
| `TablesBuilt` | no table of the user's is refused, none is missing, for any number of levels | |
| `MalformedRefused` | exactly the malformed CSpaces are refused | |
| `ConstructionSafe` | only the well-formed is built, and as it was asked for | |
| `FaultsDelivered` | the fault pointer resolves to the task's own route | |
| **`FaultProofs`** (`FaultDecode` and `Recovery`) | | |
| `FaultsDecoded` | what the kernel encodes is decoded to the fault it raised | |
| `NothingElseAccepted` | what is accepted encodes to the message it came from | |
| `RecoverySafe` | counters stay in their programs, mapped pages have a `TaskMapping` | |
| `SuspensionHolds` | a suspended task runs again only by `start` or `resume` | |
| `ProgressKept` | registers whose task has not run since they were read undo nothing | |
| **`NotificationProofs`** | | |
| `NotificationTypes` | `Spec => []TypeOK` | |
| `BadgesSafe` | no badge is issued twice, and none is zero, for any word size | |
| `ObservationsExact` | an observation is exactly the union of the badges whose signals it took | |
| `BadgedNeverLost` | a poll that reports nothing has taken no badged signal | |
| **`BootHarnessProofs`** | | |
| `HarnessSafe` | PASS is earned, and no QEMU survives the harness | |
| `NoFalseAlarms` | no live guest with its markers in order is failed while its output is read | |

`Sequential` is `~Overlap` or a single endpoint: the discipline whose absence
finding 1 shows to matter.

**The `Ipc` invariant** is `TypeOK /\ SlotInv /\ AuthInv`. The properties are not
inductive alone. `SlotInv` adds that a slot is not in a blocked receive and in a
live `ReceiveSlot` at once. `AuthInv` adds four facts: who is queued (`QueueInv`),
that a handle's request number never runs ahead of its client (`HistoryInv`, so
that a client's next call cannot be mistaken for an old handle's), that every reply
capability names a blocked client and each client at most once (`KernelInv`, so that using one
cannot wake a client another handle stands for), and that at most one message
is held, none while the root is blocked (`HeldInv`; this is where `Sequential`
is used). Lemmas group the actions by what they do to authority: queueing, cancelling,
opening a receive, delivering, answering, deferring, dropping, discarding. `NeverWedged` needs in
addition that a blocked receive's endpoint holds no message, and rests on `SlotsSafe`:
`slot.finish(..)?` would return with the flag set, but a reserved slot is never refused.

**The refinement of `RequestReply`** needs one more fact, `UniqueInv`: no two live handles stand for the
same call. What is owed is read off the handles, so consuming one closes its request only if no
other handle still stands for it. Each action then has a lemma naming the step of the service it is:
asking, refusing, accepting, answering, giving up, cancelling, or none.

**The `Outbound` invariant** has a part for the pool and one for the sender. `PoolInv` adds that no bit
beyond the pool is ever set (else a release would be ignored and a full pool not recognised) and that a reserved slot
is not yet a handle's. The lemmas under it say what `trailing_zeros`, `low_bits` and a shift compute;
`low_bits` is where the pool as large as the word is a case of its own. The sender's part adds that the receive path is
the last receive's, that a calling root has exposed it if there is one, that a live `ReceiveSlot` is recorded as reserved, and that at most one server owes the root a reply.

**The `Bootstrap` invariant** adds to the properties: everything below the checkpoint is as
it was when the construction began (`BuildInv`), everything from the
cursor up is empty (`RollbackInv`; together they give `RollbackRestores`), the number of
slots a recovery has taken is determined by the steps it has left (`RecoveryInv`), and
every slot below the unowned range has an owner (`AccountInv`). For `HandlesStayIntact` it also says how far the
construction under way is (`Progress`): the steps done are a prefix of the script, and step `i`, if it
took a slot, filled the one that is `Taken(script, i)` places on. `Taken` is a cardinality, so that its growth
along a script follows from facts about finite sets.

**The `ObjectAllocator` invariant** adds where the running operation's objects lie (`OperationInv`) and that the
untypeds the search has passed have no room (`SearchInv`, which is `NoMemoryTrue` one step early). Objects do not share memory
because a watermark is never below the end of a live object, and alignment does not run past the end of
the untyped because sizes are powers of two: the larger is a multiple of the smaller. The prover has no
induction on `2^n`; what is needed of it is derived by counting the subsets of an interval.

**The `CreateTask` invariant** says for each step of `CSpace::create` what has been installed and
recorded so far (`SpaceInv`), and for the two loops over levels and pages that the tables mapped are exactly those of the
pages already passed (`LayoutInv`). `LayoutsAccepted` then compares the code's tests on page addresses with the
definition on bytes, for which it needs that aligned pages that share a byte are equal.

**`FaultDecode`** needs no strengthening: the work is in two lemmas, `RoundTrip` and `AcceptedIsEncoded`,
with a case for each class of fault and each type of lookup failure.

**The `Recovery` invariant** adds that registers that are not stale belong to a stopped task and
are not behind it (`RegistersInv`), and that a reply authority is for a blocked task (`AuthorityInv`): a stopped task that
could be restarted unnoticed would make fresh registers stale.

**The `Notification` invariant** adds to the properties that what the kernel has is what the
root meant (a task's capability carries the badge of its path), that the word is the union
of the badges of the merged signals and is empty while the notification is inactive, and that every issued badge is
below the next one.

**The `BootHarness` invariant** ties the harness to the history of what the guest wrote: the bytes looked at,
the pending ones and those in the pipe are that history, in order and without a gap, and the part looked at ends with a line break (`LinesInv`; this is
what the carry-over from chunk to chunk has to ensure); `marker_index` is the
number of markers in the part looked at, which is in order (`MarkersInv`); and the loop is left only after the
shutdown was acknowledged, with the pipe empty and QEMU gone (`ShutdownInv`). At `Wait` the part looked at is therefore all complete lines the
guest ever wrote, which is what a PASS has to mean. Order is stated by counting (`Seen`), so that looking at one line
more is a fact about finite sets and no induction over the output is needed.

**Only model-checked.** `CallsAnswered`, `ConstructionEnds`, `FaultsRecovered`, `SendsEnd`,
`SignalsObserved` and `Returns`: liveness under fairness is beyond the prover. Every other property of a passing run
is also a theorem.

## 6. Not modelled, and the plan

Not modelled:

- `image_frame`'s address arithmetic: a pure lookup into the root's image, checked at boot.
- General-purpose registers: `Recovery` keeps the program counter, the register on which control depends.
- `tests/image.py`, which builds files and command lines; start-up glue; error enumerations; the build.
- The contents of messages, except where `Fault::decode` reads them.
- What an undecodable fault leads to: `FaultEndpoint::receive` answers it (`fault.rs:134`), the task
  restarts into the same fault, and the error carries no badge, so the root cannot tell whom to suspend. The model has
  this behaviour; `FaultsRecovered` says that other tasks are served all the same.

To follow:

- `Bootstrap` and `ObjectAllocator` composed over slots and memory, `Bootstrap` and `Ipc` over the slots of a reply pool.
