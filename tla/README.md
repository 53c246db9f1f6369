# Formal models of Castle (src/kernel)

TLA+ models of the storage engine in `src/kernel`. They are model-checked with
TLC and, for the version registry, proved with TLAPS.

## The system and its parts

| part | source | module | status |
|---|---|---|---|
| Version registry: hash, version tree, `process()`, new/delete/attach/detach, writeback, restore | `castle_versions.c` | `Versions`, proofs in `VersionsProofs` | modelled |
| Block transfer: walk of a version's tree moving blocks to another disk set | `castle_transfer.c` | `Transfer`, abstract `TransferAbstract`, proofs in `TransferProofs` | partly |
| Object streaming: replace and get of values larger than a block | `castle_objects.c` 484-1147 | `ObjectIO` | partly |
| Object key codec | `castle_objects.c` 38-335 | none | not modelled |
| Range query iterator, `slice_get` | `castle_objects.c` 337-918 | none | not modelled |
| Module load/unload, slave claim/release, mirror devices, mount | `castle_main.c` | `Mount` | modelled |
| B-tree iterator, double array, free space, cache | outside `src/` | spec-modelled pieces in `Transfer` and `ObjectIO` | partly |

How the parts interact:
- The object engine resolves a version through the registry and reads or writes
  through the B-tree and the page cache.
- A transfer walks a version's forward tree with the B-tree iterator and copies
  blocks through the cache.
- The control ioctls claim slaves, mirror devices and mount the file system
  (`castle_main.c`). The mount reads the superblocks and the version tree from
  the slaves.
- Every metadata change happens under the control lock. The registry's loops
  run under `castle_versions_hash_lock`.

## Modules

### Versions (castle_versions.c)

State:
- `hash`: the versions in the hash.
- `parent`, `firstChild`, `nextSib`: the pointer fields of `struct castle_version`.
- `oOrder`, `rOrder`: the DFS numbering.
- `inited`, `attached`, `snap`: the flag bits.
- `initList`: the init list.
- `last`: `castle_versions_last`.
- `cnt`: the `version_cnt` of `castle_version_add`.
- `stored`: the metadata store, which survives a crash.
- `pc` and the loop locals (`cur`, `pprev`, `dfsId`, `childrenFirst`) of the
  loops that run under the hash lock.
- `bug`: records a BUG_ON that fired.

Each loop iteration of `castle_versions_process` and of
`castle_version_tree_delete` is one step (`ProcessInitList`, `ProcessVersion`,
`ProcessInsert`, `ProcessDfs`, `ProcessDone`, `TreeDeleteStep`). Every other
operation is one action:
- `VersionNew`
- `TreeDelete`
- `Attach`, `Detach`
- `Writeback`
- `Restart`: a crash, then `castle_versions_init` and `castle_versions_read` or
  `zero_init`.

Readers (`is_ancestor`, `compare`) take the hash lock, so they see only idle
states. The properties state what they would answer (`CastleIsAncestor`).

### Transfer (castle_transfer.c)

State:
- The iterator (`itSt`, `itNode`, `itIdx`, `cancelled`).
- `transfer->phase` and `transfer->progress`.
- The reads in flight, and the pinned source and destination pages.
- The destination blocks still free.
- The entries already moved.
- The create outcome and `bug`.

Actions:
- `TransferCreate`, with every outcome of its allocations and checks.
- `NodeStart`, `Each` (which runs `castle_move_block`) and `NodeEnd`.
- `TransferCallback(e, ok)`: the copy callback from I/O completion. When the
  source page is up to date, `MoveBlock` calls the copy inline (`CopyDone`).
- `IterEnd`.

The iterator lives in `castle_btree.c`, outside `src/`. Its `Cancel` and
`Continue` are modelled from the spec and marked spec_modelled.

`TransferAbstract` states what a transfer promises, without the walk, the
phase or the I/O. Each entry whose block is already in place is counted
once, and every other entry is moved once. Either adds one to progress. A
running transfer may stop, and moves already under way may still finish
after it stops. The transfer is done only once every entry is accounted
for. `Transfer` instantiates it as `Abs` with this mapping:
- the counted entries are the walked entries (`Walked`, the slots `each`
  has passed) whose blocks are in place;
- the status is idle or done with the iterator, stopped once the walk is
  cancelled, and walking otherwise (`AbsSt`).

`AbsSpec == Abs!Spec` is checked as a property of the transfer run.

### ObjectIO (castle_objects.c)

One key of one version, with a replace call and a get call on different CPUs.

The cache is block addressed: `store` maps each byte address to the byte last
released there. A byte is a tag `<<put, index>>`, and JUNK marks a byte that no
replace wrote. The key's current cvt (value tuple) is `cvt`. The B-tree insert
that makes a cvt current, and the allocator's contiguous extent
(`FreeBases`), are spec_modelled.

Writer state: `wCdb`, `wNr`, `wOff`, `wRem` and `pkt` are `data_c2b->cdb`,
`nr_pages`, `data_c2b_offset`, `data_length` and `packet_length`. Writer actions:
- `Replace`: `castle_object_replace`, `replace_cvt_get` and the start of
  `replace_complete`.
- `WriteCopy`: one pass of the do-while loop of `castle_object_data_write`,
  including the window swap by `write_next_cdb` and `write_buffer_alloc`, and
  the release and completion once the value is done.
- `ReplaceContinue`: the next client frame.

The loop passes are separate steps because a released window becomes visible to
a get on another CPU in the middle of the loop.

Reader actions:
- `Get`: `castle_object_get` and `get_complete`. For an on-disk value it
  ends in `GetContinue`, which gets (pins) the first window.
- `GetLock`: the `lock_c2b` of `get_continue` (line 1046). It waits while the
  writer holds the same c2b (`WHeld`), then unlocks the previous window.
- `GetCached`: the window is up to date, and `__castle_object_get_complete` runs
  at once.
- `GetSubmit(ok)`: submits the read. The block layer decides whether it
  succeeds.
- `GetIoEnd`: `get_io_end`, then the work item. `Deliver` and `GetContinue`
  model `__castle_object_get_complete` and `get_continue`.

A c2b is `<<cdb, nr>>`, as `castle_cache_block_get(cdb, nr)` names it. `rHeld`
is the c2b the get holds locked. The writer locks each new window before it
unlocks the old one, so it holds exactly one window while it streams (`WHeld`).
`Replace` and `WriteCopy` wait while the get holds the window they lock. The
get pins a window in one step and locks it in the next (`rSt = "locking"`).
Between these two steps a replace may free and reuse the extent.

### Mount (castle_main.c)

State:
- `modSt`, `loads` and `up`: whether the module is loaded, how many times
  `castle_init` ran, and which subsystems it brought up.
- `slaves`: the slave list, head first, as `[id, dev]` records. `nextId` is the
  static `slave_id`.
- `devices`, `nextMinor`, `users`: the mirror devices, the static `minor`, and
  `dev->users` per minor.
- `opens` and `claims`: the kernel's side, per raw device. They count the
  references castle took with `open_by_devnum` and `bd_claim` and has not
  given back.
- `fsInited`, `fsSuper`: `castle_fs_inited` and `castle_fs_super`.
  `treeValid` records whether the tree root the mount read was well formed.
- The disks, fixed in `Init`:
  - `slaveOk`: whether the slave superblock is valid;
  - `fsSb`: the fs superblock, one of `Supers` or `"bad"`;
  - `foreign`: the devices another holder has claimed.

Each entry point is one action, with its error paths as disjuncts:
- `ModuleInit`: `castle_init`, with the failure of each step and the goto
  ladder (`TornDown`).
- `ModuleExit`: `castle_exit`.
- `Claim(d)` and `Release(i)`.
- `Mirror(d)` and `DeviceFree(x)`.
- `Open(m)` and `Close(m)`.
- `FsInit`: `castle_fs_init`. It includes the superblock loop
  (`ValidSlaves`, `FirstValid`) and the root read of `castle_version_tree_read`.
  The loop skips a slave whose `castle_sub_block_read` fails (`ioOk`) or whose
  magics do not match (`FsSbValid`). The root
  read's outcome is `"ok"`, `"badhdr"` or `"ioerr"`. The recursion into child
  nodes is folded into `"ioerr"`.

The control ioctls run under the control lock, and open/close run under
`dev->lock`, so every action is atomic. A failed `kmalloc`, and every path that
changes nothing, is a stutter and not a step.

## Runs

| run | cfg | checks | shows |
|---|---|---|---|
| versions | `MCVersions.cfg` | TypeOK, AncestorCorrect, SiblingListsWellFormed, SnapshotOldest, RestoreFitsCap, LoopsTerminate | see below |
| transfer | `MCTransfer.cfg` | TypeOK, PhaseBugFree, CompleteProgress, NodeBarrier, TransferEnds, AbsSpec | see below |
| objectio | `MCObjectIO.cfg` | TypeOK, WriteWithinExtent, ReadWithinExtent, ReplyLengthExact, NoBlockLeak, GetTerminates | see below |
| mount | `MCMount.cfg` | TypeOK, OwnersHoldDevice | see below |

What the four main runs show:
- **versions.** Under any interleaving of new, delete, attach/detach, writeback
  and crash-restart, the DFS numbering answers the ancestor relation, the
  sibling lists stay sorted and exact, snapshots are oldest, and a restore
  always fits the cap. Under fairness, every loop under the hash lock ends.
- **transfer.** The phase barrier holds against I/O-completion callbacks, and a
  completed transfer counted every entry. The walk implements
  `TransferAbstract`. Under fairness, a started transfer always completes or
  ends.
- **objectio.** The windows stay inside their extents, replies have the exact
  length, and no blocks leak. Under fairness, every get replies.
- **mount.** The run covers two loads, and every allocation, open, claim and
  superblock read may fail. Still, every slave and mirror in castle's lists
  holds its open and its claim, even when one device backs several of them.
  The model's `castle_init` is a single step that computes what its goto
  ladder leaves up. So "a failed load leaves nothing up" would only restate
  that computation, and no run checks it. The same holds for "a mount agrees
  with every superblock it validated", which is `FsInit`'s own guard.

Violation runs, each checking one property that the spec states and the code
breaks (see `findings` in `PROJECT.json`):

| property | what TLC finds |
|---|---|
| `OrdersAssigned` (V2) | the root is never numbered by zero_init |
| `NewIdFresh` | ids are reused after a crash before writeback |
| `PinsReleased` | the read-error path of the transfer callback leaks two locked pages |
| `CompleteOnDest` (P8) | the tree still points at freed source blocks |
| `CreateNoOops` | NULL dereference on the error path of create |
| `GetReturnsValue` (P6) | `castle_object_write_next_cdb` advances by the next window's size, not the last one's. A 5-byte value with 4-byte windows is written over itself, and get reads an unwritten block. The spec's S6 (70 blocks, 7 full windows) does not hit this. |
| `GetAtomic` | with single-window values and three replaces, a get pins the window of the value it found. Before its `lock_c2b`, the next replace frees that extent (`replace_cvt_get`, line 536), and the one after takes it, locks it first and writes it. The get then replies the later value's bytes. With multi-window values it also reads a later window before the writer reaches it. |
| `ClaimsBalanced` | `castle_claim` keeps the `bd_claim` when the slave superblock is bad, and `castle_dev_mirror` keeps the open and the claim when `alloc_disk` fails |

Some properties are stated and violated, but kept out of the runs so that
each file keeps one violation per defect. The hazard list gives each one's
reason:
- `CancelOnce` (Transfer) states the spec's "cancelled exactly once". TLC
  violates it with two failing reads of one node.
- `DeleteRejectsAttached` (Versions): `castle_version_delete` BUG_ONs on an
  attached version instead of failing.
- `MountAllAgree` (Mount), the spec's "the fs superblock must be equal on every
  slave". `castle_fs_init` skips a slave whose superblock cannot be read or does
  not validate.
- `MountTreeValid` (Mount). `castle_version_tree_read` returns 0 on a root with
  a bad capacity or used count, so the mount succeeds.

Each property of a passing run has a mutant in `PROJECT.json`: a plausible bug
in the mapped definition that TLC catches with that property.

## Bounds

**Versions.** `MaxVersion = 4`, `VersionCap = 4`, about 650k states. This gives
five ids, deep enough for:
- a snapshot of a clone of a clone;
- siblings on both sides of an insert;
- a subtree delete of several levels;
- restores that hit the cap.

The same run checks `LoopsTerminate`.

**Transfer.** Two nodes of two entries and three free destination blocks. This
covers:
- placements from "all in place" to "all four to move", so running out of space
  mid-node happens;
- two reads in flight in one node.

**ObjectIO.** These bounds cover:
- 2-byte blocks and 2-block windows;
- lengths 1 (inline), 3 (one window) and 5 (a full window and a partial one);
- frames of 1-3 bytes, so a frame ends inside a window, at its end, and across it;
- 8 blocks, so the allocator always finds a 3-block extent while the old value
  is still held;
- two replaces and two gets. A get can overlap every stage of a replace,
  except that it waits on the window the writer holds locked. The writer, in
  turn, waits on the window the get holds.

**Mount.** Two devices, two fs superblock contents, two loads, three claims
and two mirrors per load, one open per mirror, and at most three claims of one
device (`MaxRefs`). About 2.4M states. This covers:
- every mix of good, bad, foreign and disagreeing disks, since `Init` ranges
  over all of them;
- one device that is two slaves, or a slave and a mirror;
- a failed load followed by a good one, or an unload followed by a reload;
- a mount before, between and after the claims.

A failed `alloc_disk` consumes no minor, so failed mirrors can leak claims
without end. `MaxRefs` bounds them. The devices are symmetric.

The run has no deadlock check. Its only states without a successor are the
unloaded ones after the last allowed load, which is where the bound stops the
system, not the code.

## Fairness

Each fairness assumption is justified by how the code is scheduled:
- **Versions.** The loops of `process()` and tree delete run to the end under
  the spinlock, so their steps are weakly fair. Crashes, new and delete are not.
- **Transfer.** The iterator's callbacks run in process and work-queue context,
  and the block layer ends every submitted read. So every handler is weakly
  fair, and so is each entry's callback.
- **Mount.** None. Its properties are safety properties.
- **ObjectIO.** The work queue runs the completions and the block layer ends
  every read, so the reader's steps are weakly fair. For the writer, it is
  assumed that the client sends the frames of a replace it started.
  `lock_c2b` sleeps until the holder unlocks, so `GetLock` is weakly fair.
  It is only enabled while the writer does not hold the window, and the
  writer always releases its window once the client's frames arrive.

## Proofs (VersionsProofs.tla, TransferProofs.tla, MountProofs.tla, ObjectIOProofs.tla)

### Versions

`TypeCorrect == Spec => []TypeOK` and `RestoreWithinCap == Spec => []RestoreFitsCap`
hold for every `MaxVersion` and `VersionCap` in `Nat \ {0}`
(`VersionsAssumption`).

Neither property is inductive by itself. The restore action sets `cnt` to the
number of stored versions and re-adds them, so the step needs to know that:
- the hash never exceeds `cnt` and the cap;
- the root is always in the hash, inited and parentless;
- a loop that dereferences `cur` has `cur # NULL`.

The strengthening `IInv` adds these facts. TLC checked `IInv` as an invariant
before the proof. The proof has three parts:
- `InitIInv`;
- `NextIInv`, with one lemma per action (`VersionNewIInv`, `RestartIInv`, ...);
- temporal steps that combine them with PTL.

Helper lemmas give the types of `ListDel` (via SequenceTheorems) and of the
restore orders (`OrdersType`).

### Transfer

Five theorems hold for every `NodeCount`, `NodeSize`, tree shape and
destination space allowed by `TransferAssumption`:
- `PhaseNeverBugs == Spec => []PhaseBugFree`;
- `TransferTypeCorrect == Spec => []TypeOK`;
- `ProgressComplete == Spec => []CompleteProgress`;
- `NodeBarrierHolds == Spec => NodeBarrier`, an action property;
- `TransferRefines == Spec => AbsSpec`, the refinement.

`PhaseBugFree` says node_start's `BUG_ON(transfer->phase != 0)` never
fires. It is not inductive by itself, because `phase` is raised and lowered
by several actors:
- `node_start` sets it to 1, and `node_end` drops that unit;
- each read that is issued adds 1;
- every completion of `castle_do_transfer_callback` takes 1 away.

The strengthening `IInv` holds only until the walk is cancelled. It says
that `phase` equals the node's own unit (`Hold`) plus the number of reads in
flight, and that those reads are all on slots of the current node that
`each` has already passed. It also pins down the idle, wait and ended states
of the iterator. From these facts, the phase is 0 whenever the iterator is
back at `node_start`. A cancelled walk never calls `node_start` again.

TLC checked `IInv` as an invariant before the proof. The proof has:
- one lemma per action (`EachIInv`, `CallbackIInv`, ...);
- cardinality facts from FiniteSetTheorems (`FS_AddElement`,
  `FS_RemoveElement`).

`CompleteProgress` needs a second strengthening, `PInv`, proved together
with `IInv`. It says two things:
- A read in flight is of a block not in place, and its entry is not yet
  moved. This holds even after a cancel.
- Until the walk is cancelled, the entries `each` has passed split into
  the in-place ones and `moved ∪ inflight`, and `progress` counts the
  in-place ones plus `moved`.

`PInv` also pins the cursor: idle and starting walks are at slot 1, and a
done walk is past the last slot of the last node, without a cancel.
`WalkStep`, `WalkNextNode` and `WalkEnds` describe what `each` and
`continue` do to the walked set (`Before(n, i)`). At the end of the walk,
every entry is walked and nothing is in flight, so `FS_Union` on the
in-place and moved halves gives `progress = Cardinality(Entries)`.

`NodeBarrierHolds` rests on `IInv`. The walk leaves its node (`Leaves`)
only by a continue that is not absorbed, and there are two such continues:
- `node_end` with the phase back to 0 (`NodeEndBarrier`);
- the completion of the node's last read, which can only come in the
  "wait" state, past the last slot (`CallbackBarrier`).

The phase counts the reads in flight, so in both cases none is left.

`TransferRefines` follows the standard layout: the initial states map to
`Abs!Init` (`InitAbs`), and every step maps to an abstract step or a stutter
(`NextAbs`), under `IInv` and `PInv`. The correspondence is:
- `each` on an in-place block is `Count`;
- `each` with no free block, and a failed read, are `Stop`;
- an inline copy, and a completed read, are `Move`;
- the continue that ends the walk is `Finish`, or the tail of the `Move`
  whose completion triggers it;
- every other step is a stutter.

### Mount

Two theorems hold for every finite nonempty set of devices and every bound
allowed by `MountAssumption`:
- `MountTypeCorrect == Spec => []TypeOK`;
- `OwnersHeld == Spec => []OwnersHoldDevice`.

`OwnersHoldDevice` is not inductive by itself, for two reasons:
- release, free and unload decrement a counter, and the counter stays in
  `Nat` only because the type invariant is kept alongside it;
- the mirrors of a device are counted, and counting them needs the device
  set to be finite.

`IInv` is `TypeOK /\ IsFiniteSet(devices) /\ OwnersHoldDevice`.
TLC checked `IInv` on the `MCMount` instance before the proof.

The owners of device `e` are counted as `Cnt(S, D, e)`: the positions of
the slave list on `e`, plus the mirrors on `e`. Each action lemma computes
how `Cnt` changes:
- `castle_claim` puts the slave at the head of the list: +1 on its device
  (`OnCons`, a bijection `j |-> j + 1`);
- `castle_release` unlinks position `k`: -1 (`OnUnlink`, a bijection that
  skips `k`, over the `SubSeq` facts of `UnlinkProperties`);
- a mirror adds at most 1 (`MirrorSetAdd`);
- a free removes 1 (`MirrorSetRemove`).

Each lemma then compares that change with the change of the two counters,
device by device. `castle_exit` subtracts exactly `Cnt` and leaves empty
lists, so every counter stays at or above 0.

To prove `FsInit` keeps the type, `Mount` names the slave whose superblock
the loop saves, `FirstValid(ioOk)`, the least position in `ValidSlaves(ioOk)`.
`MinExists` shows that this position exists, using the well-foundedness of
`<` on `Nat` (`WFMin` of WellFoundedInduction).

### ObjectIO

Five theorems hold for every block size, window, inline limit, finite set of
lengths and disk size allowed by `ObjectIOAssumption`:
- `ObjectIOTypeCorrect == Spec => []TypeOK`;
- `NoLeak == Spec => []NoBlockLeak`;
- `ReplyLength == Spec => []ReplyLengthExact`;
- `ReadWithin == Spec => []ReadWithinExtent`;
- `WriteWithin == Spec => []WriteWithinExtent`.

`NoBlockLeak` is inductive by itself. Only a replace touches the allocator
or the cvt (`OthersKeepCvt`). An inline value or a tombstone frees the old
extent. An on-disk value takes an extent from `FreeBases`, which is disjoint
from the old one, so removing the old extent afterwards leaves exactly the
new one.

`ReplyLengthExact` is not inductive: the result of a get is "ok" only at the
end of a stream. The strengthening `RInv` (checked by TLC on the `MCObjectIO`
constants first) says two things:
- while the get holds a window, its result is "none", and the reply so far,
  the window and the rest still to read add up to `rCvt.len`;
- the counters are integers, and the cache holds pairs of integers, so the
  reply is a sequence.

A get waiting in `lock_c2b` (`rSt = "locking"`) counts as holding its window
in `RInv` and `RX`. `GetLock` changes only `rSt` and `rHeld`, so every
invariant carries over it.

`GetContinueSplit` shows that get_continue cuts the rest into a window and a
remainder, both natural numbers. It rests on `WindowFits`: when
`(rem - 1) / C_BLK_SIZE + 1 > OBJ_IO_MAX_BUFFER_SIZE`, the rest holds a
whole window. `RInv` is split into the writer's part `RPut` and the get's
part `RGet`, since each side's steps leave the other side's part alone.

`ReadWithinExtent` needs `RX` on top of `RInv`: while a get holds a window,
it has read `j` whole windows, so its cdb is `rCvt.cdb + j * MAX` and the
reply holds `j * WindowBytes` bytes, and the pinned extent is the one
get_continue computed. `DivShift` and `NrBlocksShift` show that whole
windows before the rest add exactly `j * MAX` blocks to
`NrBlocks(rCvt.len)`, so the window ends inside the extent (`RXWithin`).

`WriteWithinExtent` needs `W`: while the writer is busy, `wNr` is the block
count of the current window, `wOff` lies within it, and the value's length
is `k` whole windows plus the current one. The writer's cdb is not
`cdb + k * MAX`: write_next_cdb advances by the blocks of the window it
opens, so after the first window the cdb is `cdb + (k - 1) * MAX + wNr`,
and a short last window overlaps the window before it. `FullWindow` and the
`NrBlocks` lemmas (`NrBlocksMono`, `NrBlocksWindow`, `WinBlocks`) show that
the window still ends at or before the extent's last block (`WWithin`);
`WriteCopyW` carries `W` over the copy step that opens the next window.

`TypeOK` is not inductive either. Its strengthening is
`TInv == TypeOK /\ RInv /\ W /\ TX`; TLC checked it first on the
`MCObjectIO` constants and on blocks of 3 bytes with windows of 1 block.
`TX` says three things:
- an inline cvt has a put number of at least 1;
- a busy writer's cvt has a put number of at least 1;
- the reply is never longer than the cvt the get read.

The bytes data_write releases are tags `<<put, first + i>>`. They stay
below `MaxLen` because `W` writes the value's length as `k` whole windows
plus `wRem + wOff`, so `first + off = len - rem` (`WriteCopyType`,
`ReleaseType`).

`MaxLen` is a CHOOSE over `Lengths`. `MaxLenMax` shows that it is the
longest length. It rests on `MaxExists`: every nonempty finite set of
naturals has a largest element. `MaxExists` is proved from a least
cardinality without a maximum, using `LeastNat` (the well-foundedness of
`<`) and `FS_RemoveElement`, so no induction scheme with an operator
parameter is needed.

The get's windows stay within `WindowBytes` because a window of at most
`OBJ_IO_MAX_BUFFER_SIZE` blocks holds at most that many bytes
(`GetContinueType`). `TSplit` separates the writer's part `TWr` from the
get's part `TRd`, as `RPut` and `RGet` do for `RInv`.

### Only model-checked

- `GetTerminates` of `ObjectIO`, a liveness property;
- `MountTreeValid` and `MountAllAgree` are not proved, because TLC violates
  both (see the hazards);
- `TransferEnds`, a liveness property, is the only `Transfer` property of a
  passing run that is not proved;
- `AncestorCorrect`, `SiblingListsWellFormed`, `SnapshotOldest`;
- all liveness properties.

The structural tree properties need induction over the parent links. The
provers cannot instantiate the library's induction schemes, and liveness and
ENABLED are beyond TLAPS.

## Not modelled

- **Key codec.** Byte-level layout arithmetic of variable-length keys. A
  faithful model needs byte strings far beyond what TLC can enumerate.
- **Range-query iterator.** Its control is in `castle_btree.c`, outside `src/`.
- **castle_main.c, partly.** The following are left out:
  - kmalloc'd memory and its leaks;
  - sysfs and printing;
  - `castle_device_make_request`, a bio pass-through;
  - the contents of the superblocks beyond equality.

  `castle_versions_read` is modelled in Versions as `Restart`.
- **Abstracted away.** Page contents, `da_id`, sizes, sysfs and events.
- **Unchecked hazards.** Writeback dropping the hash lock, the
  `regions_get` double walk, the use after free in `castle_version_delete`, and
  the `&&` sanity check in `get_continue` are listed as hazards with the reason
  no property covers them.
