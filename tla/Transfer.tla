------------------------------ MODULE Transfer ------------------------------
(***************************************************************************)
(* One block-relocation transfer of castle_transfer.c: castle_transfer_   *)
(* create() starts a walk of the version's forward B-tree; per node the   *)
(* handlers node_start / each (castle_move_block) / node_end run, and the *)
(* copy callback castle_do_transfer_callback() runs either inline (source  *)
(* page up to date) or later from I/O completion, concurrently with the   *)
(* walk.  transfer->phase is the per-node barrier: the node holds one unit *)
(* from node_start to node_end and every move in flight holds one more;   *)
(* whoever drops it to 0 continues the walk.                               *)
(*                                                                         *)
(* The tree iterator (castle_ftree_iter, _continue, _cancel) lives in     *)
(* castle_btree.c, outside this source tree: it is modelled from the spec  *)
(* (4.7): it visits the nodes in order, calls node_start, each on every   *)
(* entry, node_end, then waits for continue; a cancel stops it before its  *)
(* next callback and it calls end(err); continue after a cancel or after  *)
(* the end is absorbed.                                                    *)
(*                                                                         *)
(* An entry is a (node, slot) pair; onDest says whether its block already  *)
(* lies on the destination set; the allocator has FreeDest free blocks on  *)
(* the destination set.  Page contents, block numbers and direction        *)
(* (to-target / to-region) are abstracted to these two facts.             *)
(***************************************************************************)
EXTENDS Integers, FiniteSets

CONSTANTS
  NodeCount,   \* nodes of the version's forward tree that the walk visits
  NodeSize,    \* leaf entries per node
  FreeDest     \* free blocks the allocator has on the destination set

ASSUME TransferAssumption ==
  /\ NodeCount \in Nat \ {0}
  /\ NodeSize \in Nat \ {0}
  /\ FreeDest \in Nat

Entries == (1 .. NodeCount) \X (1 .. NodeSize)

\* Bound on the cancel counter (a second cancel is what the properties see)
MaxCancels == 2

VARIABLES
  onDest,     \* entry -> its block is on the destination set
  itSt,       \* iterator: "idle", "start", "each", "wait", "done", "ended"
  itNode,     \* node the iterator is visiting
  itIdx,      \* next slot of that node to pass to each
  cancelled,  \* castle_ftree_iter_cancel has been called
  cancels,    \* how many times (saturated at MaxCancels)
  phase,      \* transfer->phase
  progress,   \* transfer->progress
  inflight,   \* entries whose source read was submitted and not completed
  pinned,     \* pages pinned and locked: <<entry, "src" | "dest">>
  freeDest,   \* free destination blocks left
  moved,      \* entries copied to a destination block, source block freed
  created,    \* castle_transfer_create outcome: "none", "ok", "failed"
  bug         \* "none", or the oops that stopped the kernel

vars == <<onDest, itSt, itNode, itIdx, cancelled, cancels, phase, progress,
          inflight, pinned, freeDest, moved, created, bug>>

Pages == Entries \X {"src", "dest"}

TypeOK ==
  /\ onDest \in [Entries -> BOOLEAN]
  /\ itSt \in {"idle", "start", "each", "wait", "done", "ended"}
  /\ itNode \in 1 .. NodeCount
  /\ itIdx \in 1 .. NodeSize + 1
  /\ cancelled \in BOOLEAN
  /\ cancels \in 0 .. MaxCancels
  /\ phase \in Int
  /\ progress \in Nat
  /\ inflight \subseteq Entries
  /\ pinned \subseteq Pages
  /\ freeDest \in 0 .. FreeDest
  /\ moved \subseteq Entries
  /\ created \in {"none", "ok", "failed"}
  /\ bug \in {"none", "create_null", "phase"}

Init ==
  /\ onDest \in [Entries -> BOOLEAN]
  /\ itSt = "idle"
  /\ itNode = 1
  /\ itIdx = 1
  /\ cancelled = FALSE
  /\ cancels = 0
  /\ phase = 0
  /\ progress = 0
  /\ inflight = {}
  /\ pinned = {}
  /\ freeDest = FreeDest
  /\ moved = {}
  /\ created = "none"
  /\ bug = "none"

-----------------------------------------------------------------------------
(* The tree iterator's entry points, as the handlers call them.            *)

\* castle_ftree_iter_cancel(&transfer->c_iter, err)
Cancel ==
  /\ cancelled' = TRUE
  /\ cancels' = IF cancels < MaxCancels THEN cancels + 1 ELSE cancels

\* castle_ftree_iter_continue: go on to the next node, or finish the walk;
\* absorbed once the walk was cancelled or has ended.
Continue ==
  IF cancelled \/ itSt \in {"done", "ended"}
  THEN UNCHANGED <<itSt, itNode, itIdx>>
  ELSE IF itNode = NodeCount
       THEN itSt' = "done" /\ UNCHANGED <<itNode, itIdx>>
       ELSE itSt' = "start" /\ itNode' = itNode + 1 /\ itIdx' = 1

-----------------------------------------------------------------------------
(* castle_transfer_create(version, direction)                              *)

\* The outcomes of the version check, the two kzallocs, castle_regions_get
\* and castle_sysfs_transfer_add.
CreateOutcomes == {"ok", "invalid_version", "nomem_transfer", "nomem_regions",
                   "sysfs_error"}

TransferCreate ==
  /\ created = "none" /\ bug = "none"
  /\ \E outcome \in CreateOutcomes :
       CASE outcome = "ok" ->                 \* castle_transfer_start
              created' = "ok" /\ itSt' = "start" /\ phase' = 0
              /\ UNCHANGED bug
         [] outcome \in {"invalid_version", "nomem_transfer"} ->
              \* err_out with transfer == NULL: transfer->regions oopses
              bug' = "create_null" /\ UNCHANGED <<created, itSt, phase>>
         [] OTHER ->                          \* err_out, return NULL
              created' = "failed" /\ UNCHANGED <<itSt, phase, bug>>
  /\ UNCHANGED <<onDest, itNode, itIdx, cancelled, cancels, progress, inflight,
                 pinned, freeDest, moved>>

-----------------------------------------------------------------------------
(* The handlers.                                                           *)

\* castle_transfer_node_start: BUG_ON(phase != 0); phase++
NodeStart ==
  /\ itSt = "start" /\ ~cancelled /\ bug = "none"
  /\ IF phase # 0
     THEN bug' = "phase" /\ UNCHANGED <<phase, itSt, itIdx>>
     ELSE phase' = 1 /\ itSt' = "each" /\ itIdx' = 1 /\ UNCHANGED bug
  /\ UNCHANGED <<onDest, itNode, cancelled, cancels, progress, inflight,
                 pinned, freeDest, moved, created>>

(* Mutation: the copy callback never continues the walk.                   *)
CopyDoneNoContinue(e, ph, idx) ==
  /\ moved' = moved \cup {e}
  /\ pinned' = pinned \ {<<e, "src">>, <<e, "dest">>}
  /\ progress' = progress + 1
  /\ phase' = ph - 1
  /\ itIdx' = idx /\ UNCHANGED <<itSt, itNode>>

\* The copy half of castle_do_transfer_callback(src, uptodate = 1), with
\* ph the phase before its atomic_dec_and_test and idx the iterator's slot
\* once the current callback has returned.
CopyDone(e, ph, idx) ==
  /\ moved' = moved \cup {e}
  /\ pinned' = pinned \ {<<e, "src">>, <<e, "dest">>}
  /\ progress' = progress + 1
  /\ phase' = ph - 1
  /\ IF ph - 1 = 0 THEN Continue
                   ELSE itIdx' = idx /\ UNCHANGED <<itSt, itNode>>

(* Mutation: exhaustion of the allocator is not noticed.                 *)
MoveBlockNoSpaceCheck(e) ==
  \/ /\ onDest[e]                              \* already on a correct disk
     /\ progress' = progress + 1
     /\ itIdx' = itIdx + 1
     /\ UNCHANGED <<phase, pinned, freeDest, inflight, moved, cancelled,
                    cancels, itSt, itNode>>
  \/ /\ ~onDest[e] /\ freeDest < 0             \* no free block: cancel
     /\ Cancel                                 \* (src pinned then put)
     /\ itIdx' = itIdx + 1
     /\ UNCHANGED <<progress, phase, pinned, freeDest, inflight, moved,
                    itSt, itNode>>
  \/ /\ ~onDest[e] /\ freeDest >= 0            \* submit_c2p(READ, src)
     /\ freeDest' = freeDest - 1
     /\ pinned' = pinned \cup {<<e, "src">>, <<e, "dest">>}
     /\ phase' = phase + 1
     /\ inflight' = inflight \cup {e}
     /\ itIdx' = itIdx + 1
     /\ UNCHANGED <<progress, moved, cancelled, cancels, itSt, itNode>>
  \/ /\ ~onDest[e] /\ freeDest >= 0            \* up to date: copy inline
     /\ freeDest' = freeDest - 1
     /\ CopyDone(e, phase + 1, itIdx + 1)
     /\ UNCHANGED <<inflight, cancelled, cancels>>

(* Mutation: a block already in place is not counted in progress.        *)
MoveBlockNoProgress(e) ==
  \/ /\ onDest[e]                              \* already on a correct disk
     /\ itIdx' = itIdx + 1
     /\ UNCHANGED <<progress, phase, pinned, freeDest, inflight, moved, cancelled,
                    cancels, itSt, itNode>>
  \/ /\ ~onDest[e] /\ freeDest = 0             \* no free block: cancel
     /\ Cancel                                 \* (src pinned then put)
     /\ itIdx' = itIdx + 1
     /\ UNCHANGED <<progress, phase, pinned, freeDest, inflight, moved,
                    itSt, itNode>>
  \/ /\ ~onDest[e] /\ freeDest > 0             \* submit_c2p(READ, src)
     /\ freeDest' = freeDest - 1
     /\ pinned' = pinned \cup {<<e, "src">>, <<e, "dest">>}
     /\ phase' = phase + 1
     /\ inflight' = inflight \cup {e}
     /\ itIdx' = itIdx + 1
     /\ UNCHANGED <<progress, moved, cancelled, cancels, itSt, itNode>>
  \/ /\ ~onDest[e] /\ freeDest > 0             \* up to date: copy inline
     /\ freeDest' = freeDest - 1
     /\ CopyDone(e, phase + 1, itIdx + 1)
     /\ UNCHANGED <<inflight, cancelled, cancels>>

(* Mutation: the in-place branch counts the block but does not return.   *)
MoveBlockNoReturn(e) ==
  \/ /\ onDest[e]                              \* counted, then moved anyway
     /\ freeDest > 0
     /\ freeDest' = freeDest - 1
     /\ CopyDone(e, phase + 1, itIdx + 1)
     /\ UNCHANGED <<inflight, cancelled, cancels>>
  \/ /\ ~onDest[e] /\ freeDest = 0
     /\ Cancel
     /\ itIdx' = itIdx + 1
     /\ UNCHANGED <<progress, phase, pinned, freeDest, inflight, moved,
                    itSt, itNode>>
  \/ /\ ~onDest[e] /\ freeDest > 0
     /\ freeDest' = freeDest - 1
     /\ CopyDone(e, phase + 1, itIdx + 1)
     /\ UNCHANGED <<inflight, cancelled, cancels>>

\* castle_move_block(transfer, cdb) for the entry e the iterator hands over
MoveBlock(e) ==
  \/ /\ onDest[e]                              \* already on a correct disk
     /\ progress' = progress + 1
     /\ itIdx' = itIdx + 1
     /\ UNCHANGED <<phase, pinned, freeDest, inflight, moved, cancelled,
                    cancels, itSt, itNode>>
  \/ /\ ~onDest[e] /\ freeDest = 0             \* no free block: cancel
     /\ Cancel                                 \* (src pinned then put)
     /\ itIdx' = itIdx + 1
     /\ UNCHANGED <<progress, phase, pinned, freeDest, inflight, moved,
                    itSt, itNode>>
  \/ /\ ~onDest[e] /\ freeDest > 0             \* submit_c2p(READ, src)
     /\ freeDest' = freeDest - 1
     /\ pinned' = pinned \cup {<<e, "src">>, <<e, "dest">>}
     /\ phase' = phase + 1
     /\ inflight' = inflight \cup {e}
     /\ itIdx' = itIdx + 1
     /\ UNCHANGED <<progress, moved, cancelled, cancels, itSt, itNode>>
  \/ /\ ~onDest[e] /\ freeDest > 0             \* up to date: copy inline
     /\ freeDest' = freeDest - 1
     /\ CopyDone(e, phase + 1, itIdx + 1)
     /\ UNCHANGED <<inflight, cancelled, cancels>>

\* The iterator calls each(entry) for the next slot of the node.
Each ==
  LET e == <<itNode, itIdx>> IN
  /\ itSt = "each" /\ ~cancelled /\ bug = "none"
  /\ itIdx <= NodeSize
  /\ MoveBlock(e)
  /\ UNCHANGED <<onDest, created, bug>>

(* Mutation: node_end continues the walk whatever the phase.               *)
NodeEndAlwaysContinue ==
  /\ itSt = "each" /\ ~cancelled /\ bug = "none"
  /\ itIdx = NodeSize + 1
  /\ phase' = phase - 1
  /\ Continue
  /\ UNCHANGED <<onDest, cancelled, cancels, progress, inflight, pinned,
                 freeDest, moved, created, bug>>

(* Mutation: node_end tests the phase for 1 but never decrements it.      *)
NodeEndNoDec ==
  /\ itSt = "each" /\ ~cancelled /\ bug = "none"
  /\ itIdx = NodeSize + 1
  /\ IF phase - 1 = 0
     THEN Continue
     ELSE itSt' = "wait" /\ UNCHANGED <<itNode, itIdx>>
  /\ UNCHANGED <<onDest, cancelled, cancels, phase, progress, inflight, pinned,
                 freeDest, moved, created, bug>>

\* castle_transfer_node_end: if (atomic_dec_and_test(&phase)) continue
NodeEnd ==
  /\ itSt = "each" /\ ~cancelled /\ bug = "none"
  /\ itIdx = NodeSize + 1
  /\ phase' = phase - 1
  /\ IF phase - 1 = 0
     THEN Continue
     ELSE itSt' = "wait" /\ UNCHANGED <<itNode, itIdx>>
  /\ UNCHANGED <<onDest, cancelled, cancels, progress, inflight, pinned,
                 freeDest, moved, created, bug>>

\* I/O completion of the source read: castle_do_transfer_callback(src, ok)
TransferCallback(e, ok) ==
  /\ e \in inflight /\ bug = "none"
  /\ inflight' = inflight \ {e}
  /\ IF ok
     THEN CopyDone(e, phase, itIdx) /\ UNCHANGED <<cancelled, cancels>>
     ELSE \* cancel with -EIO and return: pins, locks and phase kept
          Cancel /\ UNCHANGED <<moved, pinned, progress, phase, itSt, itNode,
                                itIdx>>
  /\ UNCHANGED <<onDest, freeDest, created, bug>>

\* The cancelled iterator stops and calls end(err): castle_transfer_end,
\* whose castle_transfer_error does nothing yet.
IterEnd ==
  /\ cancelled /\ itSt \in {"start", "each", "wait"} /\ bug = "none"
  /\ itSt' = "ended"
  /\ UNCHANGED <<onDest, itNode, itIdx, cancelled, cancels, phase, progress,
                 inflight, pinned, freeDest, moved, created, bug>>

Next ==
  \/ TransferCreate
  \/ NodeStart
  \/ Each
  \/ NodeEnd
  \/ \E e \in Entries, ok \in BOOLEAN : TransferCallback(e, ok)
  \/ IterEnd

\* The walk runs in the caller's and the workqueue's context and the block
\* layer completes every submitted read: all these steps are weakly fair.
Fairness ==
  /\ WF_vars(TransferCreate)
  /\ WF_vars(NodeStart)
  /\ WF_vars(Each)
  /\ WF_vars(NodeEnd)
  /\ WF_vars(IterEnd)
  /\ \A e \in Entries : WF_vars(\E ok \in BOOLEAN : TransferCallback(e, ok))

Spec == Init /\ [][Next]_vars
FairSpec == Spec /\ Fairness

-----------------------------------------------------------------------------
(* Properties                                                              *)

\* The entries of node n
NodeEntries(n) == {n} \X (1 .. NodeSize)

(* T1, per-node quiescence: the walk leaves a node (for the next node or   *)
(* for the end of the walk) only after each() was called on all its slots *)
(* and every source read spawned there has completed: the phase barrier   *)
(* shared by node_end and the I/O-completion callback.                     *)
NodeBarrier ==
  [][(itNode' # itNode \/ (itSt' = "done" /\ itSt # "done")) =>
       /\ itIdx = NodeSize + 1
       /\ inflight' \cap NodeEntries(itNode) = {}]_vars

(* node_start's BUG_ON(phase != 0) never fires: every unit of the phase   *)
(* taken for a node, by node_start or by a move, is given back before the *)
(* walk reaches the next node.                                             *)
PhaseBugFree == bug # "phase"

(* S8 / P8: a walk that completes has counted every entry in progress     *)
(* exactly once and moved exactly the entries that were not in place.     *)
CompleteProgress ==
  itSt = "done" =>
    /\ progress = Cardinality(Entries)
    /\ moved = {e \in Entries : ~onDest[e]}
    /\ inflight = {}

(* Every transfer that castle_transfer_create started ends: it completes  *)
(* or its cancelled walk calls end(), whatever the order of I/O           *)
(* completions relative to the walk.                                       *)
TransferEnds == created = "ok" ~> itSt \in {"done", "ended"}

(* T2: source and destination pages are released on every completion      *)
(* path: once the walk is over and no read is in flight, nothing is       *)
(* pinned or locked.                                                       *)
PinsReleased == (itSt \in {"done", "ended"} /\ inflight = {}) => pinned = {}

(* Spec 5: transfer errors cancel the tree iterator exactly once.         *)
CancelOnce == cancels <= 1

(* P8: when the transfer completes, every block the tree references is on *)
(* the destination set and allocated.  Nothing in castle_transfer.c        *)
(* rewrites a tree entry, so the entry of e still references e's original *)
(* block, which castle_do_transfer_callback freed if it moved e.          *)
RefOnDest(e) == onDest[e] /\ e \notin moved

CompleteOnDest == itSt = "done" => \A e \in Entries : RefOnDest(e)

-----------------------------------------------------------------------------
(* The transfer implements TransferAbstract.  The entries it has counted  *)
(* are those each() has passed whose blocks were in place; the abstract   *)
(* transfer is walking until the walk is cancelled or done.               *)

\* The entries the walk has handed to each() so far: every slot of the
\* nodes before node n, and the slots of node n before slot i.
Before(n, i) == {e \in Entries : e[1] < n \/ (e[1] = n /\ e[2] < i)}

Walked == Before(itNode, itIdx)

AbsSt ==
  IF itSt \in {"idle", "done"} THEN itSt
  ELSE IF cancelled THEN "stopped" ELSE "walking"

Abs == INSTANCE TransferAbstract
         WITH st <- AbsSt, counted <- {x \in Walked : onDest[x]}

(* Refinement: every behaviour of the walk, with its handlers and I/O     *)
(* completions interleaved, is a behaviour of the abstract transfer: each *)
(* entry is counted or moved at most once, only blocks not in place move, *)
(* and the transfer is done only when every entry is accounted for.       *)
AbsSpec == Abs!Spec

(* Spec 5: synchronous errors of castle_transfer_create return to the     *)
(* caller: an invalid version or an allocation failure must not oops.     *)
CreateNoOops == bug # "create_null"

=============================================================================
