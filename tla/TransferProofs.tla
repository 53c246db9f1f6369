--------------------------- MODULE TransferProofs ---------------------------
(***************************************************************************)
(* Proofs about the transfer model (Transfer.tla): the phase barrier of    *)
(* castle_transfer.c holds for every tree shape and destination space.     *)
(***************************************************************************)
EXTENDS Transfer, FiniteSets, FiniteSetTheorems, TLAPS

\* The unit of transfer->phase that the node itself holds, from
\* castle_transfer_node_start to castle_transfer_node_end.
Hold == IF itSt = "each" THEN 1 ELSE 0

(* The inductive strengthening of PhaseBugFree.  Until the walk is        *)
(* cancelled, transfer->phase counts exactly the node's own unit and the   *)
(* source reads in flight, and those reads all belong to slots of the     *)
(* current node that each() has already passed.  So whenever the iterator  *)
(* is about to call node_start, nothing is in flight and phase is 0.  A   *)
(* cancelled walk never calls node_start again, and only a cancelled walk *)
(* ends.                                                                   *)
IInv ==
  /\ TypeOK
  /\ PhaseBugFree
  /\ created = "none" => itSt = "idle"
  /\ itSt = "idle" => ~cancelled /\ inflight = {} /\ phase = 0
  /\ itSt = "wait" => itIdx = NodeSize + 1
  /\ itSt = "ended" => cancelled
  /\ ~cancelled =>
       /\ phase = Hold + Cardinality(inflight)
       /\ inflight \subseteq {itNode} \X (1 .. itIdx - 1)
       /\ itSt \in {"start", "done"} => inflight = {}

(* The inductive strengthening of CompleteProgress.  Until the walk is    *)
(* cancelled, each entry each() has passed is accounted for once: if its   *)
(* block was already on the destination set castle_move_block counted it  *)
(* in progress, otherwise its move is either in flight or done, and a     *)
(* done move was counted by castle_do_transfer_callback.  The cursor of   *)
(* an idle or starting walk is at the first slot, and a walk is done only *)
(* past the last slot of the last node and without a cancel.  Even after *)
(* a cancel, a read in flight is of a block not in place and not moved.   *)
PInv ==
  /\ itSt \in {"idle", "start"} => itIdx = 1
  /\ itSt = "idle" => itNode = 1
  /\ itSt = "done" => ~cancelled /\ itNode = NodeCount /\ itIdx = NodeSize + 1
  /\ moved \cap inflight = {}
  /\ \A e \in inflight : ~onDest[e]
  /\ ~cancelled =>
       /\ moved \cup inflight = {e \in Walked : ~onDest[e]}
       /\ progress = Cardinality({e \in Walked : onDest[e]}) + Cardinality(moved)

-----------------------------------------------------------------------------
(* Lemmas on the sets of the model                                         *)

\* The entries of the walked tree are finitely many.
LEMMA EntriesFinite == IsFiniteSet(Entries)
<1>1. IsFiniteSet(1 .. NodeCount) /\ IsFiniteSet(1 .. NodeSize)
  BY FS_Interval, TransferAssumption
<1> QED BY <1>1, FS_Product DEF Entries

\* So is every set of reads in flight, and its size is a natural number.
LEMMA InflightFinite ==
  ASSUME NEW S \in SUBSET Entries
  PROVE  IsFiniteSet(S) /\ Cardinality(S) \in Nat
BY EntriesFinite, FS_Subset, FS_CardinalityType

-----------------------------------------------------------------------------
(* The initial state, and each action, preserve IInv.                      *)

USE TransferAssumption

LEMMA InitIInv == Init => IInv
<1> SUFFICES ASSUME Init PROVE IInv OBVIOUS
<1>1. TypeOK
  <2>1. itIdx \in 1 .. NodeSize + 1 /\ itNode \in 1 .. NodeCount
    BY DEF Init
  <2>2. cancels \in 0 .. MaxCancels /\ freeDest \in 0 .. FreeDest
    BY DEF Init, MaxCancels
  <2>3. inflight \subseteq Entries /\ pinned \subseteq Pages
        /\ moved \subseteq Entries
    BY DEF Init
  <2>4. onDest \in [Entries -> BOOLEAN] BY Zenon DEF Init
  <2>6. cancelled \in BOOLEAN BY Zenon DEF Init
  <2>7. phase \in Int /\ progress \in Nat
    <3>1. phase = 0 /\ progress = 0 BY Zenon DEF Init
    <3> QED BY <3>1
  <2>5. /\ itSt \in {"idle", "start", "each", "wait", "done", "ended"}
        /\ created \in {"none", "ok", "failed"}
        /\ bug \in {"none", "create_null", "phase"}
    BY DEF Init
  <2> QED BY <2>1, <2>2, <2>3, <2>4, <2>5, <2>6, <2>7 DEF TypeOK
<1>2. Cardinality(inflight) = 0 BY FS_EmptySet DEF Init
<1> QED BY <1>1, <1>2 DEF Init, IInv, PhaseBugFree, Hold

LEMMA TransferCreateIInv == IInv /\ TransferCreate => IInv'
<1> SUFFICES ASSUME IInv, TransferCreate PROVE IInv' OBVIOUS
<1>1. itSt = "idle" /\ ~cancelled /\ inflight = {} /\ phase = 0
  BY DEF TransferCreate, IInv
<1>2. Cardinality({}) = 0 BY FS_EmptySet
<1> PICK outcome \in CreateOutcomes :
      CASE outcome = "ok" ->
             created' = "ok" /\ itSt' = "start" /\ phase' = 0
             /\ UNCHANGED bug
        [] outcome \in {"invalid_version", "nomem_transfer"} ->
             bug' = "create_null" /\ UNCHANGED <<created, itSt, phase>>
        [] OTHER ->
             created' = "failed" /\ UNCHANGED <<itSt, phase, bug>>
  BY DEF TransferCreate
<1>3. UNCHANGED <<onDest, itNode, itIdx, cancelled, cancels, progress,
                  inflight, pinned, freeDest, moved>>
  BY DEF TransferCreate
<1>4. CASE outcome = "ok"
  BY <1>1, <1>2, <1>3, <1>4 DEF IInv, TypeOK, PhaseBugFree, Hold
<1>5. CASE outcome \in {"invalid_version", "nomem_transfer"}
  BY <1>1, <1>2, <1>3, <1>5 DEF IInv, TypeOK, PhaseBugFree, Hold
<1>6. CASE outcome \notin {"ok", "invalid_version", "nomem_transfer"}
  BY <1>1, <1>2, <1>3, <1>6 DEF IInv, TypeOK, PhaseBugFree, Hold,
     CreateOutcomes
<1> QED BY <1>4, <1>5, <1>6

LEMMA NodeStartIInv == IInv /\ NodeStart => IInv'
<1> SUFFICES ASSUME IInv, NodeStart PROVE IInv' OBVIOUS
<1>1. inflight = {} /\ phase = 0
  <2>1. inflight = {} BY DEF NodeStart, IInv
  <2>2. Cardinality(inflight) = 0 BY <2>1, FS_EmptySet
  <2> QED BY <2>1, <2>2 DEF NodeStart, IInv, Hold
<1>2. phase' = 1 /\ itSt' = "each" /\ itIdx' = 1 /\ bug' = bug
  BY <1>1 DEF NodeStart
<1>3. Cardinality(inflight') = 0 BY <1>1, FS_EmptySet DEF NodeStart
<1> QED BY <1>1, <1>2, <1>3, TransferAssumption
        DEF NodeStart, IInv, TypeOK, PhaseBugFree, Hold

\* A move of the entry at the cursor, in each of its four outcomes.
LEMMA EachIInv == IInv /\ Each => IInv'
<1> SUFFICES ASSUME IInv, Each PROVE IInv' OBVIOUS
<1> DEFINE e == <<itNode, itIdx>>
<1>1. itSt = "each" /\ ~cancelled /\ bug = "none" /\ itIdx <= NodeSize
      /\ MoveBlock(e) /\ UNCHANGED <<onDest, created, bug>>
  BY DEF Each
<1>2. e \in Entries /\ e \notin inflight
  BY <1>1 DEF IInv, TypeOK, Entries
<1>3. /\ IsFiniteSet(inflight) /\ Cardinality(inflight) \in Nat
      /\ phase = 1 + Cardinality(inflight)
  BY <1>1, InflightFinite DEF IInv, TypeOK, Hold
<1>4. CASE /\ onDest[e]
           /\ progress' = progress + 1
           /\ itIdx' = itIdx + 1
           /\ UNCHANGED <<phase, pinned, freeDest, inflight, moved, cancelled,
                          cancels, itSt, itNode>>
  <2>1. inflight' \subseteq {itNode'} \X (1 .. itIdx' - 1)
    BY <1>1, <1>4 DEF IInv, TypeOK
  <2>2. TypeOK' BY <1>1, <1>4 DEF IInv, TypeOK
  <2>3. phase' = Hold' + Cardinality(inflight')
    BY <1>1, <1>3, <1>4 DEF Hold
  <2> QED BY <1>1, <1>4, <2>1, <2>2, <2>3 DEF IInv, PhaseBugFree
<1>5. CASE /\ ~onDest[e] /\ freeDest = 0
           /\ Cancel
           /\ itIdx' = itIdx + 1
           /\ UNCHANGED <<progress, phase, pinned, freeDest, inflight, moved,
                          itSt, itNode>>
  BY <1>1, <1>5 DEF IInv, TypeOK, PhaseBugFree, Cancel, MaxCancels
<1>6. CASE /\ ~onDest[e] /\ freeDest > 0
           /\ freeDest' = freeDest - 1
           /\ pinned' = pinned \cup {<<e, "src">>, <<e, "dest">>}
           /\ phase' = phase + 1
           /\ inflight' = inflight \cup {e}
           /\ itIdx' = itIdx + 1
           /\ UNCHANGED <<progress, moved, cancelled, cancels, itSt, itNode>>
  <2>1. Cardinality(inflight') = Cardinality(inflight) + 1
    BY <1>2, <1>3, <1>6, FS_AddElement
  <2>2. inflight' \subseteq {itNode'} \X (1 .. itIdx' - 1)
    BY <1>1, <1>6 DEF IInv, TypeOK
  <2>3. TypeOK'
    <3>1. pinned' \subseteq Pages BY <1>2, <1>6 DEF IInv, TypeOK, Pages
    <3>2. inflight' \subseteq Entries BY <1>2, <1>6 DEF IInv, TypeOK
    <3>3. freeDest' \in 0 .. FreeDest BY <1>6 DEF IInv, TypeOK
    <3>4. itIdx' \in 1 .. NodeSize + 1 BY <1>1, <1>6 DEF IInv, TypeOK
    <3>5. phase' \in Int BY <1>6 DEF IInv, TypeOK
    <3> QED BY <1>1, <1>6, <3>1, <3>2, <3>3, <3>4, <3>5 DEF IInv, TypeOK
  <2>4. phase' = Hold' + Cardinality(inflight')
    BY <1>1, <1>3, <1>6, <2>1 DEF Hold
  <2> QED BY <1>1, <1>6, <2>2, <2>3, <2>4 DEF IInv, PhaseBugFree
<1>7. CASE /\ ~onDest[e] /\ freeDest > 0
           /\ freeDest' = freeDest - 1
           /\ CopyDone(e, phase + 1, itIdx + 1)
           /\ UNCHANGED <<inflight, cancelled, cancels>>
  <2>1. (phase + 1) - 1 # 0 BY <1>3
  <2>2. /\ moved' = moved \cup {e}
        /\ pinned' = pinned \ {<<e, "src">>, <<e, "dest">>}
        /\ progress' = progress + 1
        /\ phase' = phase
        /\ itIdx' = itIdx + 1 /\ UNCHANGED <<itSt, itNode>>
    BY <1>3, <1>7, <2>1 DEF CopyDone
  <2>3. inflight' \subseteq {itNode'} \X (1 .. itIdx' - 1)
    BY <1>1, <1>7, <2>2 DEF IInv, TypeOK
  <2>4. TypeOK'
    <3>1. moved' \subseteq Entries BY <1>2, <2>2 DEF IInv, TypeOK
    <3>2. pinned' \subseteq Pages BY <2>2 DEF IInv, TypeOK
    <3>3. freeDest' \in 0 .. FreeDest BY <1>7 DEF IInv, TypeOK
    <3>4. itIdx' \in 1 .. NodeSize + 1 BY <1>1, <2>2 DEF IInv, TypeOK
    <3>5. progress' \in Nat BY <2>2 DEF IInv, TypeOK
    <3> QED BY <1>1, <1>7, <2>2, <3>1, <3>2, <3>3, <3>4, <3>5
            DEF IInv, TypeOK
  <2>5. phase' = Hold' + Cardinality(inflight')
    BY <1>1, <1>3, <1>7, <2>2 DEF Hold
  <2> QED BY <1>1, <1>7, <2>2, <2>3, <2>4, <2>5 DEF IInv, PhaseBugFree
<1> QED BY <1>1, <1>4, <1>5, <1>6, <1>7 DEF MoveBlock

\* The iterator's continue, called with the walk not cancelled and nothing
\* in flight, moves to the next node or completes the walk.
LEMMA ContinueFresh ==
  ASSUME IInv, ~cancelled, itSt \in {"each", "wait"}, Continue
  PROVE  /\ itSt' \in {"start", "done"}
         /\ itNode' \in 1 .. NodeCount
         /\ itIdx' \in 1 .. NodeSize + 1
         /\ itSt' = "start" => itIdx' = 1
<1>1. CASE itNode = NodeCount
  BY <1>1, TransferAssumption DEF Continue, IInv, TypeOK
<1>2. CASE itNode # NodeCount
  BY <1>2, TransferAssumption DEF Continue, IInv, TypeOK
<1> QED BY <1>1, <1>2

LEMMA NodeEndIInv == IInv /\ NodeEnd => IInv'
<1> SUFFICES ASSUME IInv, NodeEnd PROVE IInv' OBVIOUS
<1>1. itSt = "each" /\ ~cancelled /\ bug = "none" /\ itIdx = NodeSize + 1
      /\ phase' = phase - 1
      /\ UNCHANGED <<onDest, cancelled, cancels, progress, inflight, pinned,
                     freeDest, moved, created, bug>>
  BY DEF NodeEnd
<1>2. /\ IsFiniteSet(inflight) /\ Cardinality(inflight) \in Nat
      /\ phase - 1 = Cardinality(inflight)
  BY <1>1, InflightFinite DEF IInv, TypeOK, Hold
<1>3. CASE phase - 1 = 0
  <2>1. Continue BY <1>3 DEF NodeEnd
  <2>2. inflight = {} BY <1>2, <1>3, FS_EmptySet
  <2>3. /\ itSt' \in {"start", "done"}
        /\ itNode' \in 1 .. NodeCount
        /\ itIdx' \in 1 .. NodeSize + 1
    BY <1>1, <2>1, ContinueFresh
  <2> QED BY <1>1, <1>2, <1>3, <2>2, <2>3, FS_EmptySet
          DEF IInv, TypeOK, PhaseBugFree, Hold
<1>4. CASE phase - 1 # 0
  <2>1. itSt' = "wait" /\ UNCHANGED <<itNode, itIdx>> BY <1>4 DEF NodeEnd
  <2> QED BY <1>1, <1>2, <2>1 DEF IInv, TypeOK, PhaseBugFree, Hold
<1> QED BY <1>3, <1>4

\* A successful completion keeps the types, wherever it leaves the cursor.
LEMMA CallbackOkType ==
  ASSUME IInv, NEW e \in Entries, TransferCallback(e, TRUE),
         itSt' \in {"idle", "start", "each", "wait", "done", "ended"},
         itNode' \in 1 .. NodeCount, itIdx' \in 1 .. NodeSize + 1
  PROVE  TypeOK'
<1>1. /\ e \in inflight /\ inflight' = inflight \ {e}
      /\ UNCHANGED <<onDest, freeDest, created, bug, cancelled, cancels>>
      /\ CopyDone(e, phase, itIdx)
  BY DEF TransferCallback
<1>2. /\ moved' = moved \cup {e}
      /\ pinned' = pinned \ {<<e, "src">>, <<e, "dest">>}
      /\ progress' = progress + 1
      /\ phase' = phase - 1
  BY <1>1 DEF CopyDone
<1> QED BY <1>1, <1>2 DEF IInv, TypeOK

\* The I/O completion of one source read, failed or successful.
LEMMA CallbackIInv ==
  ASSUME IInv, NEW e \in Entries, NEW ok \in BOOLEAN, TransferCallback(e, ok)
  PROVE  IInv'
<1>1. e \in inflight /\ bug = "none" /\ inflight' = inflight \ {e}
      /\ UNCHANGED <<onDest, freeDest, created, bug>>
  BY DEF TransferCallback
<1>2. itSt \in {"start", "each", "wait", "done", "ended"}
  BY <1>1 DEF IInv, TypeOK
<1>3. /\ IsFiniteSet(inflight) /\ Cardinality(inflight) \in Nat
      /\ Cardinality(inflight') = Cardinality(inflight) - 1
  BY <1>1, InflightFinite, FS_RemoveElement DEF IInv, TypeOK
<1>4. CASE ~ok
  <2>1. Cancel /\ UNCHANGED <<moved, pinned, progress, phase, itSt, itNode,
                               itIdx>>
    BY <1>4 DEF TransferCallback
  <2> QED BY <1>1, <1>2, <2>1
          DEF IInv, TypeOK, PhaseBugFree, Cancel, MaxCancels
<1>5. CASE ok
  <2>1. /\ CopyDone(e, phase, itIdx) /\ UNCHANGED <<cancelled, cancels>>
    BY <1>5 DEF TransferCallback
  <2>2. /\ moved' = moved \cup {e}
        /\ pinned' = pinned \ {<<e, "src">>, <<e, "dest">>}
        /\ progress' = progress + 1
        /\ phase' = phase - 1
    BY <2>1 DEF CopyDone
  <2>3. CASE cancelled
    <3>1. UNCHANGED <<itSt>>
          /\ (itSt = "wait" => itIdx' = itIdx)
          /\ itNode' = itNode /\ itIdx' \in 1 .. NodeSize + 1
      BY <2>1, <2>3 DEF CopyDone, Continue, IInv, TypeOK
    <3>2. TypeOK' BY <1>2, <1>5, <3>1, CallbackOkType DEF IInv, TypeOK
    <3> QED BY <1>1, <1>2, <2>1, <2>2, <2>3, <3>1, <3>2 DEF IInv, PhaseBugFree
  <2>4. CASE ~cancelled
    <3>1. itSt \in {"each", "wait"}
      BY <1>1, <1>2, <2>4 DEF IInv
    <3>2. phase = Hold + Cardinality(inflight)
      BY <2>4 DEF IInv
    <3>3. CASE itSt = "each"
      <4>0. Cardinality(inflight) # 0 BY <1>1, <1>3, FS_EmptySet
      <4>1. phase - 1 # 0 BY <1>3, <3>2, <3>3, <4>0 DEF Hold
      <4>2. itIdx' = itIdx /\ UNCHANGED <<itSt, itNode>>
        BY <2>1, <4>1 DEF CopyDone
      <4>3. inflight' \subseteq {itNode'} \X (1 .. itIdx' - 1)
        BY <1>1, <2>4, <4>2 DEF IInv
      <4>4. TypeOK' BY <1>5, <3>3, <4>2, CallbackOkType DEF IInv, TypeOK
      <4>5. phase' = Hold' + Cardinality(inflight')
        BY <1>3, <2>2, <3>2, <3>3, <4>2 DEF Hold
      <4> QED BY <1>1, <2>1, <2>4, <3>3, <4>2, <4>3, <4>4, <4>5
              DEF IInv, PhaseBugFree
    <3>4. CASE itSt = "wait"
      <4>1. phase - 1 = Cardinality(inflight') BY <1>3, <3>2, <3>4 DEF Hold
      <4>2. CASE phase - 1 = 0
        <5>1. Continue BY <2>1, <4>2 DEF CopyDone
        <5>0. IsFiniteSet(inflight') BY <1>1, <1>3, FS_RemoveElement
        <5>2. inflight' = {} BY <1>3, <4>1, <4>2, <5>0, FS_EmptySet
        <5>3. /\ itSt' \in {"start", "done"}
              /\ itNode' \in 1 .. NodeCount
              /\ itIdx' \in 1 .. NodeSize + 1
          BY <2>4, <3>4, <5>1, ContinueFresh
        <5>4. TypeOK' BY <1>5, <5>3, CallbackOkType
        <5>5. phase' = Hold' + Cardinality(inflight')
          BY <2>2, <4>2, <5>2, <5>3, FS_EmptySet DEF Hold
        <5>6. created # "none" BY <1>1, <3>4 DEF IInv
        <5> QED BY <1>1, <2>1, <2>4, <5>2, <5>3, <5>4, <5>5, <5>6
                DEF IInv, PhaseBugFree
      <4>3. CASE phase - 1 # 0
        <5>1. itIdx' = itIdx /\ UNCHANGED <<itSt, itNode>>
          BY <2>1, <4>3 DEF CopyDone
        <5>2. inflight' \subseteq {itNode'} \X (1 .. itIdx' - 1)
          BY <1>1, <2>4, <5>1 DEF IInv
        <5>3. TypeOK' BY <1>5, <3>4, <5>1, CallbackOkType DEF IInv, TypeOK
        <5>4. phase' = Hold' + Cardinality(inflight')
          BY <2>2, <3>4, <4>1, <5>1 DEF Hold
        <5> QED BY <1>1, <2>1, <2>4, <3>4, <5>1, <5>2, <5>3, <5>4
                DEF IInv, PhaseBugFree
      <4> QED BY <4>2, <4>3
    <3> QED BY <3>1, <3>3, <3>4
  <2> QED BY <2>3, <2>4
<1> QED BY <1>4, <1>5

LEMMA IterEndIInv == IInv /\ IterEnd => IInv'
BY DEF IterEnd, IInv, TypeOK, PhaseBugFree, Hold

LEMMA StutterIInv == IInv /\ UNCHANGED vars => IInv'
BY DEF vars, IInv, TypeOK, PhaseBugFree, Hold

LEMMA NextIInv == IInv /\ [Next]_vars => IInv'
<1> SUFFICES ASSUME IInv, [Next]_vars PROVE IInv' OBVIOUS
<1>1. CASE TransferCreate BY <1>1, TransferCreateIInv
<1>2. CASE NodeStart BY <1>2, NodeStartIInv
<1>3. CASE Each BY <1>3, EachIInv
<1>4. CASE NodeEnd BY <1>4, NodeEndIInv
<1>5. CASE \E e \in Entries, ok \in BOOLEAN : TransferCallback(e, ok)
  BY <1>5, CallbackIInv
<1>6. CASE IterEnd BY <1>6, IterEndIInv
<1>7. CASE UNCHANGED vars BY <1>7, StutterIInv
<1> QED BY <1>1, <1>2, <1>3, <1>4, <1>5, <1>6, <1>7 DEF Next

-----------------------------------------------------------------------------
(* The walk's cursor: what each() and continue add to the walked entries.  *)

\* each() on slot i of node n adds exactly that entry, not walked before.
LEMMA WalkStep ==
  ASSUME NEW n \in 1 .. NodeCount, NEW i \in 1 .. NodeSize
  PROVE  /\ <<n, i>> \in Entries
         /\ <<n, i>> \notin Before(n, i)
         /\ Before(n, i + 1) = Before(n, i) \cup {<<n, i>>}
BY DEF Before, Entries

\* Past the last slot of node n is the first slot of node n + 1.
LEMMA WalkNextNode ==
  ASSUME NEW n \in 1 .. NodeCount
  PROVE  Before(n, NodeSize + 1) = Before(n + 1, 1)
BY DEF Before, Entries

\* The walk starts with nothing walked and ends with every entry walked.
LEMMA WalkEnds ==
  /\ Before(1, 1) = {}
  /\ Before(NodeCount, NodeSize + 1) = Entries
BY DEF Before, Entries

\* Adding an entry not yet in a set of entries adds one to its size.
LEMMA CountAdd ==
  ASSUME NEW S \in SUBSET Entries, NEW x \in Entries \ S
  PROVE  /\ Cardinality(S) \in Nat
         /\ Cardinality(S \cup {x}) = Cardinality(S) + 1
BY InflightFinite, FS_AddElement

\* A continue at the end of an uncancelled node leaves the walked entries
\* as they are, at the first slot of the next node or at the very end.
LEMMA ContinueWalk ==
  ASSUME IInv, ~cancelled, itSt \in {"each", "wait"}, itIdx = NodeSize + 1,
         Continue
  PROVE  /\ Walked' = Walked
         /\ itSt' \in {"start", "done"}
         /\ itSt' = "start" => itIdx' = 1
         /\ itSt' = "done" => itNode' = NodeCount /\ itIdx' = NodeSize + 1
<1>1. itNode \in 1 .. NodeCount BY DEF IInv, TypeOK
<1>2. CASE itNode = NodeCount BY <1>2 DEF Continue, Walked
<1>3. CASE itNode # NodeCount
  <2>1. itSt' = "start" /\ itNode' = itNode + 1 /\ itIdx' = 1
    BY <1>3 DEF Continue
  <2> QED BY <1>1, <2>1, WalkNextNode DEF Walked
<1> QED BY <1>2, <1>3

-----------------------------------------------------------------------------
(* The initial state, and each action, preserve PInv.                     *)

LEMMA InitPInv == Init => PInv
<1> SUFFICES ASSUME Init PROVE PInv OBVIOUS
<1>1. Walked = {} BY WalkEnds DEF Init, Walked
<1>2. Cardinality({}) = 0 BY FS_EmptySet
<1> QED BY <1>1, <1>2 DEF Init, PInv

LEMMA TransferCreatePInv == IInv /\ PInv /\ TransferCreate => PInv'
<1> SUFFICES ASSUME IInv, PInv, TransferCreate PROVE PInv' OBVIOUS
<1>1. itSt = "idle" BY DEF TransferCreate, IInv
<1>2. itSt' \in {"idle", "start"}
  <2> PICK outcome \in CreateOutcomes :
        CASE outcome = "ok" ->
               created' = "ok" /\ itSt' = "start" /\ phase' = 0
               /\ UNCHANGED bug
          [] outcome \in {"invalid_version", "nomem_transfer"} ->
               bug' = "create_null" /\ UNCHANGED <<created, itSt, phase>>
          [] OTHER ->
               created' = "failed" /\ UNCHANGED <<itSt, phase, bug>>
    BY DEF TransferCreate
  <2> QED BY <1>1
<1>3. UNCHANGED <<onDest, itNode, itIdx, cancelled, progress, inflight, moved>>
  BY DEF TransferCreate
<1> QED BY <1>1, <1>2, <1>3 DEF PInv, Walked

LEMMA NodeStartPInv == PInv /\ NodeStart => PInv'
<1> SUFFICES ASSUME PInv, NodeStart PROVE PInv' OBVIOUS
<1>1. itSt = "start" /\ itIdx = 1 /\ ~cancelled BY DEF NodeStart, PInv
<1>2. itSt' \in {"start", "each"} /\ itIdx' = 1 BY <1>1 DEF NodeStart
<1>3. UNCHANGED <<onDest, itNode, cancelled, progress, inflight, moved>>
  BY DEF NodeStart
<1> QED BY <1>1, <1>2, <1>3 DEF PInv, Walked

LEMMA IterEndPInv == PInv /\ IterEnd => PInv'
BY DEF IterEnd, PInv, Walked

LEMMA StutterPInv == PInv /\ UNCHANGED vars => PInv'
BY DEF vars, PInv, Walked

\* castle_move_block on the entry at the cursor accounts for it once.
LEMMA EachPInv == IInv /\ PInv /\ Each => PInv'
<1> SUFFICES ASSUME IInv, PInv, Each PROVE PInv' OBVIOUS
<1> DEFINE e == <<itNode, itIdx>>
           Off(S) == {x \in S : ~onDest[x]}
           On(S) == {x \in S : onDest[x]}
<1>1. itSt = "each" /\ ~cancelled /\ itIdx <= NodeSize
      /\ MoveBlock(e) /\ UNCHANGED <<onDest, created, bug>>
  BY DEF Each
<1>2. /\ e \in Entries /\ e \notin Walked
      /\ Before(itNode, itIdx + 1) = Walked \cup {e}
  BY <1>1, WalkStep DEF IInv, TypeOK, Walked
<1>3. /\ moved \cap inflight = {}
      /\ moved \cup inflight = Off(Walked)
      /\ progress = Cardinality(On(Walked)) + Cardinality(moved)
      /\ Walked \subseteq Entries /\ moved \subseteq Entries
  BY <1>1 DEF PInv, IInv, TypeOK, Walked, Before
<1>4. e \notin moved /\ e \notin inflight BY <1>2, <1>3
<1>5. CASE /\ onDest[e]
           /\ progress' = progress + 1
           /\ itIdx' = itIdx + 1
           /\ UNCHANGED <<phase, pinned, freeDest, inflight, moved, cancelled,
                          cancels, itSt, itNode>>
  <2>1. Walked' = Walked \cup {e} BY <1>2, <1>5 DEF Walked
  <2>2. On(Walked') = On(Walked) \cup {e} /\ Off(Walked') = Off(Walked)
    BY <1>1, <1>5, <2>1
  <2>3. Cardinality(On(Walked) \cup {e}) = Cardinality(On(Walked)) + 1
        /\ Cardinality(On(Walked)) \in Nat /\ Cardinality(moved) \in Nat
    BY <1>2, <1>3, CountAdd, InflightFinite
  <2> QED BY <1>1, <1>3, <1>5, <2>2, <2>3 DEF PInv
<1>6. CASE /\ ~onDest[e] /\ freeDest = 0
           /\ Cancel
           /\ itIdx' = itIdx + 1
           /\ UNCHANGED <<progress, phase, pinned, freeDest, inflight, moved,
                          itSt, itNode>>
  BY <1>1, <1>6 DEF PInv, Cancel
<1>7. CASE /\ ~onDest[e] /\ freeDest > 0
           /\ freeDest' = freeDest - 1
           /\ pinned' = pinned \cup {<<e, "src">>, <<e, "dest">>}
           /\ phase' = phase + 1
           /\ inflight' = inflight \cup {e}
           /\ itIdx' = itIdx + 1
           /\ UNCHANGED <<progress, moved, cancelled, cancels, itSt, itNode>>
  <2>1. Walked' = Walked \cup {e} BY <1>2, <1>7 DEF Walked
  <2>2. On(Walked') = On(Walked) /\ Off(Walked') = Off(Walked) \cup {e}
    BY <1>1, <1>7, <2>1
  <2> QED BY <1>1, <1>3, <1>4, <1>7, <2>2 DEF PInv
<1>8. CASE /\ ~onDest[e] /\ freeDest > 0
           /\ freeDest' = freeDest - 1
           /\ CopyDone(e, phase + 1, itIdx + 1)
           /\ UNCHANGED <<inflight, cancelled, cancels>>
  <2>0. Cardinality(inflight) \in Nat /\ phase = 1 + Cardinality(inflight)
    BY <1>1, InflightFinite DEF IInv, TypeOK, Hold
  <2>1. (phase + 1) - 1 # 0 BY <2>0
  <2>2. /\ moved' = moved \cup {e}
        /\ progress' = progress + 1
        /\ itIdx' = itIdx + 1 /\ UNCHANGED <<itSt, itNode>>
    BY <1>8, <2>1 DEF CopyDone
  <2>3. Walked' = Walked \cup {e} BY <1>2, <2>2 DEF Walked
  <2>4. On(Walked') = On(Walked) /\ Off(Walked') = Off(Walked) \cup {e}
    BY <1>1, <1>8, <2>3
  <2>5. Cardinality(moved \cup {e}) = Cardinality(moved) + 1
        /\ Cardinality(On(Walked)) \in Nat /\ Cardinality(moved) \in Nat
    BY <1>2, <1>3, <1>4, CountAdd, InflightFinite
  <2>6. moved' \cap inflight' = {} /\ moved' \cup inflight' = Off(Walked')
    BY <1>3, <1>4, <1>8, <2>2, <2>4
  <2>7. progress' = Cardinality(On(Walked')) + Cardinality(moved')
    <3> DEFINE a == Cardinality(On(Walked))  m == Cardinality(moved)
               m2 == Cardinality(moved \cup {e})  p2 == progress'
    <3>1. p2 = progress + 1 /\ progress = a + m /\ m2 = m + 1
          /\ a \in Nat /\ m \in Nat
      BY <1>3, <2>2, <2>5
    <3> HIDE DEF a, m, m2, p2
    <3>2. p2 = a + m2 BY <3>1
    <3> QED BY <2>2, <2>4, <3>2, Zenon DEF a, m2, p2
  <2> QED BY <1>1, <1>8, <2>2, <2>6, <2>7 DEF PInv
<1> QED BY <1>1, <1>5, <1>6, <1>7, <1>8 DEF MoveBlock

\* node_end either waits for the moves in flight or continues the walk.
LEMMA NodeEndPInv == IInv /\ PInv /\ NodeEnd => PInv'
<1> SUFFICES ASSUME IInv, PInv, NodeEnd PROVE PInv' OBVIOUS
<1>1. itSt = "each" /\ ~cancelled /\ itIdx = NodeSize + 1
      /\ UNCHANGED <<onDest, cancelled, progress, inflight, moved>>
  BY DEF NodeEnd
<1>2. CASE phase - 1 = 0
  <2>1. Continue BY <1>2 DEF NodeEnd
  <2> QED BY <1>1, <2>1, ContinueWalk DEF PInv
<1>3. CASE phase - 1 # 0
  <2>1. itSt' = "wait" /\ UNCHANGED <<itNode, itIdx>> BY <1>3 DEF NodeEnd
  <2> QED BY <1>1, <2>1 DEF PInv, Walked
<1> QED BY <1>2, <1>3

\* A completed source read turns its move from in flight to done; a failed
\* one cancels the walk, after which nothing more is claimed.
LEMMA CallbackPInv ==
  ASSUME IInv, PInv, NEW e \in Entries, NEW ok \in BOOLEAN,
         TransferCallback(e, ok)
  PROVE  PInv'
<1> DEFINE On(S) == {x \in S : onDest[x]}
<1>1. e \in inflight /\ inflight' = inflight \ {e}
      /\ UNCHANGED <<onDest>>
  BY DEF TransferCallback
<1>2. itSt # "done" /\ itSt # "idle"
  BY <1>1 DEF IInv, PInv
<1>3. CASE ~ok
  <2>1. Cancel /\ UNCHANGED <<moved, progress, itSt, itNode, itIdx>>
    BY <1>3 DEF TransferCallback
  <2> QED BY <1>1, <1>2, <2>1 DEF PInv, Cancel
<1>4. CASE ok
  <2>1. /\ CopyDone(e, phase, itIdx) /\ UNCHANGED <<cancelled, cancels>>
    BY <1>4 DEF TransferCallback
  <2>2. /\ moved' = moved \cup {e}
        /\ progress' = progress + 1
    BY <2>1 DEF CopyDone
  <2>3. CASE cancelled
    <3>1. UNCHANGED <<itSt, itNode, itIdx>>
      BY <2>1, <2>3 DEF CopyDone, Continue
    <3> QED BY <1>1, <1>2, <2>1, <2>2, <2>3, <3>1 DEF PInv
  <2>4. CASE ~cancelled
    <3>1. /\ moved \cap inflight = {}
          /\ moved \cup inflight = {x \in Walked : ~onDest[x]}
          /\ progress = Cardinality(On(Walked)) + Cardinality(moved)
          /\ moved \subseteq Entries /\ Walked \subseteq Entries
      BY <2>4 DEF PInv, IInv, TypeOK, Walked, Before
    <3>2. itSt \in {"each", "wait"} BY <1>1, <1>2, <2>4 DEF IInv, TypeOK
    <3>3. e \notin moved BY <1>1, <3>1
    <3>4. /\ Walked' = Walked
          /\ itSt' \in {"start", "each", "wait", "done"}
          /\ itSt' = "start" => itIdx' = 1
          /\ itSt' = "done" => itNode' = NodeCount /\ itIdx' = NodeSize + 1
      <4>1. CASE phase - 1 = 0
        <5>1. Continue BY <2>1, <4>1 DEF CopyDone
        <5>2. itSt = "wait"
          <6>1. Cardinality(inflight) \in Nat /\ Cardinality(inflight) # 0
            BY <1>1, InflightFinite, FS_EmptySet DEF IInv, TypeOK
          <6> QED BY <2>4, <3>2, <4>1, <6>1 DEF IInv, Hold
        <5>3. itIdx = NodeSize + 1 BY <5>2 DEF IInv
        <5> QED BY <2>4, <5>1, <5>2, <5>3, ContinueWalk
      <4>2. CASE phase - 1 # 0
        <5>1. itIdx' = itIdx /\ UNCHANGED <<itSt, itNode>>
          BY <2>1, <4>2 DEF CopyDone
        <5> QED BY <3>2, <5>1 DEF Walked
      <4> QED BY <4>1, <4>2
    <3>5. On(Walked') = On(Walked) BY <1>1, <3>4
    <3>6. moved' \cap inflight' = {}
          /\ moved' \cup inflight' = {x \in Walked' : ~onDest'[x]}
      BY <1>1, <2>2, <3>1, <3>4
    <3>7. progress' = Cardinality(On(Walked')) + Cardinality(moved')
      <4> DEFINE a == Cardinality(On(Walked))  m == Cardinality(moved)
                 m2 == Cardinality(moved \cup {e})  p2 == progress'
      <4>1. p2 = progress + 1 /\ progress = a + m /\ m2 = m + 1
            /\ a \in Nat /\ m \in Nat
        <5>1. a \in Nat BY <3>1, InflightFinite
        <5> QED BY <2>2, <3>1, <3>3, <5>1, CountAdd
      <4> HIDE DEF a, m, m2, p2
      <4>2. p2 = a + m2 BY <4>1
      <4> QED BY <2>2, <3>5, <4>2, Zenon DEF a, m2, p2
    <3>8. ~cancelled' BY <2>1, <2>4
    <3>9. /\ itSt' \in {"idle", "start"} => itIdx' = 1
          /\ itSt' = "idle" => itNode' = 1
          /\ itSt' = "done" => ~cancelled' /\ itNode' = NodeCount
                                          /\ itIdx' = NodeSize + 1
      BY <3>4, <3>8
    <3>10. progress' = Cardinality({x \in Walked' : onDest'[x]})
                       + Cardinality(moved')
      BY <1>1, <3>7
    <3> HIDE DEF On
    <3> QED BY <3>6, <3>8, <3>9, <3>10, Zenon DEF PInv
  <2> QED BY <2>3, <2>4
<1> QED BY <1>3, <1>4

LEMMA NextPInv == IInv /\ PInv /\ [Next]_vars => PInv'
<1> SUFFICES ASSUME IInv, PInv, [Next]_vars PROVE PInv' OBVIOUS
<1>1. CASE TransferCreate BY <1>1, TransferCreatePInv
<1>2. CASE NodeStart BY <1>2, NodeStartPInv
<1>3. CASE Each BY <1>3, EachPInv
<1>4. CASE NodeEnd BY <1>4, NodeEndPInv
<1>5. CASE \E e \in Entries, ok \in BOOLEAN : TransferCallback(e, ok)
  BY <1>5, CallbackPInv
<1>6. CASE IterEnd BY <1>6, IterEndPInv
<1>7. CASE UNCHANGED vars BY <1>7, StutterPInv
<1> QED BY <1>1, <1>2, <1>3, <1>4, <1>5, <1>6, <1>7 DEF Next

\* At the end of the walk every entry is walked, nothing is in flight, and
\* the in-place and the moved entries split the tree between them.
LEMMA PInvComplete == IInv /\ PInv => CompleteProgress
<1> SUFFICES ASSUME IInv, PInv, itSt = "done"
             PROVE  /\ progress = Cardinality(Entries)
                    /\ moved = {e \in Entries : ~onDest[e]}
                    /\ inflight = {}
  BY DEF CompleteProgress
<1> DEFINE On == {e \in Entries : onDest[e]}
           Off == {e \in Entries : ~onDest[e]}
<1>1. ~cancelled /\ Walked = Entries /\ inflight = {}
  BY WalkEnds DEF PInv, IInv, Walked
<1>2. moved = Off /\ progress = Cardinality(On) + Cardinality(moved)
  BY <1>1 DEF PInv
<1>3. /\ IsFiniteSet(On) /\ IsFiniteSet(Off)
      /\ Cardinality(On) \in Nat /\ Cardinality(Off) \in Nat
  BY InflightFinite
<1>4. On \cup Off = Entries /\ On \cap Off = {} BY DEF IInv, TypeOK
<1>5. Cardinality(Entries) = Cardinality(On) + Cardinality(Off)
  <2>1. Cardinality(On \cup Off)
          = Cardinality(On) + Cardinality(Off) - Cardinality(On \cap Off)
    BY <1>3, FS_Union
  <2>2. Cardinality(On \cap Off) = 0 BY <1>4, FS_EmptySet
  <2> HIDE DEF On, Off
  <2>3. Cardinality(Entries) = Cardinality(On \cup Off) BY <1>4, Zenon
  <2> DEFINE u == Cardinality(On \cup Off)  a == Cardinality(On)
             b == Cardinality(Off)  c == Cardinality(On \cap Off)
  <2>4. u = a + b - c /\ c = 0 /\ a \in Nat /\ b \in Nat BY <1>3, <2>1, <2>2
  <2> HIDE DEF u, a, b, c
  <2>5. u = a + b BY <2>4
  <2> QED BY <2>3, <2>5, Zenon DEF u, a, b
<1> QED BY <1>1, <1>2, <1>5

-----------------------------------------------------------------------------
(* The walk leaves a node only through a continue that is not absorbed.   *)

\* The step the walk takes when it leaves its node.
Leaves == itNode' # itNode \/ (itSt' = "done" /\ itSt # "done")

\* Only a continue on an uncancelled, unfinished walk leaves the node.
LEMMA ContinueLeaves ==
  ASSUME Continue, Leaves
  PROVE  ~cancelled
BY DEF Continue, Leaves

\* castle_transfer_node_end continues only once the phase is back to 0,
\* that is once the node's last read has completed.
LEMMA NodeEndBarrier ==
  ASSUME IInv, NodeEnd, Leaves
  PROVE  itIdx = NodeSize + 1 /\ inflight' \cap NodeEntries(itNode) = {}
<1>1. itSt = "each" /\ ~cancelled /\ itIdx = NodeSize + 1
      /\ UNCHANGED inflight
  BY DEF NodeEnd
<1>2. CASE phase - 1 = 0
  <2>1. IsFiniteSet(inflight) /\ Cardinality(inflight) = 0
    BY <1>1, <1>2, InflightFinite DEF IInv, TypeOK, Hold
  <2>2. inflight = {} BY <2>1, FS_EmptySet
  <2> QED BY <1>1, <2>2
<1>3. CASE phase - 1 # 0
  <2>1. itSt' = "wait" /\ UNCHANGED <<itNode, itIdx>> BY <1>3 DEF NodeEnd
  <2> QED BY <2>1 DEF Leaves
<1> QED BY <1>2, <1>3

\* The completion that drops the phase to 0 is the node's last read, and
\* it comes only after node_end, past the node's last slot.
LEMMA CallbackBarrier ==
  ASSUME IInv, NEW e \in Entries, NEW ok \in BOOLEAN, TransferCallback(e, ok),
         Leaves
  PROVE  itIdx = NodeSize + 1 /\ inflight' \cap NodeEntries(itNode) = {}
<1>1. e \in inflight /\ inflight' = inflight \ {e}
  BY DEF TransferCallback
<1>2. ok /\ CopyDone(e, phase, itIdx) /\ UNCHANGED cancelled
  <2>1. CASE ~ok
    <3>1. UNCHANGED <<itSt, itNode>> BY <2>1 DEF TransferCallback
    <3> QED BY <3>1 DEF Leaves
  <2> QED BY <2>1 DEF TransferCallback
<1>3. phase - 1 = 0 /\ Continue
  <2>1. CASE phase - 1 # 0
    <3>1. UNCHANGED <<itSt, itNode>> BY <1>2, <2>1 DEF CopyDone
    <3> QED BY <3>1 DEF Leaves
  <2> QED BY <1>2, <2>1 DEF CopyDone
<1>4. ~cancelled BY <1>3, ContinueLeaves
<1>5. /\ IsFiniteSet(inflight) /\ Cardinality(inflight) \in Nat
      /\ Cardinality(inflight') = Cardinality(inflight) - 1
  BY <1>1, InflightFinite, FS_RemoveElement DEF IInv, TypeOK
<1>6. itSt = "wait"
  <2>1. itSt \in {"each", "wait"}
    BY <1>1, <1>4 DEF IInv, TypeOK
  <2>2. itSt # "each"
    <3>1. Cardinality(inflight) # 0 BY <1>1, <1>5, FS_EmptySet
    <3> QED BY <1>3, <1>4, <1>5, <3>1 DEF IInv, Hold
  <2> QED BY <2>1, <2>2
<1>7. inflight' = {}
  <2>1. Cardinality(inflight') = 0 BY <1>3, <1>4, <1>5, <1>6 DEF IInv, Hold
  <2>2. IsFiniteSet(inflight') BY <1>1, <1>5, FS_RemoveElement
  <2> QED BY <2>1, <2>2, FS_EmptySet
<1> QED BY <1>6, <1>7 DEF IInv

\* Every other step stays on its node and leaves "done" as it was.
LEMMA OthersStay ==
  ASSUME IInv,
         \/ TransferCreate \/ NodeStart \/ Each \/ IterEnd
         \/ UNCHANGED vars
  PROVE  ~Leaves
<1>1. CASE TransferCreate
  <2>1. itSt = "idle" /\ UNCHANGED itNode BY <1>1 DEF TransferCreate, IInv
  <2>2. itSt' \in {"idle", "start"}
    <3> PICK outcome \in CreateOutcomes :
          CASE outcome = "ok" ->
                 created' = "ok" /\ itSt' = "start" /\ phase' = 0
                 /\ UNCHANGED bug
            [] outcome \in {"invalid_version", "nomem_transfer"} ->
                 bug' = "create_null" /\ UNCHANGED <<created, itSt, phase>>
            [] OTHER ->
                 created' = "failed" /\ UNCHANGED <<itSt, phase, bug>>
      BY <1>1 DEF TransferCreate
    <3> QED BY <2>1
  <2> QED BY <2>1, <2>2 DEF Leaves
<1>2. CASE NodeStart BY <1>2 DEF NodeStart, Leaves
<1>3. CASE Each
  <2>1. itSt = "each" /\ ~cancelled BY <1>3 DEF Each
  <2>2. phase # 0
    <3>1. Cardinality(inflight) \in Nat BY InflightFinite DEF IInv, TypeOK
    <3> QED BY <2>1, <3>1 DEF IInv, Hold
  <2>3. UNCHANGED <<itSt, itNode>>
    <3> DEFINE e == <<itNode, itIdx>>
    <3>1. MoveBlock(e) BY <1>3 DEF Each
    <3>2. (phase + 1) - 1 # 0 BY <2>2 DEF IInv, TypeOK
    <3>3. CopyDone(e, phase + 1, itIdx + 1) => UNCHANGED <<itSt, itNode>>
      BY <3>2 DEF CopyDone
    <3> QED BY <3>1, <3>3 DEF MoveBlock
  <2> QED BY <2>3 DEF Leaves
<1>4. CASE IterEnd BY <1>4 DEF IterEnd, Leaves
<1>5. CASE UNCHANGED vars BY <1>5 DEF vars, Leaves
<1> QED BY <1>1, <1>2, <1>3, <1>4, <1>5

-----------------------------------------------------------------------------
(* Refinement: each step of the walk is a step of TransferAbstract or     *)
(* leaves its variables unchanged.                                         *)

\* The entries the abstract transfer has counted, under the mapping.
Counted == {x \in Walked : onDest[x]}

\* A step of the abstract transfer, or a stutter of it.
AbsStep == Abs!Next \/ UNCHANGED Abs!avars

\* The abstract status while the walk is under way.
LEMMA AbsStRunning ==
  ASSUME itSt \in {"start", "each", "wait", "ended"}
  PROVE  AbsSt = IF cancelled THEN "stopped" ELSE "walking"
BY DEF AbsSt

\* When nothing is in flight, the walked entries are split between the
\* counted and the moved ones.
LEMMA WalkedAccounted ==
  ASSUME PInv, ~cancelled, inflight = {}
  PROVE  Counted \cup moved = Walked
BY DEF PInv, Counted

LEMMA InitAbs == Init => Abs!Init
<1> SUFFICES ASSUME Init PROVE Abs!Init OBVIOUS
<1>1. Walked = {} BY WalkEnds DEF Init, Walked
<1> QED BY <1>1 DEF Init, Abs!Init, AbsSt

\* castle_transfer_create: a started walk is the abstract Begin.
LEMMA TransferCreateAbs == IInv /\ PInv /\ TransferCreate => AbsStep
<1> SUFFICES ASSUME IInv, PInv, TransferCreate PROVE AbsStep OBVIOUS
<1>1. itSt = "idle" /\ ~cancelled /\ itIdx = 1 /\ itNode = 1
  BY DEF TransferCreate, IInv, PInv
<1>2. UNCHANGED <<onDest, itNode, itIdx, cancelled, progress, moved>>
  BY DEF TransferCreate
<1>3. Counted' = Counted BY <1>2 DEF Counted, Walked
<1>4. itSt' \in {"idle", "start"}
  <2> PICK outcome \in CreateOutcomes :
        CASE outcome = "ok" ->
               created' = "ok" /\ itSt' = "start" /\ phase' = 0
               /\ UNCHANGED bug
          [] outcome \in {"invalid_version", "nomem_transfer"} ->
               bug' = "create_null" /\ UNCHANGED <<created, itSt, phase>>
          [] OTHER ->
               created' = "failed" /\ UNCHANGED <<itSt, phase, bug>>
    BY DEF TransferCreate
  <2> QED BY <1>1
<1>5. CASE itSt' = "idle"
  BY <1>1, <1>2, <1>3, <1>5 DEF AbsStep, Abs!avars, AbsSt, Counted
<1>6. CASE itSt' = "start"
  <2>1. Abs!Begin BY <1>1, <1>2, <1>3, <1>6 DEF Abs!Begin, AbsSt, Counted
  <2> QED BY <2>1 DEF AbsStep, Abs!Next
<1> QED BY <1>4, <1>5, <1>6

\* node_start and the end of a cancelled walk change nothing abstract.
LEMMA NodeStartAbs == PInv /\ NodeStart => AbsStep
<1> SUFFICES ASSUME PInv, NodeStart PROVE AbsStep OBVIOUS
<1>1. itSt = "start" /\ itIdx = 1 /\ ~cancelled BY DEF NodeStart, PInv
<1>2. itSt' \in {"start", "each"} /\ itIdx' = 1
      /\ UNCHANGED <<onDest, itNode, cancelled, progress, moved>>
  BY <1>1 DEF NodeStart
<1> QED BY <1>1, <1>2 DEF AbsStep, Abs!avars, AbsSt, Counted, Walked

LEMMA IterEndAbs == IterEnd => AbsStep
BY DEF IterEnd, AbsStep, Abs!avars, AbsSt, Counted, Walked

LEMMA StutterAbs == UNCHANGED vars => AbsStep
BY DEF vars, AbsStep, Abs!avars, AbsSt, Counted, Walked

\* castle_move_block on the entry at the cursor: a block in place is the
\* abstract Count, no free block is Stop, a submitted read changes nothing
\* abstract yet, and an inline copy is the abstract Move.
LEMMA EachAbs == IInv /\ PInv /\ Each => AbsStep
<1> SUFFICES ASSUME IInv, PInv, Each PROVE AbsStep OBVIOUS
<1> DEFINE e == <<itNode, itIdx>>
<1>1. itSt = "each" /\ ~cancelled /\ itIdx <= NodeSize
      /\ MoveBlock(e) /\ UNCHANGED <<onDest, created, bug>>
  BY DEF Each
<1>2. /\ e \in Entries /\ e \notin Walked
      /\ Before(itNode, itIdx + 1) = Walked \cup {e}
  BY <1>1, WalkStep DEF IInv, TypeOK, Walked
<1>3. e \notin moved /\ e \notin Counted
  BY <1>1, <1>2 DEF PInv, Counted
<1>4. AbsSt = "walking" BY <1>1 DEF AbsSt
<1>5. CASE /\ onDest[e]
           /\ progress' = progress + 1
           /\ itIdx' = itIdx + 1
           /\ UNCHANGED <<phase, pinned, freeDest, inflight, moved, cancelled,
                          cancels, itSt, itNode>>
  <2>1. Counted' = Counted \cup {e} BY <1>1, <1>2, <1>5 DEF Counted, Walked
  <2>2. AbsSt' = "walking" BY <1>1, <1>5 DEF AbsSt
  <2>3. Abs!Count(e) BY <1>1, <1>3, <1>4, <1>5, <2>1, <2>2 DEF Abs!Count, Counted
  <2>4. \E x \in Entries : Abs!Count(x) \/ Abs!Move(x)
    BY <1>2, <2>3 DEF Abs!Count
  <2> QED BY <2>4, Zenon DEF AbsStep, Abs!Next
<1>6. CASE /\ ~onDest[e] /\ freeDest = 0
           /\ Cancel
           /\ itIdx' = itIdx + 1
           /\ UNCHANGED <<progress, phase, pinned, freeDest, inflight, moved,
                          itSt, itNode>>
  <2>1. Counted' = Counted BY <1>1, <1>2, <1>6 DEF Counted, Walked
  <2>2. AbsSt' = "stopped" BY <1>1, <1>6 DEF AbsSt, Cancel
  <2>3. Abs!Stop BY <1>1, <1>4, <1>6, <2>1, <2>2 DEF Abs!Stop, Counted
  <2> QED BY <2>3 DEF AbsStep, Abs!Next
<1>7. CASE /\ ~onDest[e] /\ freeDest > 0
           /\ freeDest' = freeDest - 1
           /\ pinned' = pinned \cup {<<e, "src">>, <<e, "dest">>}
           /\ phase' = phase + 1
           /\ inflight' = inflight \cup {e}
           /\ itIdx' = itIdx + 1
           /\ UNCHANGED <<progress, moved, cancelled, cancels, itSt, itNode>>
  <2>1. Counted' = Counted BY <1>1, <1>2, <1>7 DEF Counted, Walked
  <2>2. AbsSt' = AbsSt BY <1>1, <1>7 DEF AbsSt
  <2> QED BY <1>1, <1>7, <2>1, <2>2 DEF AbsStep, Abs!avars, Counted
<1>8. CASE /\ ~onDest[e] /\ freeDest > 0
           /\ freeDest' = freeDest - 1
           /\ CopyDone(e, phase + 1, itIdx + 1)
           /\ UNCHANGED <<inflight, cancelled, cancels>>
  <2>0. Cardinality(inflight) \in Nat /\ phase = 1 + Cardinality(inflight)
    BY <1>1, InflightFinite DEF IInv, TypeOK, Hold
  <2>1. (phase + 1) - 1 # 0 BY <2>0
  <2>2. /\ moved' = moved \cup {e}
        /\ progress' = progress + 1
        /\ itIdx' = itIdx + 1 /\ UNCHANGED <<itSt, itNode>>
    BY <1>8, <2>1 DEF CopyDone
  <2>3. Counted' = Counted BY <1>1, <1>2, <1>8, <2>2 DEF Counted, Walked
  <2>4. AbsSt' = AbsSt BY <1>1, <1>8, <2>2 DEF AbsSt
  <2>5. Abs!Move(e) BY <1>1, <1>3, <1>4, <1>8, <2>2, <2>3, <2>4 DEF Abs!Move, Counted
  <2> QED BY <1>2, <2>5 DEF AbsStep, Abs!Next
<1> QED BY <1>1, <1>5, <1>6, <1>7, <1>8 DEF MoveBlock

\* node_end: waiting, or going on to the next node, changes nothing
\* abstract; completing the walk is the abstract Finish.
LEMMA NodeEndAbs == IInv /\ PInv /\ NodeEnd => AbsStep
<1> SUFFICES ASSUME IInv, PInv, NodeEnd PROVE AbsStep OBVIOUS
<1>1. itSt = "each" /\ ~cancelled /\ itIdx = NodeSize + 1
      /\ UNCHANGED <<onDest, cancelled, progress, inflight, moved>>
  BY DEF NodeEnd
<1>2. AbsSt = "walking" BY <1>1 DEF AbsSt
<1>3. CASE phase - 1 = 0
  <2>1. Continue BY <1>3 DEF NodeEnd
  <2>2. /\ Walked' = Walked /\ itSt' \in {"start", "done"}
        /\ itSt' = "done" => itNode' = NodeCount /\ itIdx' = NodeSize + 1
    BY <1>1, <2>1, ContinueWalk
  <2>3. Counted' = Counted BY <1>1, <2>2 DEF Counted
  <2>4. CASE itSt' = "start"
    BY <1>1, <1>2, <2>3, <2>4 DEF AbsStep, Abs!avars, AbsSt, Counted
  <2>5. CASE itSt' = "done"
    <3>1. inflight = {}
      <4>1. IsFiniteSet(inflight) /\ Cardinality(inflight) = 0
        BY <1>1, <1>3, InflightFinite DEF IInv, TypeOK, Hold
      <4> QED BY <4>1, FS_EmptySet
    <3>2. Walked = Entries BY <2>2, <2>5, WalkEnds DEF Walked
    <3>3. Counted \cup moved = Entries BY <1>1, <3>1, <3>2, WalkedAccounted
    <3>4. AbsSt' = "done" BY <2>5 DEF AbsSt
    <3>5. Abs!Finish BY <1>1, <1>2, <2>3, <3>3, <3>4 DEF Abs!Finish, Abs!Accounted, Counted
    <3> QED BY <3>5 DEF AbsStep, Abs!Next
  <2> QED BY <2>2, <2>4, <2>5
<1>4. CASE phase - 1 # 0
  <2>1. itSt' = "wait" /\ UNCHANGED <<itNode, itIdx>> BY <1>4 DEF NodeEnd
  <2> QED BY <1>1, <1>2, <2>1 DEF AbsStep, Abs!avars, AbsSt, Counted, Walked
<1> QED BY <1>3, <1>4

\* castle_do_transfer_callback: a failed read is the abstract Stop (or
\* nothing, once stopped); a completed read is the abstract Move of its
\* entry, which completes the transfer when it continues the walk to its
\* end.
LEMMA CallbackAbs ==
  ASSUME IInv, PInv, NEW e \in Entries, NEW ok \in BOOLEAN,
         TransferCallback(e, ok)
  PROVE  AbsStep
<1>1. e \in inflight /\ inflight' = inflight \ {e} /\ UNCHANGED onDest
  BY DEF TransferCallback
<1>2. itSt \in {"start", "each", "wait", "ended"} /\ ~onDest[e] /\ e \notin moved
  BY <1>1 DEF IInv, PInv, TypeOK
<1>3. CASE ~ok
  <2>1. Cancel /\ UNCHANGED <<moved, progress, itSt, itNode, itIdx>>
    BY <1>3 DEF TransferCallback
  <2>2. Counted' = Counted BY <1>1, <2>1 DEF Counted, Walked
  <2>3. AbsSt' = "stopped" BY <1>2, <2>1 DEF AbsSt, Cancel
  <2>4. CASE cancelled
    <3>1. AbsSt = "stopped" BY <1>2, <2>4 DEF AbsSt
    <3> QED BY <1>1, <2>1, <2>2, <2>3, <3>1 DEF AbsStep, Abs!avars, Counted
  <2>5. CASE ~cancelled
    <3>1. AbsSt = "walking" BY <1>2, <2>5 DEF AbsSt
    <3>2. Abs!Stop BY <1>1, <2>1, <2>2, <2>3, <3>1 DEF Abs!Stop, Counted
    <3> QED BY <3>2 DEF AbsStep, Abs!Next
  <2> QED BY <2>4, <2>5
<1>4. CASE ok
  <2>1. /\ CopyDone(e, phase, itIdx) /\ UNCHANGED <<cancelled, cancels>>
    BY <1>4 DEF TransferCallback
  <2>2. /\ moved' = moved \cup {e}
        /\ progress' = progress + 1
    BY <2>1 DEF CopyDone
  <2>3. /\ Walked' = Walked
        /\ itSt' = itSt \/ itSt' = "start" \/ itSt' = "done"
        /\ itSt' = "done" => /\ ~cancelled /\ inflight' = {}
                             /\ itNode' = NodeCount /\ itIdx' = NodeSize + 1
    <3>1. CASE phase - 1 # 0 \/ cancelled
      <4>1. UNCHANGED <<itSt, itNode, itIdx>>
        BY <2>1, <3>1 DEF CopyDone, Continue
      <4> QED BY <1>2, <4>1 DEF Walked
    <3>2. CASE phase - 1 = 0 /\ ~cancelled
      <4>1. Continue BY <2>1, <3>2 DEF CopyDone
      <4>2. /\ IsFiniteSet(inflight) /\ Cardinality(inflight) \in Nat
            /\ Cardinality(inflight') = Cardinality(inflight) - 1
            /\ IsFiniteSet(inflight')
        BY <1>1, InflightFinite, FS_RemoveElement DEF IInv, TypeOK
      <4>3. itSt = "wait"
        <5>1. itSt \in {"each", "wait"} BY <1>1, <1>2, <3>2 DEF IInv
        <5>2. Cardinality(inflight) # 0 BY <1>1, <4>2, FS_EmptySet
        <5> QED BY <3>2, <4>2, <5>1, <5>2 DEF IInv, Hold
      <4>4. inflight' = {}
        <5>1. Cardinality(inflight') = 0 BY <3>2, <4>2, <4>3 DEF IInv, Hold
        <5> QED BY <4>2, <5>1, FS_EmptySet
      <4>5. itIdx = NodeSize + 1 BY <4>3 DEF IInv
      <4> QED BY <2>1, <3>2, <4>1, <4>3, <4>4, <4>5, ContinueWalk
    <3> QED BY <3>1, <3>2
  <2>4. Counted' = Counted BY <1>1, <2>3 DEF Counted
  <2>5. AbsSt \in {"walking", "stopped"} BY <1>2 DEF AbsSt
  <2>6. CASE itSt' = "done"
    <3>1. Walked = Entries BY <2>3, <2>6, WalkEnds DEF Walked
    <3>2. ~cancelled /\ moved \cup inflight = {x \in Walked : ~onDest[x]}
      BY <2>3, <2>6 DEF PInv
    <3>3. moved' = {x \in Entries : ~onDest[x]}
      BY <1>1, <2>2, <2>3, <2>6, <3>1, <3>2
    <3>4. Counted \cup moved' = Entries BY <3>1, <3>3 DEF Counted
    <3>5. AbsSt = "walking" /\ AbsSt' = "done"
      BY <1>2, <2>6, <3>2 DEF AbsSt
    <3>6. Abs!Move(e)
      BY <1>1, <1>2, <2>1, <2>2, <2>4, <3>4, <3>5 DEF Abs!Move, Counted
    <3> QED BY <3>6 DEF AbsStep, Abs!Next, Abs!Move
  <2>7. CASE itSt' # "done"
    <3>1. AbsSt' = AbsSt BY <1>2, <2>1, <2>3, <2>7 DEF AbsSt
    <3>2. Abs!Move(e) BY <1>1, <1>2, <2>1, <2>2, <2>4, <2>5, <3>1 DEF Abs!Move, Counted
    <3> QED BY <3>2 DEF AbsStep, Abs!Next, Abs!Move
  <2> QED BY <2>6, <2>7
<1> QED BY <1>3, <1>4

LEMMA NextAbs == IInv /\ PInv /\ [Next]_vars => AbsStep
<1> SUFFICES ASSUME IInv, PInv, [Next]_vars PROVE AbsStep OBVIOUS
<1>1. CASE TransferCreate BY <1>1, TransferCreateAbs
<1>2. CASE NodeStart BY <1>2, NodeStartAbs
<1>3. CASE Each BY <1>3, EachAbs
<1>4. CASE NodeEnd BY <1>4, NodeEndAbs
<1>5. CASE \E e \in Entries, ok \in BOOLEAN : TransferCallback(e, ok)
  BY <1>5, CallbackAbs
<1>6. CASE IterEnd BY <1>6, IterEndAbs
<1>7. CASE UNCHANGED vars BY <1>7, StutterAbs
<1> QED BY <1>1, <1>2, <1>3, <1>4, <1>5, <1>6, <1>7 DEF Next

-----------------------------------------------------------------------------
(* node_start's BUG_ON(transfer->phase != 0) never fires, whatever the    *)
(* shape of the tree, the space on the destination set, and the order in  *)
(* which the I/O completions of castle_do_transfer_callback arrive.        *)
THEOREM PhaseNeverBugs == Spec => []PhaseBugFree
<1>1. Init => IInv BY InitIInv
<1>2. IInv /\ [Next]_vars => IInv' BY NextIInv
<1>3. IInv => PhaseBugFree BY DEF IInv
<1> QED BY <1>1, <1>2, <1>3, PTL DEF Spec

(* Every state of a transfer is well typed: in particular phase, progress *)
(* and the free-block count stay in range.                                *)
THEOREM TransferTypeCorrect == Spec => []TypeOK
<1>1. IInv => TypeOK BY DEF IInv
<1> QED BY <1>1, InitIInv, NextIInv, PTL DEF Spec

(* A walk that castle_transfer completes has counted every entry of the   *)
(* tree in transfer->progress exactly once, moved exactly the entries     *)
(* whose blocks were not yet on the destination set, and left no read in  *)
(* flight: for every tree shape and destination space, and whatever the  *)
(* order of the I/O completions relative to the walk.                     *)
THEOREM ProgressComplete == Spec => []CompleteProgress
<1>1. Init => IInv /\ PInv BY InitIInv, InitPInv
<1>2. IInv /\ PInv /\ [Next]_vars => IInv' /\ PInv' BY NextIInv, NextPInv
<1>3. IInv /\ PInv => CompleteProgress BY PInvComplete
<1> QED BY <1>1, <1>2, <1>3, PTL DEF Spec

(* T1, the phase barrier, for every tree shape and destination space: the *)
(* walk leaves a node, for the next node or for the end of the walk, only *)
(* after each() was called on all of the node's slots and every source    *)
(* read spawned there has completed, however node_end and the I/O         *)
(* completions of castle_do_transfer_callback interleave.                 *)
THEOREM NodeBarrierHolds == Spec => NodeBarrier
<1>1. IInv /\ [Next]_vars
        => [Leaves => /\ itIdx = NodeSize + 1
                      /\ inflight' \cap NodeEntries(itNode) = {}]_vars
  <2> SUFFICES ASSUME IInv, [Next]_vars, Leaves
               PROVE  itIdx = NodeSize + 1
                      /\ inflight' \cap NodeEntries(itNode) = {}
    OBVIOUS
  <2>1. CASE NodeEnd BY <2>1, NodeEndBarrier
  <2>2. CASE \E e \in Entries, ok \in BOOLEAN : TransferCallback(e, ok)
    BY <2>2, CallbackBarrier
  <2>3. CASE TransferCreate \/ NodeStart \/ Each \/ IterEnd \/ UNCHANGED vars
    BY <2>3, OthersStay
  <2> QED BY <2>1, <2>2, <2>3 DEF Next
<1>2. Spec => []IInv BY InitIInv, NextIInv, PTL DEF Spec
<1> QED BY <1>1, <1>2, PTL DEF Spec, NodeBarrier, Leaves

(* The transfer implements its abstract specification, for every tree     *)
(* shape and destination space: under the mapping of the walked, in-place *)
(* entries to the counted ones and of the walk's state to the abstract    *)
(* status, every step of the handlers and of castle_do_transfer_callback  *)
(* is a step of TransferAbstract or leaves it unchanged.  So an entry is  *)
(* counted or moved at most once, only a block not in place moves, and    *)
(* the transfer is done only once every entry is accounted for.           *)
THEOREM TransferRefines == Spec => AbsSpec
<1>1. Init => IInv /\ PInv /\ Abs!Init BY InitIInv, InitPInv, InitAbs
<1>2. IInv /\ PInv /\ [Next]_vars => IInv' /\ PInv' BY NextIInv, NextPInv
<1>3. IInv /\ PInv /\ [Next]_vars => [Abs!Next]_Abs!avars
  BY NextAbs DEF AbsStep
<1> QED BY <1>1, <1>2, <1>3, PTL DEF Spec, AbsSpec, Abs!Spec
=============================================================================
