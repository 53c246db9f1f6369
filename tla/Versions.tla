------------------------------ MODULE Versions ------------------------------
(***************************************************************************)
(* The version registry of castle_versions.c: the hash of versions, the    *)
(* tree threaded through first_child / next_sybling / parent pointers, the *)
(* init list, castle_versions_process() (init loop, sorted sibling insert, *)
(* stack-free DFS numbering), castle_version_tree_delete(), attach/detach, *)
(* writeback to the metadata store and restore from it after a restart.   *)
(*                                                                         *)
(* Control-plane calls (new, delete, attach, detach, writeback) are        *)
(* serialised by the control lock; the loops of process() and of the tree  *)
(* delete run under castle_versions_hash_lock and are modelled one loop    *)
(* iteration per step, with pc naming the loop.  Readers (is_ancestor,     *)
(* compare) take the hash lock, so they observe only the "idle" states.    *)
(* da_id and size are not modelled: no property here depends on them.     *)
(***************************************************************************)
EXTENDS Integers, Sequences, FiniteSets

CONSTANTS
  MaxVersion,   \* largest version id handed out (bound on castle_versions_last)
  VersionCap    \* the "beta" cap of castle_version_add (900 in the code)

ASSUME VersionsAssumption ==
  /\ MaxVersion \in Nat \ {0}
  /\ VersionCap \in Nat \ {0}

Ids == 0 .. MaxVersion

\* Bound on the DFS id: the DFS hands out one o_order per version in the hash
DfsIdBound == MaxVersion + 1

NULL == -1            \* a NULL pointer (struct castle_version *)
INVAL_VERSION == -1   \* o_order / r_order not yet assigned

VARIABLES
  hash,          \* versions present in castle_versions_hash
  parent,        \* parent_v before init, parent->version after (NULL for root)
  firstChild,    \* first_child pointer
  nextSib,       \* next_sybling pointer
  oOrder,        \* o_order (DFS pre-visit number)
  rOrder,        \* r_order (largest o_order in the subtree)
  inited,        \* CV_INITED_BIT
  attached,      \* CV_ATTACHED_BIT
  snap,          \* CV_SNAP_BIT
  initList,      \* castle_versions_init_list, head first
  last,          \* castle_versions_last
  cnt,           \* version_cnt of castle_version_add, saturated at VersionCap+1
  pc,            \* "idle", "process", "insert", "dfs", "delete" or "bug"
  caller,        \* the caller process() returns to: "new", "delete", "read"
  newV,          \* the version castle_version_new_create is creating
  cur,           \* loop cursor: v of process()/insert/DFS, cur of tree delete
  pprev,         \* castle_versions_insert: the link the walk has reached
  dfsId,         \* id of the DFS numbering
  childrenFirst, \* children_first of the DFS
  delTarget,     \* the version castle_version_tree_delete was asked to delete
  stored,        \* metadata store: stored parent of each written-back version
  bug,           \* reason of a BUG()/oops that stopped the kernel, or "none"
  issued         \* history: ids castle_version_new has handed out

vars == <<hash, parent, firstChild, nextSib, oOrder, rOrder, inited, attached,
          snap, initList, last, cnt, pc, caller, newV, cur, pprev, dfsId,
          childrenFirst, delTarget, stored, bug, issued>>

Ptr == Ids \cup {NULL}
Links == [kind : {"first", "next"}, at : Ids]
BugReasons == {"none", "attached", "root", "uninited"}

TypeOK ==
  /\ hash \subseteq Ids
  /\ parent \in [Ids -> Ptr]
  /\ firstChild \in [Ids -> Ptr]
  /\ nextSib \in [Ids -> Ptr]
  /\ oOrder \in [Ids -> Nat \cup {INVAL_VERSION}]
  /\ rOrder \in [Ids -> Nat \cup {INVAL_VERSION}]
  /\ inited \subseteq Ids
  /\ attached \subseteq Ids
  /\ snap \subseteq Ids
  /\ initList \in Seq(Ids)
  /\ last \in Ids
  /\ cnt \in 0 .. VersionCap + 1
  /\ pc \in {"idle", "process", "insert", "dfs", "delete", "bug"}
  /\ caller \in {"new", "delete", "read"}
  /\ newV \in Ids
  /\ cur \in Ptr
  /\ pprev \in Links
  /\ dfsId \in Nat
  /\ childrenFirst \in BOOLEAN
  /\ delTarget \in Ids
  /\ stored \in [Ids -> Ptr]
  /\ bug \in BugReasons
  /\ issued \subseteq Ids

-----------------------------------------------------------------------------
(* Helpers                                                                 *)

\* list_del of x from the init list (each version is on it at most once)
ListDel(s, x) ==
  IF \E i \in 1 .. Len(s) : s[i] = x
  THEN LET i == CHOOSE i \in 1 .. Len(s) : s[i] = x
       IN SubSeq(s, 1, i - 1) \o SubSeq(s, i + 1, Len(s))
  ELSE s

\* The orders of the init list that restore can produce from a set of ids
\* (the mstore iteration order is not fixed by this code).
Orders(S) == {f \in [1 .. Cardinality(S) -> S] :
                 \A i, j \in 1 .. Cardinality(S) : i # j => f[i] # f[j]}

\* *pprev: the pointer the sorted-insert walk is looking at
Deref(l) == IF l.kind = "first" THEN firstChild[l.at] ELSE nextSib[l.at]

\* A freshly allocated struct castle_version (castle_version_add) for v.
\* Pointer and order fields of all other versions are kept.
Fresh(f, v, val) == [f EXCEPT ![v] = val]

-----------------------------------------------------------------------------
(* Initial state: castle_versions_init() then castle_versions_zero_init()  *)
(* on a filesystem with an empty metadata store.                           *)

ZeroInitState ==
  /\ hash = {0}
  /\ parent = [v \in Ids |-> NULL]
  /\ firstChild = [v \in Ids |-> NULL]
  /\ nextSib = [v \in Ids |-> NULL]
  /\ oOrder = [v \in Ids |-> INVAL_VERSION]
  /\ rOrder = [v \in Ids |-> INVAL_VERSION]
  /\ inited = {0}
  /\ attached = {}
  /\ snap = {}
  /\ initList = << >>
  /\ last = 0
  /\ cnt = 1

Init ==
  /\ ZeroInitState
  /\ pc = "idle"
  /\ caller = "new"
  /\ newV = 0
  /\ cur = NULL
  /\ pprev = [kind |-> "first", at |-> 0]
  /\ dfsId = 0
  /\ childrenFirst = TRUE
  /\ delTarget = 0
  /\ stored = [v \in Ids |-> NULL]
  /\ bug = "none"
  /\ issued = {}

-----------------------------------------------------------------------------
(* castle_version_new_create(snap_or_clone, parent): allocate the next id, *)
(* castle_version_add() it (subject to the cap) and run process().         *)

(* Mutation: the cap test of castle_version_add off by one.                *)
CapReachedOffByOne(c) == c + 1 > VersionCap + 1

\* castle_version_add: atomic_inc_return(&version_cnt) > 900
CapReached(c) == c + 1 > VersionCap

VersionNew(isSnap, p) ==
  LET version == last + 1 IN
  /\ pc = "idle"
  /\ p \in hash
  /\ last < MaxVersion
  /\ last' = version
  /\ issued' = issued \cup {version}
  /\ cnt' = IF cnt <= VersionCap THEN cnt + 1 ELSE cnt
  /\ IF CapReached(cnt)
     THEN \* castle_version_add returns NULL: the id is burnt
          UNCHANGED <<hash, parent, firstChild, nextSib, oOrder, rOrder,
                      inited, attached, snap, initList, pc, caller, newV, cur>>
     ELSE /\ hash' = hash \cup {version}
          /\ parent' = Fresh(parent, version, p)
          /\ firstChild' = Fresh(firstChild, version, NULL)
          /\ nextSib' = Fresh(nextSib, version, NULL)
          /\ oOrder' = Fresh(oOrder, version, INVAL_VERSION)
          /\ rOrder' = Fresh(rOrder, version, INVAL_VERSION)
          /\ inited' = inited \ {version}
          /\ attached' = attached \ {version}
          /\ snap' = IF isSnap THEN snap \cup {version} ELSE snap \ {version}
          /\ initList' = <<version>> \o initList
          /\ pc' = "process"
          /\ caller' = "new"
          /\ newV' = version
          /\ cur' = NULL
  /\ UNCHANGED <<pprev, dfsId, childrenFirst, delTarget, stored, bug>>

(* Mutation: the snapshot check of process() left out.                    *)
SnapRejectedNever(v) == FALSE

\* process(): "We can only snapshot leaf nodes"
SnapRejected(v) == v \in snap /\ firstChild[parent[v]] # NULL

\* process(): a clone of an attached leaf is refused
CloneRejected(v) ==
  v \notin snap /\ parent[v] \in attached /\ firstChild[parent[v]] = NULL

(* castle_versions_process(), init-list loop: take the head (cur = NULL)   *)
(* or, after "goto process_version", the parent left in cur; check the    *)
(* snapshot and clone rules, chase an uninited parent, or start the insert.*)
ProcessVersion(v, rest) ==
  LET p == parent[v] IN
  \/ /\ SnapRejected(v) \/ CloneRejected(v)          \* warn and continue
     /\ initList' = rest /\ cur' = NULL
     /\ UNCHANGED <<pc, pprev>>
  \/ /\ ~SnapRejected(v) /\ ~CloneRejected(v)
     /\ p \notin inited                               \* init the parent first
     /\ initList' = <<v>> \o ListDel(rest, p)
     /\ cur' = p
     /\ UNCHANGED <<pc, pprev>>
  \/ /\ ~SnapRejected(v) /\ ~CloneRejected(v)
     /\ p \in inited                                  \* castle_versions_insert
     /\ initList' = rest
     /\ cur' = v
     /\ pprev' = [kind |-> "first", at |-> p]
     /\ pc' = "insert"

ProcessInitList ==
  /\ pc = "process"
  /\ \/ /\ cur = NULL /\ initList = << >>              \* list drained: DFS
        /\ pc' = "dfs" /\ cur' = 0 /\ dfsId' = 0 /\ childrenFirst' = TRUE
        /\ UNCHANGED <<initList, pprev>>
     \/ /\ cur = NULL /\ initList # << >>
        /\ ProcessVersion(Head(initList), Tail(initList))
        /\ UNCHANGED <<dfsId, childrenFirst>>
     \/ /\ cur # NULL
        /\ ProcessVersion(cur, initList)
        /\ UNCHANGED <<dfsId, childrenFirst>>
  /\ UNCHANGED <<hash, parent, firstChild, nextSib, oOrder, rOrder, inited,
                 attached, snap, last, cnt, caller, newV, delTarget, stored,
                 bug, issued>>

(* castle_versions_insert(p, v): walk the sibling list while the sibling's *)
(* id is larger than v's, then link v in; then mark v inited.              *)
ProcessInsert ==
  LET s == Deref(pprev) IN
  /\ pc = "insert"
  /\ \/ /\ s # NULL /\ s > cur
        /\ pprev' = [kind |-> "next", at |-> s]
        /\ UNCHANGED <<firstChild, nextSib, inited, pc, cur>>
     \/ /\ ~(s # NULL /\ s > cur)
        /\ nextSib' = IF pprev.kind = "next"
                      THEN [nextSib EXCEPT ![cur] = s, ![pprev.at] = cur]
                      ELSE [nextSib EXCEPT ![cur] = s]
        /\ firstChild' = IF pprev.kind = "first"
                         THEN [firstChild EXCEPT ![pprev.at] = cur]
                         ELSE firstChild
        /\ inited' = inited \cup {cur}
        /\ pc' = "process"
        /\ cur' = NULL
        /\ UNCHANGED pprev
  /\ UNCHANGED <<hash, parent, oOrder, rOrder, attached, snap, initList, last,
                 cnt, caller, newV, dfsId, childrenFirst, delTarget, stored,
                 bug, issued>>

(* Mutation: children_first left set when the DFS climbs to the parent.  *)
ProcessDfsUpNoClear ==
  LET v == cur
      id1 == dfsId + 1
      down == IF childrenFirst THEN firstChild[v] ELSE NULL
      n == IF down # NULL THEN down ELSE nextSib[v]
  IN
  /\ pc = "dfs"
  /\ cur # NULL
  /\ childrenFirst => dfsId < DfsIdBound
  /\ oOrder' = IF childrenFirst THEN [oOrder EXCEPT ![v] = id1] ELSE oOrder
  /\ rOrder' = IF childrenFirst
               THEN IF firstChild[v] = NULL THEN [rOrder EXCEPT ![v] = id1]
                                            ELSE rOrder
               ELSE [rOrder EXCEPT ![v] = dfsId]
  /\ dfsId' = IF childrenFirst THEN id1 ELSE dfsId
  /\ IF n # NULL
     THEN cur' = n /\ childrenFirst' = TRUE
     ELSE cur' = parent[v] /\ childrenFirst' = TRUE
  /\ UNCHANGED <<hash, parent, firstChild, nextSib, inited, attached, snap,
                 initList, last, cnt, pc, caller, newV, pprev, delTarget,
                 stored, bug, issued>>

(* Mutation: r_order assigned id + 1 on the way up.                        *)
ProcessDfsROffByOne ==
  LET v == cur
      id1 == dfsId + 1
      down == IF childrenFirst THEN firstChild[v] ELSE NULL
      n == IF down # NULL THEN down ELSE nextSib[v]
  IN
  /\ pc = "dfs"
  /\ cur # NULL
  /\ childrenFirst => dfsId < DfsIdBound
  /\ oOrder' = IF childrenFirst THEN [oOrder EXCEPT ![v] = id1] ELSE oOrder
  /\ rOrder' = IF childrenFirst
               THEN IF firstChild[v] = NULL THEN [rOrder EXCEPT ![v] = id1]
                                            ELSE rOrder
               ELSE [rOrder EXCEPT ![v] = dfsId + 1]
  /\ dfsId' = IF childrenFirst THEN id1 ELSE dfsId
  /\ IF n # NULL
     THEN cur' = n /\ childrenFirst' = TRUE
     ELSE cur' = parent[v] /\ childrenFirst' = FALSE
  /\ UNCHANGED <<hash, parent, firstChild, nextSib, inited, attached, snap,
                 initList, last, cnt, pc, caller, newV, pprev, delTarget,
                 stored, bug, issued>>

(* One iteration of the stack-free DFS of castle_versions_process().       *)
ProcessDfs ==
  LET v == cur
      id1 == dfsId + 1
      down == IF childrenFirst THEN firstChild[v] ELSE NULL
      n == IF down # NULL THEN down ELSE nextSib[v]
  IN
  /\ pc = "dfs"
  /\ cur # NULL
  /\ childrenFirst => dfsId < DfsIdBound
  /\ oOrder' = IF childrenFirst THEN [oOrder EXCEPT ![v] = id1] ELSE oOrder
  /\ rOrder' = IF childrenFirst
               THEN IF firstChild[v] = NULL THEN [rOrder EXCEPT ![v] = id1]
                                            ELSE rOrder
               ELSE [rOrder EXCEPT ![v] = dfsId]
  /\ dfsId' = IF childrenFirst THEN id1 ELSE dfsId
  /\ IF n # NULL
     THEN cur' = n /\ childrenFirst' = TRUE
     ELSE cur' = parent[v] /\ childrenFirst' = FALSE
  /\ UNCHANGED <<hash, parent, firstChild, nextSib, inited, attached, snap,
                 initList, last, cnt, pc, caller, newV, pprev, delTarget,
                 stored, bug, issued>>

(* The DFS has walked off the root: process() returns to its caller.       *)
(* castle_version_new_create frees the new version if it was not inited.   *)
ProcessDone ==
  /\ pc = "dfs"
  /\ cur = NULL
  /\ pc' = "idle"
  /\ IF caller = "new" /\ newV \notin inited
     THEN hash' = hash \ {newV}
     ELSE UNCHANGED hash
  /\ UNCHANGED <<parent, firstChild, nextSib, oOrder, rOrder, inited,
                 attached, snap, initList, last, cnt, caller, newV, cur,
                 pprev, dfsId, childrenFirst, delTarget, stored, bug, issued>>

-----------------------------------------------------------------------------
(* castle_version_tree_delete(version): peel leaves of the subtree.        *)

TreeDelete(t) ==
  /\ pc = "idle"
  /\ t \in hash
  /\ IF t \in inited                      \* BUG_ON(!(v->flags & CV_INITED_MASK))
     THEN pc' = "delete" /\ UNCHANGED bug
     ELSE pc' = "bug" /\ bug' = "uninited"
  /\ cur' = t
  /\ delTarget' = t
  /\ UNCHANGED <<hash, parent, firstChild, nextSib, oOrder, rOrder, inited,
                 attached, snap, initList, last, cnt, caller, newV, pprev,
                 dfsId, childrenFirst, stored, issued>>

(* Mutation: drop() that unlinks v only when it is the first child.       *)
DropNoRelink(v) ==
  LET p == parent[v] IN
  /\ firstChild' = IF firstChild[p] = v
                   THEN [firstChild EXCEPT ![p] = nextSib[v]] ELSE firstChild
  /\ nextSib' = [nextSib EXCEPT ![v] = NULL]
  /\ parent' = [parent EXCEPT ![v] = NULL]

(* castle_versions_drop(v): unlink v from its parent's sibling list (the   *)
(* walk redirects the one pointer that reaches v), clear its links.        *)
Drop(v) ==
  LET p == parent[v] IN
  /\ firstChild' = IF firstChild[p] = v
                   THEN [firstChild EXCEPT ![p] = nextSib[v]] ELSE firstChild
  /\ nextSib' = [x \in Ids |->
                   IF x = v THEN NULL
                   ELSE IF x \in hash /\ nextSib[x] = v
                        THEN nextSib[v] ELSE nextSib[x]]
  /\ parent' = [parent EXCEPT ![v] = NULL]

(* One iteration of the peel loop: descend to the first child, or delete   *)
(* the leaf cur (castle_version_delete + castle_versions_drop) and go up.  *)
TreeDeleteStep ==
  LET p == parent[cur] IN
  /\ pc = "delete"
  /\ \/ /\ firstChild[cur] # NULL
        /\ cur' = firstChild[cur]
        /\ UNCHANGED <<hash, parent, firstChild, nextSib, inited, snap, pc,
                       caller, bug>>
     \/ /\ firstChild[cur] = NULL
        /\ cur \in attached                          \* BUG_ON(attached)
        /\ pc' = "bug" /\ bug' = "attached"
        /\ UNCHANGED <<hash, parent, firstChild, nextSib, inited, snap, cur,
                       caller>>
     \/ /\ firstChild[cur] = NULL
        /\ cur \notin attached
        /\ p = NULL                                  \* drop(): p->first_child
        /\ pc' = "bug" /\ bug' = "root"
        /\ UNCHANGED <<hash, parent, firstChild, nextSib, inited, snap, cur,
                       caller>>
     \/ /\ firstChild[cur] = NULL
        /\ cur \notin attached
        /\ p # NULL
        /\ Drop(cur)
        /\ hash' = hash \ {cur}
        /\ inited' = inited \ {cur}
        /\ snap' = snap \ {cur}
        /\ IF cur = delTarget
           THEN pc' = "process" /\ caller' = "delete" /\ cur' = NULL
           ELSE cur' = p /\ UNCHANGED <<pc, caller>>
        /\ UNCHANGED bug
  /\ UNCHANGED <<oOrder, rOrder, attached, initList, last, cnt, newV, pprev,
                 dfsId, childrenFirst, delTarget, stored, issued>>

-----------------------------------------------------------------------------
(* castle_version_attach / castle_version_detach                           *)

Attach(v) ==
  /\ pc = "idle"
  /\ v \in hash
  /\ v \notin attached
  /\ attached' = attached \cup {v}
  /\ UNCHANGED <<hash, parent, firstChild, nextSib, oOrder, rOrder, inited,
                 snap, initList, last, cnt, pc, caller, newV, cur, pprev,
                 dfsId, childrenFirst, delTarget, stored, bug, issued>>

Detach(v) ==
  /\ pc = "idle"
  /\ v \in attached
  /\ attached' = attached \ {v}
  /\ UNCHANGED <<hash, parent, firstChild, nextSib, oOrder, rOrder, inited,
                 snap, initList, last, cnt, pc, caller, newV, cur, pprev,
                 dfsId, childrenFirst, delTarget, stored, bug, issued>>

(* castle_versions_writeback: one mstore entry {version, parent} per       *)
(* version of the hash; the root's NULL parent is written as 0.            *)
Writeback ==
  /\ pc = "idle"
  /\ stored' = [v \in Ids |->
                  IF v \in hash
                  THEN IF parent[v] = NULL THEN 0 ELSE parent[v]
                  ELSE NULL]
  /\ UNCHANGED <<hash, parent, firstChild, nextSib, oOrder, rOrder, inited,
                 attached, snap, initList, last, cnt, pc, caller, newV, cur,
                 pprev, dfsId, childrenFirst, delTarget, bug, issued>>

(* A crash or reboot at any point, then castle_versions_init() and either  *)
(* castle_versions_zero_init() (empty store) or castle_versions_read():    *)
(* castle_version_add of every stored entry (the root is inited at once,   *)
(* the others are list_add'ed to the init list, flags = 0 so the snapshot  *)
(* bit is lost), last = the largest id read, then process().               *)
StoredIds == {v \in Ids : stored[v] # NULL}

(* Mutation: version_cnt not reset by the restart, only increased.         *)
ReadCntNoReset(ids) == cnt + Cardinality(ids)

\* version_cnt after castle_version_add of every entry read
ReadCnt(ids) == Cardinality(ids)

Restart ==
  LET ids == StoredIds \cup {0} IN
  /\ hash' = ids
  /\ parent' = [v \in Ids |-> IF v = 0 THEN NULL ELSE stored[v]]
  /\ firstChild' = [v \in Ids |-> NULL]
  /\ nextSib' = [v \in Ids |-> NULL]
  /\ oOrder' = [v \in Ids |-> INVAL_VERSION]
  /\ rOrder' = [v \in Ids |-> INVAL_VERSION]
  /\ inited' = {0}
  /\ attached' = {}
  /\ snap' = {}
  /\ initList' \in Orders(ids \ {0})
  /\ last' \in ids /\ \A v \in ids : v <= last'   \* the largest id read
  /\ cnt' = ReadCnt(ids)
  /\ pc' = IF StoredIds = {} THEN "idle" ELSE "process"
  /\ caller' = "read"
  /\ cur' = NULL
  /\ bug' = "none"
  /\ UNCHANGED <<newV, pprev, dfsId, childrenFirst, delTarget, stored, issued>>

-----------------------------------------------------------------------------

Next ==
  \/ \E isSnap \in BOOLEAN, p \in Ids : VersionNew(isSnap, p)
  \/ ProcessInitList
  \/ ProcessInsert
  \/ ProcessDfs
  \/ ProcessDone
  \/ \E t \in Ids : TreeDelete(t)
  \/ TreeDeleteStep
  \/ \E v \in Ids : Attach(v) \/ Detach(v)
  \/ Writeback
  \/ Restart

\* The lock holder runs its loop to the end: the loop steps are weakly fair.
Fairness ==
  /\ WF_vars(ProcessInitList)
  /\ WF_vars(ProcessInsert)
  /\ WF_vars(ProcessDfs)
  /\ WF_vars(ProcessDone)
  /\ WF_vars(TreeDeleteStep)

Spec == Init /\ [][Next]_vars
FairSpec == Spec /\ Fairness

-----------------------------------------------------------------------------
(* Properties                                                              *)

\* ParentPow[k][v]: the version k parent links above v (NULL past the root)
ParentPow[k \in 0 .. MaxVersion + 1] ==
  IF k = 0 THEN [v \in Ids |-> v]
  ELSE [v \in Ids |-> IF ParentPow[k - 1][v] = NULL THEN NULL
                      ELSE parent[ParentPow[k - 1][v]]]

\* a is d or an ancestor of d in the parent relation
IsAncestorOf(a, d) == \E k \in 0 .. MaxVersion + 1 : ParentPow[k][d] = a

\* castle_version_is_ancestor(c, v): v's o_order within [c.o_order, c.r_order]
CastleIsAncestor(c, v) == oOrder[c] <= oOrder[v] /\ oOrder[v] <= rOrder[c]

Numbered(v) == oOrder[v] # INVAL_VERSION /\ rOrder[v] # INVAL_VERSION

\* The sibling list of p, walked from first_child along next_sybling
SibWalk(p) ==
  LET W[k \in 0 .. MaxVersion] ==
        IF k = 0 THEN firstChild[p]
        ELSE IF W[k - 1] = NULL THEN NULL ELSE nextSib[W[k - 1]]
  IN W

(* Whenever a reader can take the hash lock, castle_version_is_ancestor    *)
(* answers exactly the ancestor relation of the parent links, for every    *)
(* pair of numbered inited versions: the DFS of castle_versions_process   *)
(* numbered the tree that new/delete/restore left behind.                  *)
AncestorCorrect ==
  pc = "idle" =>
    \A a, d \in inited :
      Numbered(a) /\ Numbered(d) =>
        (CastleIsAncestor(a, d) <=> IsAncestorOf(a, d))

(* Whenever the registry is idle, each version's sibling list, as left by  *)
(* castle_versions_insert and castle_versions_drop, ends within MaxVersion *)
(* links, is strictly descending by id, and holds exactly the inited       *)
(* versions whose parent it is.                                            *)
SiblingListsWellFormed ==
  pc = "idle" =>
    \A p \in hash :
      LET W == SibWalk(p) IN
      /\ W[MaxVersion] = NULL
      /\ \A k \in 0 .. MaxVersion - 1 : W[k + 1] # NULL => W[k] > W[k + 1]
      /\ {W[k] : k \in 0 .. MaxVersion} \ {NULL}
           = {c \in inited \ {0} : parent[c] = p}

(* A snapshot is the oldest child of its parent: process() inits a         *)
(* snapshot only when its parent has no child, and every later sibling     *)
(* gets a larger id from castle_version_new_create.                        *)
SnapshotOldest ==
  \A s \in snap \cap inited :
    \A c \in inited \ {s} : parent[c] = parent[s] => c > s

(* Every version castle_version_new accepted and writeback stored can be   *)
(* restored: the store never holds more versions than castle_version_add  *)
(* accepts in one castle_versions_read, so restore never fails on the cap. *)
RestoreFitsCap == Cardinality(StoredIds \cup {0}) <= VersionCap

(* Once crashes stop, every process() or tree-delete loop started under    *)
(* the hash lock ends: the registry becomes idle again (or the kernel      *)
(* stopped in a BUG).                                                      *)
LoopsTerminate ==
  <>[][~Restart]_vars =>
    (pc \in {"process", "insert", "dfs", "delete"} ~> pc \in {"idle", "bug"})

(* Spec V2: every inited version has both o and r assigned whenever a      *)
(* reader can call castle_version_is_ancestor (it BUG_ONs otherwise).      *)
OrdersAssigned == pc = "idle" => \A v \in inited : Numbered(v)

(* Spec 4.1: deleting a subtree that holds an attached version fails with  *)
(* "attached"; castle_version_delete must never hit its BUG_ON.            *)
DeleteRejectsAttached == bug # "attached"

(* Spec 4.1: castle_version_new allocates a fresh monotonic id, one never  *)
(* handed out before.                                                      *)
NewIdFresh ==
  [][\A b \in BOOLEAN, p \in Ids : VersionNew(b, p) => last' \notin issued]_vars

=============================================================================
