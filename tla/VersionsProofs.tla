--------------------------- MODULE VersionsProofs ---------------------------
(***************************************************************************)
(* Proofs about the version registry model (Versions.tla).                 *)
(***************************************************************************)
EXTENDS Versions, FiniteSets, FiniteSetTheorems, SequenceTheorems, TLAPS

(* The inductive strengthening of TypeOK.  Besides the types it records:   *)
(*  - version 0 is never removed: it stays in the hash, inited, parentless *)
(*    (so castle_versions_drop never frees it and process() never drops   *)
(*    it as a failed new version);                                         *)
(*  - the hash holds at most version_cnt versions, since every member went *)
(*    through castle_version_add's counter;                                *)
(*  - the metadata store, plus the root, holds at most VersionCap + 1      *)
(*    versions, so castle_versions_read never trips the cap on restore;   *)
(*  - the insert and tree-delete loops always hold a version in cur.       *)
IInv ==
  /\ TypeOK
  /\ 0 \in hash /\ 0 \in inited /\ parent[0] = NULL
  /\ Cardinality(hash) <= cnt
  /\ Cardinality(hash) <= VersionCap
  /\ RestoreFitsCap
  /\ pc \in {"insert", "delete"} => cur # NULL

-----------------------------------------------------------------------------
(* Lemmas on the helpers of the model                                      *)

\* Every set of version ids is finite.
LEMMA IdsFinite == \A S \in SUBSET Ids : IsFiniteSet(S)
<1> SUFFICES ASSUME NEW S \in SUBSET Ids PROVE IsFiniteSet(S)
    OBVIOUS
<1>1. IsFiniteSet(Ids)
  BY FS_Interval, VersionsAssumption DEF Ids
<1> QED BY <1>1, FS_Subset

\* list_del keeps the init list a list of the same kind of elements.
LEMMA ListDelType ==
  ASSUME NEW S, NEW s \in Seq(S), NEW x
  PROVE  ListDel(s, x) \in Seq(S)
<1>1. CASE \E i \in 1 .. Len(s) : s[i] = x
  <2> DEFINE i == CHOOSE i \in 1 .. Len(s) : s[i] = x
  <2>1. i \in 1 .. Len(s) BY <1>1
  <2>2. \A j \in 1 .. Len(s) : s[j] \in S BY ElementOfSeq
  <2>3. SubSeq(s, 1, i - 1) \in Seq(S)
    <3>1. \A j \in 1 .. i - 1 : s[j] \in S BY <2>1, <2>2
    <3> QED BY <2>1, <3>1, SubSeqProperties
  <2>4. SubSeq(s, i + 1, Len(s)) \in Seq(S)
    <3>1. \A j \in i + 1 .. Len(s) : s[j] \in S BY <2>1, <2>2
    <3> QED BY <2>1, <3>1, SubSeqProperties
  <2> QED BY <1>1, <2>3, <2>4, ConcatProperties DEF ListDel
<1>2. CASE ~\E i \in 1 .. Len(s) : s[i] = x
  BY <1>2 DEF ListDel
<1> QED BY <1>1, <1>2

\* Every order restore can give the init list is a list of the ids read.
LEMMA OrdersType ==
  ASSUME NEW S, NEW T, S \subseteq T, IsFiniteSet(S)
  PROVE  Orders(S) \subseteq Seq(T)
<1>1. Cardinality(S) \in Nat BY FS_CardinalityType
<1> QED BY <1>1 DEF Orders

-----------------------------------------------------------------------------
(* The initial state                                                       *)

LEMMA InitIInv == Init => IInv
<1> SUFFICES ASSUME Init PROVE IInv OBVIOUS
<1>1. TypeOK
  BY VersionsAssumption DEF Init, ZeroInitState, TypeOK, Ids, Ptr, Links,
                            BugReasons, NULL, INVAL_VERSION
<1>2. StoredIds \cup {0} = {0} BY DEF Init, StoredIds, RestoreFitsCap, NULL
<1>3. Cardinality({0}) = 1 BY FS_Singleton
<1>4. RestoreFitsCap /\ Cardinality(hash) <= VersionCap
  <2>1. RestoreFitsCap BY <1>2, <1>3, VersionsAssumption DEF RestoreFitsCap
  <2>2. hash = {0} BY DEF Init, ZeroInitState
  <2>3. Cardinality(hash) = 1 BY <1>3, <2>2
  <2> QED BY <2>1, <2>3, VersionsAssumption
<1>5. 0 \in Ids BY VersionsAssumption DEF Ids
<1>6. /\ 0 \in hash /\ 0 \in inited /\ parent[0] = NULL
      /\ Cardinality(hash) <= cnt
      /\ pc \in {"insert", "delete"} => cur # NULL
  BY <1>3, <1>5 DEF Init, ZeroInitState
<1> QED BY <1>1, <1>4, <1>6 DEF IInv

-----------------------------------------------------------------------------
(* One lemma per operation: each step preserves IInv.                      *)

\* castle_version_new_create: a new id, added unless the cap is reached.
LEMMA VersionNewIInv ==
  ASSUME IInv, NEW isSnap \in BOOLEAN, NEW p \in Ids, VersionNew(isSnap, p)
  PROVE  IInv'
<1> DEFINE version == last + 1
<1>1. version \in Ids /\ version # 0
  BY VersionsAssumption DEF VersionNew, IInv, TypeOK, Ids
<1>2. IsFiniteSet(hash) BY IdsFinite DEF IInv, TypeOK
<1>3. CASE CapReached(cnt)
  <2>0. /\ UNCHANGED <<hash, parent, firstChild, nextSib, oOrder, rOrder,
                    inited, attached, snap, initList, pc, caller, newV, cur>>
        /\ UNCHANGED <<pprev, dfsId, childrenFirst, delTarget, stored, bug>>
        /\ last' = version /\ issued' = issued \cup {version}
        /\ cnt' = IF cnt <= VersionCap THEN cnt + 1 ELSE cnt
    BY <1>3 DEF VersionNew, CapReached
  <2>1. TypeOK'
    BY <1>1, <2>0, VersionsAssumption DEF IInv, TypeOK
  <2>2. StoredIds' = StoredIds BY <2>0 DEF StoredIds, RestoreFitsCap
  <2>3. Cardinality(hash') <= cnt'
    <3>1. Cardinality(hash) \in Nat BY <1>2, FS_CardinalityType
    <3> QED BY <2>0, <3>1 DEF IInv, TypeOK
  <2> QED BY <2>0, <2>1, <2>2, <2>3 DEF IInv, RestoreFitsCap
<1>4. CASE ~CapReached(cnt)
  <2>0. /\ hash' = hash \cup {version}
        /\ parent' = [parent EXCEPT ![version] = p]
        /\ firstChild' = [firstChild EXCEPT ![version] = NULL]
        /\ nextSib' = [nextSib EXCEPT ![version] = NULL]
        /\ oOrder' = [oOrder EXCEPT ![version] = INVAL_VERSION]
        /\ rOrder' = [rOrder EXCEPT ![version] = INVAL_VERSION]
        /\ inited' = inited \ {version}
        /\ attached' = attached \ {version}
        /\ snap' \subseteq snap \cup {version}
        /\ initList' = <<version>> \o initList
        /\ pc' = "process" /\ caller' = "new" /\ newV' = version
        /\ cur' = NULL /\ last' = version /\ cnt' = cnt + 1
        /\ issued' = issued \cup {version}
        /\ UNCHANGED <<pprev, dfsId, childrenFirst, delTarget, stored, bug>>
    BY <1>4, VersionsAssumption DEF VersionNew, Fresh, IInv, TypeOK, CapReached
  <2>1. initList' \in Seq(Ids)
    BY <1>1, <2>0 DEF IInv, TypeOK
  <2>2. TypeOK'
    BY <1>1, <1>4, <2>0, <2>1, VersionsAssumption
    DEF IInv, TypeOK, Ptr, NULL, INVAL_VERSION, CapReached
  <2>3. Cardinality(hash') <= cnt' /\ Cardinality(hash') <= VersionCap
    <3>1. Cardinality(hash) \in Nat BY <1>2, FS_CardinalityType
    <3>2. Cardinality(hash \cup {version}) =
            IF version \in hash THEN Cardinality(hash) ELSE Cardinality(hash) + 1
      BY <1>2, FS_AddElement
    <3>3. Cardinality(hash \cup {version}) <= Cardinality(hash) + 1
      BY <3>1, <3>2
    <3>4. hash' = hash \cup {version} /\ cnt' = cnt + 1 BY <2>0
    <3>5. Cardinality(hash) <= cnt BY DEF IInv
    <3>6. cnt \in Nat BY DEF IInv, TypeOK
    <3>7. Cardinality(hash') = Cardinality(hash \cup {version}) BY <3>4, Zenon
    <3>8. Cardinality(hash \cup {version}) \in Nat
      BY <1>2, FS_AddElement, FS_CardinalityType
    <3>9. cnt + 1 <= VersionCap BY <1>4, <3>6, VersionsAssumption DEF CapReached
    <3> QED BY <3>1, <3>3, <3>4, <3>5, <3>6, <3>7, <3>8, <3>9,
               VersionsAssumption
  <2>4. StoredIds' = StoredIds BY <2>0 DEF StoredIds, RestoreFitsCap
  <2>5. /\ 0 \in hash' /\ 0 \in inited' /\ parent'[0] = NULL
    BY <1>1, <2>0 DEF IInv, TypeOK
  <2> QED BY <2>0, <2>2, <2>3, <2>4, <2>5 DEF IInv, RestoreFitsCap
<1> QED BY <1>3, <1>4

\* One pass of the init-list loop on v keeps the loop state well typed.
LEMMA ProcessVersionType ==
  ASSUME IInv, NEW v \in Ids, NEW rest \in Seq(Ids), ProcessVersion(v, rest),
         pc = "process"
  PROVE  /\ initList' \in Seq(Ids)
         /\ cur' \in Ptr
         /\ pprev' \in Links
         /\ pc' \in {"process", "insert"}
         /\ pc' = "insert" => cur' # NULL
<1> DEFINE p == parent[v]
<1>1. p \in Ptr BY DEF IInv, TypeOK
<1>2. CASE /\ SnapRejected(v) \/ CloneRejected(v)
           /\ initList' = rest /\ cur' = NULL
           /\ UNCHANGED <<pc, pprev>>
  BY <1>2 DEF IInv, TypeOK, Ptr
<1>3. CASE /\ ~SnapRejected(v) /\ ~CloneRejected(v)
           /\ p \notin inited
           /\ initList' = <<v>> \o ListDel(rest, p)
           /\ cur' = p
           /\ UNCHANGED <<pc, pprev>>
  <2>1. ListDel(rest, p) \in Seq(Ids) BY ListDelType
  <2> QED BY <1>1, <1>3, <2>1 DEF IInv, TypeOK
<1>4. CASE /\ ~SnapRejected(v) /\ ~CloneRejected(v)
           /\ p \in inited
           /\ initList' = rest
           /\ cur' = v
           /\ pprev' = [kind |-> "first", at |-> p]
           /\ pc' = "insert"
  BY <1>4 DEF IInv, TypeOK, Ptr, Links, NULL, Ids
<1> QED BY <1>2, <1>3, <1>4 DEF ProcessVersion

\* castle_versions_process(), init-list loop
LEMMA ProcessInitListIInv ==
  ASSUME IInv, ProcessInitList PROVE IInv'
<1>1. CASE cur = NULL /\ initList = << >>
  <2>1. /\ pc' = "dfs" /\ cur' = 0 /\ dfsId' = 0 /\ childrenFirst' = TRUE
        /\ UNCHANGED <<initList, pprev>>
    BY <1>1 DEF ProcessInitList
  <2>2. 0 \in Ptr BY VersionsAssumption DEF Ptr, Ids
  <2> QED BY <2>1, <2>2 DEF ProcessInitList, IInv, TypeOK, StoredIds, RestoreFitsCap
<1>2. CASE cur = NULL /\ initList # << >>
  <2>1. Head(initList) \in Ids /\ Tail(initList) \in Seq(Ids)
    BY <1>2, HeadTailProperties DEF IInv, TypeOK
  <2>2. ProcessVersion(Head(initList), Tail(initList))
    BY <1>2 DEF ProcessInitList
  <2>3. /\ initList' \in Seq(Ids) /\ cur' \in Ptr /\ pprev' \in Links
        /\ pc' \in {"process", "insert"} /\ (pc' = "insert" => cur' # NULL)
    BY <2>1, <2>2, ProcessVersionType DEF ProcessInitList
  <2> QED BY <2>3 DEF ProcessInitList, IInv, TypeOK, StoredIds, RestoreFitsCap
<1>3. CASE cur # NULL
  <2>1. cur \in Ids BY <1>3 DEF IInv, TypeOK, Ptr
  <2>2. ProcessVersion(cur, initList) BY <1>3 DEF ProcessInitList
  <2>3. /\ initList' \in Seq(Ids) /\ cur' \in Ptr /\ pprev' \in Links
        /\ pc' \in {"process", "insert"} /\ (pc' = "insert" => cur' # NULL)
    BY <2>1, <2>2, ProcessVersionType DEF ProcessInitList, IInv, TypeOK
  <2> QED BY <2>3 DEF ProcessInitList, IInv, TypeOK, StoredIds, RestoreFitsCap
<1> QED BY <1>1, <1>2, <1>3

\* castle_versions_insert: walk the sibling list, then link cur in
LEMMA ProcessInsertIInv ==
  ASSUME IInv, ProcessInsert PROVE IInv'
<1> DEFINE s == Deref(pprev)
<1>1. cur \in Ids /\ s \in Ptr
  BY DEF ProcessInsert, IInv, TypeOK, Ptr, Links, Deref
<1>2. CASE s # NULL /\ s > cur
  <2>1. pprev' = [kind |-> "next", at |-> s] BY <1>2 DEF ProcessInsert
  <2>2. pprev' \in Links BY <1>1, <1>2, <2>1 DEF Links, Ptr
  <2> QED BY <1>2, <2>2 DEF ProcessInsert, IInv, TypeOK, StoredIds, RestoreFitsCap
<1>3. CASE ~(s # NULL /\ s > cur)
  <2>1. nextSib' \in [Ids -> Ptr]
    BY <1>1, <1>3 DEF ProcessInsert, IInv, TypeOK, Ptr
  <2>2. firstChild' \in [Ids -> Ptr]
    BY <1>1, <1>3 DEF ProcessInsert, IInv, TypeOK, Ptr, Links
  <2>3. inited' = inited \cup {cur} /\ pc' = "process" /\ cur' = NULL
    BY <1>3 DEF ProcessInsert
  <2> QED BY <1>1, <2>1, <2>2, <2>3 DEF ProcessInsert, IInv, TypeOK, StoredIds, RestoreFitsCap
<1> QED BY <1>2, <1>3

\* One iteration of the DFS numbering
LEMMA ProcessDfsIInv ==
  ASSUME IInv, ProcessDfs PROVE IInv'
<1>1. cur \in Ids BY DEF ProcessDfs, IInv, TypeOK, Ptr
<1>2. dfsId' \in Nat /\ oOrder' \in [Ids -> Nat \cup {INVAL_VERSION}]
      /\ rOrder' \in [Ids -> Nat \cup {INVAL_VERSION}]
  BY <1>1 DEF ProcessDfs, IInv, TypeOK
<1>3. cur' \in Ptr /\ childrenFirst' \in BOOLEAN
  BY <1>1 DEF ProcessDfs, IInv, TypeOK
<1> QED BY <1>2, <1>3 DEF ProcessDfs, IInv, TypeOK, StoredIds, RestoreFitsCap

\* process() returns; a failed new version is freed
LEMMA ProcessDoneIInv ==
  ASSUME IInv, ProcessDone PROVE IInv'
<1>1. IsFiniteSet(hash) BY IdsFinite DEF IInv, TypeOK
<1>2. Cardinality(hash) \in Nat BY <1>1, FS_CardinalityType
<1>3. hash' \subseteq hash BY DEF ProcessDone
<1>4. Cardinality(hash') \in Nat /\ Cardinality(hash') <= Cardinality(hash)
  BY <1>1, <1>3, FS_Subset, FS_CardinalityType
<1>5. 0 \in hash' BY DEF ProcessDone, IInv
<1>6. Cardinality(hash) <= cnt /\ cnt \in Nat /\ Cardinality(hash) <= VersionCap
  BY DEF IInv, TypeOK
<1>7. TypeOK' BY <1>3 DEF ProcessDone, IInv, TypeOK
<1>8. RestoreFitsCap' BY DEF ProcessDone, IInv, RestoreFitsCap, StoredIds
<1>9. Cardinality(hash') <= cnt' /\ Cardinality(hash') <= VersionCap
  <2>1. cnt' = cnt BY DEF ProcessDone
  <2> DEFINE h2 == Cardinality(hash')  h1 == Cardinality(hash)
  <2>2. h2 \in Nat /\ h1 \in Nat /\ h2 <= h1 /\ h1 <= cnt /\ h1 <= VersionCap
        /\ cnt \in Nat /\ VersionCap \in Nat
    BY <1>2, <1>4, <1>6, VersionsAssumption
  <2> HIDE DEF h1, h2
  <2>3. h2 <= cnt /\ h2 <= VersionCap BY <2>2
  <2> QED BY <2>1, <2>3, Zenon DEF h2
<1>10. 0 \in inited' /\ parent'[0] = NULL /\ pc' = "idle" BY DEF ProcessDone, IInv
<1> QED BY <1>5, <1>7, <1>8, <1>9, <1>10 DEF IInv

\* castle_version_tree_delete: entry, with its BUG_ON on an uninited version
LEMMA TreeDeleteIInv ==
  ASSUME IInv, NEW t \in Ids, TreeDelete(t) PROVE IInv'
<1>1. /\ pc' \in {"delete", "bug"} /\ cur' = t /\ delTarget' = t
      /\ (bug' = bug \/ bug' = "uninited")
      /\ UNCHANGED <<hash, parent, firstChild, nextSib, oOrder, rOrder, inited,
                     attached, snap, initList, last, cnt, caller, newV, pprev,
                     dfsId, childrenFirst, stored, issued>>
  BY DEF TreeDelete
<1>2. t \in Ptr /\ t # NULL BY DEF Ptr, NULL, Ids
<1>3. TypeOK' BY <1>1, <1>2 DEF IInv, TypeOK, BugReasons
<1>4. RestoreFitsCap' BY <1>1 DEF IInv, RestoreFitsCap, StoredIds
<1> QED BY <1>1, <1>2, <1>3, <1>4 DEF IInv

\* castle_version_attach and castle_version_detach
LEMMA AttachDetachIInv ==
  ASSUME IInv, NEW v \in Ids, Attach(v) \/ Detach(v) PROVE IInv'
BY DEF Attach, Detach, IInv, TypeOK, StoredIds, RestoreFitsCap

\* castle_versions_writeback: the store becomes the hash
LEMMA WritebackIInv ==
  ASSUME IInv, Writeback PROVE IInv'
<1>1. stored' \in [Ids -> Ptr]
  BY DEF Writeback, IInv, TypeOK, Ptr, NULL, Ids
<1>2. StoredIds' \cup {0} = hash
  <2>1. ASSUME NEW v \in Ids PROVE stored'[v] # NULL <=> v \in hash
    <3>1. parent[v] \in Ptr BY DEF IInv, TypeOK
    <3> QED BY <3>1 DEF Writeback, Ptr, NULL, Ids
  <2>2. StoredIds' = hash BY <2>1 DEF StoredIds, RestoreFitsCap, IInv, TypeOK
  <2> QED BY <2>2 DEF IInv
<1>3. Cardinality(hash) <= VersionCap BY DEF IInv
<1> QED BY <1>1, <1>2, <1>3 DEF Writeback, IInv, TypeOK, RestoreFitsCap

\* One iteration of the tree-delete peel loop
LEMMA TreeDeleteStepIInv ==
  ASSUME IInv, TreeDeleteStep PROVE IInv'
<1> DEFINE p == parent[cur]
<1>1. cur \in Ids BY DEF TreeDeleteStep, IInv, TypeOK, Ptr
<1>2. p \in Ptr BY <1>1 DEF IInv, TypeOK
<1>3. CASE firstChild[cur] # NULL
  <2>1. cur' = firstChild[cur] /\ cur' # NULL /\ cur' \in Ptr
    BY <1>1, <1>3 DEF TreeDeleteStep, IInv, TypeOK
  <2> QED BY <1>3, <2>1 DEF TreeDeleteStep, IInv, TypeOK, StoredIds, RestoreFitsCap
<1>4. CASE firstChild[cur] = NULL /\ cur \in attached
  BY <1>4 DEF TreeDeleteStep, IInv, TypeOK, StoredIds, RestoreFitsCap, BugReasons
<1>5. CASE firstChild[cur] = NULL /\ cur \notin attached /\ p = NULL
  BY <1>5 DEF TreeDeleteStep, IInv, TypeOK, StoredIds, RestoreFitsCap, BugReasons
<1>6. CASE firstChild[cur] = NULL /\ cur \notin attached /\ p # NULL
  <2>1. Drop(cur) /\ hash' = hash \ {cur} /\ inited' = inited \ {cur}
        /\ snap' = snap \ {cur}
        /\ UNCHANGED <<bug, oOrder, rOrder, attached, initList, last, cnt,
                       newV, pprev, dfsId, childrenFirst, delTarget, stored,
                       issued>>
    BY <1>6 DEF TreeDeleteStep
  <2>2. p \in Ids BY <1>2, <1>6 DEF Ptr
  <2>3. cur # 0 BY <1>6 DEF IInv
  <2>4. /\ firstChild' \in [Ids -> Ptr] /\ nextSib' \in [Ids -> Ptr]
        /\ parent' \in [Ids -> Ptr] /\ parent'[0] = NULL
    BY <1>1, <2>1, <2>2, <2>3 DEF Drop, IInv, TypeOK, Ptr, NULL
  <2>5. Cardinality(hash') <= cnt /\ Cardinality(hash') <= VersionCap
    <3>1. IsFiniteSet(hash) BY IdsFinite DEF IInv, TypeOK
    <3>2. Cardinality(hash') \in Nat /\ Cardinality(hash') <= Cardinality(hash)
      BY <2>1, <3>1, FS_Subset, FS_CardinalityType
    <3>3. Cardinality(hash) \in Nat BY <3>1, FS_CardinalityType
    <3> QED BY <3>2, <3>3, VersionsAssumption DEF IInv, TypeOK
  <2>0. IF cur = delTarget
        THEN pc' = "process" /\ caller' = "delete" /\ cur' = NULL
        ELSE cur' = p /\ UNCHANGED <<pc, caller>>
    BY <1>6 DEF TreeDeleteStep
  <2>6. pc' \in {"insert", "delete"} => cur' # NULL
    BY <2>0, <2>2, <1>6 DEF IInv, NULL, Ids
  <2>7. cur' \in Ptr /\ pc' \in {"delete", "process"} /\ caller' \in {"new", "delete", "read"}
    BY <2>0, <2>2 DEF IInv, TypeOK, Ptr, TreeDeleteStep
  <2>8. StoredIds' = StoredIds BY <1>6 DEF TreeDeleteStep, StoredIds, RestoreFitsCap
  <2>9. TypeOK' BY <2>1, <2>4, <2>7 DEF IInv, TypeOK
  <2>10. 0 \in hash' /\ 0 \in inited' BY <2>1, <2>3 DEF IInv
  <2> QED BY <2>1, <2>4, <2>5, <2>6, <2>8, <2>9, <2>10 DEF IInv, RestoreFitsCap
<1> QED BY <1>3, <1>4, <1>5, <1>6 DEF TreeDeleteStep

\* A crash or reboot followed by castle_versions_read (or zero_init)
LEMMA RestartIInv ==
  ASSUME IInv, Restart PROVE IInv'
<1> DEFINE ids == StoredIds \cup {0}
<1>1. ids \subseteq Ids /\ 0 \in ids BY VersionsAssumption DEF StoredIds, RestoreFitsCap, Ids
<1>2. IsFiniteSet(ids) /\ IsFiniteSet(ids \ {0}) BY <1>1, IdsFinite
<1>3. Cardinality(ids) \in Nat BY <1>2, FS_CardinalityType
<1>4. cnt' = Cardinality(ids) /\ cnt' \in 0 .. VersionCap
  <2>1. cnt' = Cardinality(ids) BY DEF Restart, ReadCnt
  <2>2. Cardinality(ids) <= VersionCap BY DEF IInv, RestoreFitsCap
  <2> QED BY <1>3, <2>1, <2>2, VersionsAssumption
<1>5. initList' \in Seq(Ids)
  <2>1. Orders(ids \ {0}) \subseteq Seq(Ids) BY <1>1, <1>2, OrdersType
  <2> QED BY <2>1 DEF Restart
<1>6. last' \in Ids BY <1>1 DEF Restart
<1>7. parent' \in [Ids -> Ptr] /\ parent'[0] = NULL
  BY VersionsAssumption DEF Restart, IInv, TypeOK, Ptr, Ids
<1>8. /\ hash' = ids /\ inited' = {0} /\ stored' = stored
      /\ pc' \in {"idle", "process"} /\ cur' = NULL /\ bug' = "none"
  BY DEF Restart
<1>9. StoredIds' = StoredIds BY DEF Restart, StoredIds, RestoreFitsCap
<1>10. Cardinality(hash') <= cnt' /\ Cardinality(hash') <= VersionCap
  BY <1>4, <1>8
<1>11. TypeOK'
  BY <1>1, <1>4, <1>5, <1>6, <1>7, <1>8, VersionsAssumption
  DEF Restart, IInv, TypeOK, Ptr, BugReasons, INVAL_VERSION, NULL
<1> QED BY <1>1, <1>7, <1>8, <1>9, <1>10, <1>11 DEF IInv, RestoreFitsCap

-----------------------------------------------------------------------------
(* The invariance theorems                                                 *)

\* Every step of the registry, or a stutter, preserves IInv.
LEMMA NextIInv == IInv /\ [Next]_vars => IInv'
<1> SUFFICES ASSUME IInv, [Next]_vars PROVE IInv' OBVIOUS
<1>1. CASE \E isSnap \in BOOLEAN, p \in Ids : VersionNew(isSnap, p)
  BY <1>1, VersionNewIInv
<1>2. CASE ProcessInitList BY <1>2, ProcessInitListIInv
<1>3. CASE ProcessInsert BY <1>3, ProcessInsertIInv
<1>4. CASE ProcessDfs BY <1>4, ProcessDfsIInv
<1>5. CASE ProcessDone BY <1>5, ProcessDoneIInv
<1>6. CASE \E t \in Ids : TreeDelete(t) BY <1>6, TreeDeleteIInv
<1>7. CASE TreeDeleteStep BY <1>7, TreeDeleteStepIInv
<1>8. CASE \E v \in Ids : Attach(v) \/ Detach(v) BY <1>8, AttachDetachIInv
<1>9. CASE Writeback BY <1>9, WritebackIInv
<1>10. CASE Restart BY <1>10, RestartIInv
<1>11. CASE UNCHANGED vars BY <1>11 DEF vars, IInv, TypeOK, StoredIds, RestoreFitsCap
<1> QED BY <1>1, <1>2, <1>3, <1>4, <1>5, <1>6, <1>7, <1>8, <1>9, <1>10,
           <1>11 DEF Next

(* The registry model is well typed in every reachable state, for every    *)
(* MaxVersion and VersionCap: in particular version_cnt never passes the   *)
(* cap by more than the one failed castle_version_add, and restore from   *)
(* the metadata store (castle_versions_read) never reads more versions    *)
(* than castle_version_add accepts.                                        *)
THEOREM TypeCorrect == Spec => []TypeOK
<1>1. Init => IInv BY InitIInv
<1>2. IInv /\ [Next]_vars => IInv' BY NextIInv
<1>3. IInv => TypeOK BY DEF IInv
<1> QED BY <1>1, <1>2, <1>3, PTL DEF Spec

(* Restore never trips the cap of castle_version_add, for every cap and    *)
(* every MaxVersion: whatever castle_versions_writeback put in the store   *)
(* was in the hash, and the hash never holds more versions than            *)
(* castle_version_add accepted since the last restore.                     *)
THEOREM RestoreWithinCap == Spec => []RestoreFitsCap
<1>1. Init => IInv BY InitIInv
<1>2. IInv /\ [Next]_vars => IInv' BY NextIInv
<1>3. IInv => RestoreFitsCap BY DEF IInv
<1> QED BY <1>1, <1>2, <1>3, PTL DEF Spec

=============================================================================
