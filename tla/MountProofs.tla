---------------------------- MODULE MountProofs -----------------------------
(***************************************************************************)
(* Proofs about the model of castle_main.c (Mount.tla): the reference      *)
(* accounting of slaves and mirrors holds for every set of devices and    *)
(* every bound.                                                            *)
(***************************************************************************)
EXTENDS Mount, FiniteSetTheorems, SequenceTheorems, TLAPS

USE MountAssumption

\* The positions of a slave list whose slave is built on device d.
On(s, d) == {i \in DOMAIN s : s[i].dev = d}

\* The mirrors of a device set built on device d.
MirrorSet(D, d) == {x \in D : x.dev = d}

-----------------------------------------------------------------------------
(* Lemmas on the operators of the model                                   *)

\* list_del of the k-th slave leaves the others in order, one place up
\* from k on.
LEMMA UnlinkProperties ==
  ASSUME NEW S, NEW s \in Seq(S), NEW k \in 1 .. Len(s)
  PROVE  /\ Unlink(s, k) \in Seq(S)
         /\ Len(Unlink(s, k)) = Len(s) - 1
         /\ \A j \in 1 .. Len(s) - 1 :
               Unlink(s, k)[j] = IF j < k THEN s[j] ELSE s[j + 1]
<1> DEFINE L == SubSeq(s, 1, k - 1)
           R == SubSeq(s, k + 1, Len(s))
<1> HIDE DEF L, R
<1>1. \A j \in 1 .. Len(s) : s[j] \in S BY LenProperties
<1>2. /\ L \in Seq(S) /\ Len(L) = k - 1
      /\ \A i \in 1 .. k - 1 : L[i] = s[i]
  BY <1>1, SubSeqProperties DEF L
<1>3. /\ R \in Seq(S) /\ Len(R) = Len(s) - k
      /\ \A i \in 1 .. Len(s) - k : R[i] = s[k + i]
  BY <1>1, SubSeqProperties DEF R
<1>4. /\ L \o R \in Seq(S) /\ Len(L \o R) = Len(L) + Len(R)
      /\ \A j \in 1 .. Len(L) + Len(R) :
            (L \o R)[j] = IF j <= Len(L) THEN L[j] ELSE R[j - Len(L)]
  BY <1>2, <1>3, ConcatProperties, Zenon
<1>7. Len(L \o R) = Len(L) + Len(R) BY <1>4, Zenon
<1>8. Len(L) = k - 1 /\ Len(R) = Len(s) - k BY <1>2, <1>3, Zenon
<1>5. Len(L \o R) = Len(s) - 1 BY <1>7, <1>8
<1>6. \A j \in 1 .. Len(s) - 1 :
         (L \o R)[j] = IF j < k THEN s[j] ELSE s[j + 1]
  <2> TAKE j \in 1 .. Len(s) - 1
  <2>1. j \in 1 .. Len(L) + Len(R) BY <1>8
  <2>2. (L \o R)[j] = IF j <= Len(L) THEN L[j] ELSE R[j - Len(L)]
    BY <1>4, <2>1, Zenon
  <2>3. CASE j < k
    <3>1. L[j] = s[j] BY <1>2, <2>3
    <3> QED BY <1>8, <2>2, <2>3, <3>1
  <2>4. CASE j >= k
    <3>1. R[j - (k - 1)] = s[j + 1] BY <1>3, <2>4
    <3> QED BY <1>8, <2>2, <2>4, <3>1
  <2>5. j < k \/ j >= k OBVIOUS
  <2> QED BY <2>3, <2>4, <2>5
<1> QED BY <1>4, <1>5, <1>6 DEF Unlink, L, R

\* The positions of a list are finitely many.
LEMMA OnFinite ==
  ASSUME NEW S, NEW s \in Seq(S), NEW d
  PROVE  IsFiniteSet(On(s, d)) /\ On(s, d) \subseteq 1 .. Len(s)
<1>1. On(s, d) \subseteq 1 .. Len(s) BY LenProperties DEF On
<1> QED BY <1>1, FS_Interval, FS_Subset

\* castle_claim puts the new slave at the head of the list: the count of
\* slaves on d grows by one exactly when the new slave is on d.
LEMMA OnCons ==
  ASSUME NEW s \in Seq(Slave), NEW r \in Slave, NEW d
  PROVE  Cardinality(On(<<r>> \o s, d))
           = Cardinality(On(s, d)) + (IF r.dev = d THEN 1 ELSE 0)
<1> DEFINE t == <<r>> \o s
           A == On(s, d)
           B == On(t, d) \ {1}
           f == [j \in A |-> j + 1]
<1>1. t \in Seq(Slave) /\ Len(t) = Len(s) + 1
      /\ t[1] = r /\ \A j \in 1 .. Len(s) : t[j + 1] = s[j]
  BY ConcatProperties
<1>2. IsFiniteSet(A) /\ A \subseteq 1 .. Len(s) BY OnFinite
<1>3. f \in Bijection(A, B)
  BY <1>1, <1>2 DEF On, Bijection, Injection, Surjection, IsInjective
<1>4. IsFiniteSet(B) /\ Cardinality(B) = Cardinality(A)
  BY <1>2, <1>3, FS_Bijection DEF ExistsBijection
<1>8. Cardinality(A) \in Nat BY <1>2, FS_CardinalityType
<1>5. CASE r.dev = d
  <2>1. On(t, d) = B \cup {1} BY <1>1, <1>5 DEF On
  <2>2. 1 \notin B OBVIOUS
  <2>3. Cardinality(On(t, d)) = Cardinality(A) + 1
    BY <1>4, <2>1, <2>2, FS_AddElement
  <2> QED BY <1>5, <1>8, <2>3
<1>6. CASE r.dev # d
  <2>1. On(t, d) = B BY <1>1, <1>6 DEF On
  <2>2. Cardinality(On(t, d)) = Cardinality(A) BY <1>4, <2>1
  <2> QED BY <1>6, <1>8, <2>2
<1> QED BY <1>5, <1>6

\* castle_release unlinks the k-th slave: the count of slaves on d drops
\* by one exactly when that slave is on d.
LEMMA OnUnlink ==
  ASSUME NEW s \in Seq(Slave), NEW k \in 1 .. Len(s), NEW d
  PROVE  Cardinality(On(Unlink(s, k), d))
           = Cardinality(On(s, d)) - (IF s[k].dev = d THEN 1 ELSE 0)
<1> DEFINE t == Unlink(s, k)
           A == On(s, d) \ {k}
           B == On(t, d)
           g == [j \in B |-> IF j < k THEN j ELSE j + 1]
<1>1. t \in Seq(Slave) /\ Len(t) = Len(s) - 1
      /\ \A j \in 1 .. Len(s) - 1 : t[j] = IF j < k THEN s[j] ELSE s[j + 1]
  BY UnlinkProperties
<1>2. IsFiniteSet(On(s, d)) /\ On(s, d) \subseteq 1 .. Len(s) BY OnFinite
<1>3. IsFiniteSet(B) /\ B \subseteq 1 .. Len(s) - 1 BY <1>1, OnFinite
<1>4. g \in Bijection(B, A)
  <2>1. g \in [B -> A] BY <1>1, <1>3 DEF On
  <2>2. IsInjective(g) BY <1>3 DEF IsInjective
  <2>3. \A i \in A : \E j \in B : g[j] = i
    <3> TAKE i \in A
    <3>1. CASE i < k
      <4>1. i \in B BY <1>1, <1>2, <3>1 DEF On
      <4> QED BY <4>1, <3>1
    <3>2. CASE i > k
      <4>1. i - 1 \in B BY <1>1, <1>2, <3>2 DEF On
      <4> QED BY <4>1, <3>2, <1>2
    <3> QED BY <3>1, <3>2, <1>2
  <2> QED BY <2>1, <2>2, <2>3 DEF Bijection, Injection, Surjection
<1>5. Cardinality(A) = Cardinality(B)
  BY <1>3, <1>4, FS_Bijection DEF ExistsBijection
<1>8. Cardinality(On(s, d)) \in Nat BY <1>2, FS_CardinalityType
<1>6. CASE s[k].dev = d
  <2>1. k \in On(s, d) BY <1>6 DEF On
  <2> QED BY <1>2, <1>5, <1>6, <2>1, FS_RemoveElement
<1>7. CASE s[k].dev # d
  <2>1. A = On(s, d) BY <1>7 DEF On
  <2>2. Cardinality(B) = Cardinality(On(s, d)) BY <1>5, <2>1
  <2> QED BY <1>7, <1>8, <2>2
<1> QED BY <1>6, <1>7

\* The mirrors on device d are finitely many; freeing one of them, or
\* adding one, changes their count by at most one.
LEMMA MirrorSetFinite ==
  ASSUME NEW D, IsFiniteSet(D), NEW d
  PROVE  IsFiniteSet(MirrorSet(D, d)) /\ Cardinality(MirrorSet(D, d)) \in Nat
BY FS_Subset, FS_CardinalityType DEF MirrorSet

LEMMA MirrorSetRemove ==
  ASSUME NEW D, IsFiniteSet(D), NEW x \in D, NEW d
  PROVE  Cardinality(MirrorSet(D \ {x}, d))
           = Cardinality(MirrorSet(D, d)) - (IF x.dev = d THEN 1 ELSE 0)
<1>1. IsFiniteSet(MirrorSet(D, d)) /\ Cardinality(MirrorSet(D, d)) \in Nat
  BY MirrorSetFinite
<1>2. CASE x.dev = d
  <2>1. MirrorSet(D \ {x}, d) = MirrorSet(D, d) \ {x} BY DEF MirrorSet
  <2>2. x \in MirrorSet(D, d) BY <1>2 DEF MirrorSet
  <2> QED BY <1>1, <1>2, <2>1, <2>2, FS_RemoveElement
<1>3. CASE x.dev # d
  <2>1. MirrorSet(D \ {x}, d) = MirrorSet(D, d) BY <1>3 DEF MirrorSet
  <2> QED BY <1>1, <1>3, <2>1
<1> QED BY <1>2, <1>3

LEMMA MirrorSetAdd ==
  ASSUME NEW D, IsFiniteSet(D), NEW x, NEW d
  PROVE  Cardinality(MirrorSet(D \cup {x}, d)) <= Cardinality(MirrorSet(D, d)) + 1
<1> DEFINE M == MirrorSet(D, d)
           M2 == MirrorSet(D \cup {x}, d)
<1> SUFFICES Cardinality(M2) <= Cardinality(M) + 1 OBVIOUS
<1>1. IsFiniteSet(M) /\ Cardinality(M) \in Nat BY MirrorSetFinite
<1>2. M2 \subseteq M \cup {x} BY DEF MirrorSet
<1> HIDE DEF M, M2
<1>3. /\ IsFiniteSet(M \cup {x})
      /\ Cardinality(M \cup {x})
           = IF x \in M THEN Cardinality(M) ELSE Cardinality(M) + 1
  BY <1>1, FS_AddElement
<1>4. IsFiniteSet(M2) /\ Cardinality(M2) <= Cardinality(M \cup {x})
  BY <1>2, <1>3, FS_Subset
<1>6. Cardinality(M2) \in Nat /\ Cardinality(M \cup {x}) \in Nat
  BY <1>3, <1>4, FS_CardinalityType
<1>5. Cardinality(M \cup {x}) <= Cardinality(M) + 1
  <2>1. CASE x \in M BY <1>1, <1>3, <2>1
  <2>2. CASE x \notin M BY <1>1, <1>3, <2>2
  <2> QED BY <2>1, <2>2
<1> QED BY <1>1, <1>4, <1>5, <1>6

\* Every nonempty set of list positions has a first one: the loop of
\* castle_fs_init meets some valid slave before all others.
LEMMA MinExists ==
  ASSUME NEW T \in SUBSET Nat, T # {}
  PROVE  \E i \in T : \A j \in T : i <= j
<1> DEFINE R == OpToRel(<, Nat)
<1>1. \E x \in T : \A y \in T : ~(<<y, x>> \in R)
  BY NatLessThanWellFounded, WFMin
<1> HIDE DEF R
<1>2. PICK x \in T : \A y \in T : ~(<<y, x>> \in R) BY <1>1
<1>3. \A y \in T : y < x => <<y, x>> \in R BY Zenon DEF R, OpToRel
<1>4. \A y \in T : ~(y < x) BY <1>2, <1>3, Zenon
<1>5. \A y \in T : x <= y BY <1>4
<1> QED BY <1>5

LEMMA FirstValidIsValid ==
  ASSUME slaves \in Seq(Slave), NEW ioOk, ValidSlaves(ioOk) # {}
  PROVE  FirstValid(ioOk) \in ValidSlaves(ioOk)
<1>1. ValidSlaves(ioOk) \in SUBSET Nat BY LenProperties DEF ValidSlaves
<1>2. \E i \in ValidSlaves(ioOk) : \A j \in ValidSlaves(ioOk) : i <= j
  BY <1>1, MinExists
<1> QED BY <1>2 DEF FirstValid

-----------------------------------------------------------------------------
(* The inductive invariant                                                 *)

\* The number of slaves and mirrors built on device e, for lists S and D.
Cnt(S, D, e) == Cardinality(On(S, e)) + Cardinality(MirrorSet(D, e))

\* OwnersHoldDevice for counters o, c and lists S, D.
Holds(o, c, S, D) == \A e \in Devs : o[e] >= Cnt(S, D, e) /\ c[e] >= Cnt(S, D, e)

(* OwnersHoldDevice is not inductive alone: a release or a free decrements *)
(* a counter, which stays in Nat only because the type is kept; and the    *)
(* mirrors of the device set are counted, which needs that set finite.     *)
IInv ==
  /\ TypeOK
  /\ IsFiniteSet(devices)
  /\ OwnersHoldDevice

LEMMA HoldsDef ==
  /\ OwnersHoldDevice <=> Holds(opens, claims, slaves, devices)
  /\ OwnersHoldDevice' <=> Holds(opens', claims', slaves', devices')
BY DEF OwnersHoldDevice, Holds, Cnt, Owners, SlavesOn, MirrorsOn, On, MirrorSet

\* The owners' count of a well-typed state is a number.
LEMMA CntNat ==
  ASSUME NEW S \in Seq(Slave), NEW D, IsFiniteSet(D), NEW e
  PROVE  Cnt(S, D, e) \in Nat
BY OnFinite, MirrorSetFinite, FS_CardinalityType DEF Cnt

\* With no slave and no mirror, no device has an owner.
LEMMA CntEmpty == ASSUME NEW e PROVE Cnt(<< >>, {}, e) = 0
<1>1. On(<< >>, e) = {} /\ MirrorSet({}, e) = {} BY DEF On, MirrorSet
<1>2. Cardinality({}) = 0 BY FS_EmptySet
<1>3. Cardinality(On(<< >>, e)) = 0 /\ Cardinality(MirrorSet({}, e)) = 0
  BY <1>1, <1>2, Zenon
<1> QED BY <1>3 DEF Cnt

\* The facts about the current state that every step proof starts from.
LEMMA IInvFacts ==
  ASSUME IInv
  PROVE  /\ slaves \in Seq(Slave) /\ IsFiniteSet(devices)
         /\ devices \subseteq Device
         /\ opens \in [Devs -> Nat] /\ claims \in [Devs -> Nat]
         /\ \A e \in Devs : /\ Cnt(slaves, devices, e) \in Nat
                            /\ opens[e] >= Cnt(slaves, devices, e)
                            /\ claims[e] >= Cnt(slaves, devices, e)
<1>1. slaves \in Seq(Slave) /\ IsFiniteSet(devices) BY DEF IInv, TypeOK
<1>2. Holds(opens, claims, slaves, devices) BY HoldsDef DEF IInv
<1> QED BY <1>1, <1>2, CntNat DEF IInv, TypeOK, Holds

LEMMA InitIInv == Init => IInv
<1> SUFFICES ASSUME Init PROVE IInv OBVIOUS
<1>1. TypeOK
  <2>1. fsInited \in BOOLEAN /\ treeValid \in BOOLEAN BY Zenon DEF Init
  <2>2. slaves \in Seq(Slave) /\ devices \subseteq Device BY DEF Init
  <2> QED BY <2>1, <2>2 DEF Init, TypeOK, NoSuper
<1>2. IsFiniteSet(devices) BY FS_EmptySet DEF Init
<1>3. Holds(opens, claims, slaves, devices) BY CntEmpty DEF Init, Holds
<1>5. OwnersHoldDevice BY <1>3, HoldsDef
<1> QED BY <1>1, <1>2, <1>5 DEF IInv

\* A step that leaves the counters and the lists alone keeps the owners
\* held.
LEMMA HoldsUnchanged ==
  ASSUME OwnersHoldDevice, UNCHANGED <<opens, claims, slaves, devices>>
  PROVE  OwnersHoldDevice'
BY HoldsDef DEF Holds

LEMMA ModuleInitIInv == IInv /\ ModuleInit => IInv'
<1> SUFFICES ASSUME IInv, ModuleInit PROVE IInv' OBVIOUS
<1>1. TypeOK'
  <2>1. fsInited' \in BOOLEAN BY Zenon DEF ModuleInit
  <2>2. up' \subseteq StageSet
    <3>1. CASE up' = StageSet BY <3>1
    <3>2. CASE \E k \in CanFail : up' = {Stages[i] : i \in 1 .. k - 1} \ TornDown(k)
      BY <3>2 DEF TornDown
    <3> QED BY <3>1, <3>2 DEF ModuleInit
  <2>3. loads' \in 0 .. MaxLoads BY DEF IInv, TypeOK, ModuleInit
  <2> QED BY <2>1, <2>2, <2>3 DEF IInv, TypeOK, ModuleInit
<1>2. IsFiniteSet(devices') BY DEF IInv, ModuleInit
<1>3. OwnersHoldDevice' BY HoldsUnchanged DEF IInv, ModuleInit
<1> QED BY <1>1, <1>2, <1>3 DEF IInv

LEMMA OpenCloseIInv ==
  ASSUME IInv, NEW m \in Minors, Open(m) \/ Close(m)
  PROVE  IInv'
<1>1. users' \in [Minors -> 0 .. MaxUsers]
  <2>1. users \in [Minors -> 0 .. MaxUsers] BY DEF IInv, TypeOK
  <2>2. CASE Open(m) BY <2>1, <2>2 DEF Open
  <2>3. CASE Close(m) BY <2>1, <2>3 DEF Close
  <2> QED BY <2>2, <2>3
<1>2. UNCHANGED <<modSt, loads, up, slaves, nextId, devices, nextMinor, opens,
                  claims, fsInited, fsSuper, treeValid>>
  BY DEF Open, Close
<1> QED BY <1>1, <1>2, HoldsUnchanged DEF IInv, TypeOK

LEMMA FsInitIInv == IInv /\ FsInit => IInv'
<1> SUFFICES ASSUME IInv, FsInit PROVE IInv' OBVIOUS
<1>1. fsSuper' \in Supers
  <2>1. PICK ioOk \in [DOMAIN slaves -> BOOLEAN] :
           /\ ValidSlaves(ioOk) # {}
           /\ fsSuper' = fsSb[slaves[FirstValid(ioOk)].dev]
    BY DEF FsInit
  <2>2. FirstValid(ioOk) \in ValidSlaves(ioOk)
    BY <2>1, FirstValidIsValid DEF IInv, TypeOK
  <2> QED BY <2>1, <2>2 DEF ValidSlaves, FsSbValid
<1>2. fsInited' \in BOOLEAN /\ treeValid' \in BOOLEAN
  BY Zenon DEF FsInit, IInv, TypeOK
<1>3. UNCHANGED <<modSt, loads, up, slaves, nextId, devices, nextMinor, users,
                  opens, claims>>
  BY DEF FsInit
<1> QED BY <1>1, <1>2, <1>3, HoldsUnchanged DEF IInv, TypeOK

\* Inc adds one open or claim to one device and keeps the counts natural.
LEMMA IncProps ==
  ASSUME NEW f \in [Devs -> Nat], NEW d \in Devs
  PROVE  /\ Inc(f, d) \in [Devs -> Nat]
         /\ \A e \in Devs : Inc(f, d)[e] = f[e] + (IF d = e THEN 1 ELSE 0)
BY DEF Inc

LEMMA ClaimIInv ==
  ASSUME IInv, NEW d \in Devs, Claim(d)
  PROVE  IInv'
<1> USE IInvFacts
<1>1. nextId' \in 0 .. MaxIds /\ nextId \in 0 .. MaxIds - 1 BY DEF Claim, IInv, TypeOK
<1>2. UNCHANGED <<modSt, loads, up, devices, nextMinor, users, fsInited, fsSuper,
                  treeValid>> /\ modSt = "loaded"
  BY DEF Claim
<1>3. CASE UNCHANGED <<opens, claims, slaves>>
  BY <1>1, <1>2, <1>3, HoldsUnchanged DEF IInv, TypeOK
<1>4. CASE claims' = Inc(claims, d) /\ UNCHANGED <<opens, slaves>>
  <2>1. claims' \in [Devs -> Nat] BY <1>4, IncProps
  <2>2. OwnersHoldDevice'
    <3> SUFFICES ASSUME NEW e \in Devs
                 PROVE  opens'[e] >= Cnt(slaves', devices', e)
                        /\ claims'[e] >= Cnt(slaves', devices', e)
      BY HoldsDef DEF Holds
    <3>1. claims \in [Devs -> Nat] OBVIOUS
    <3>2. claims'[e] = claims[e] + (IF d = e THEN 1 ELSE 0)
      BY <1>4, <3>1, IncProps
    <3>3. claims'[e] >= claims[e] BY <3>1, <3>2
    <3> QED BY <1>2, <1>4, <2>1, <3>3
  <2> QED BY <1>1, <1>2, <1>4, <2>1, <2>2 DEF IInv, TypeOK
<1>5. CASE /\ opens' = Inc(opens, d) /\ claims' = Inc(claims, d)
           /\ slaves' = << [id |-> nextId, dev |-> d] >> \o slaves
  <2>1. [id |-> nextId, dev |-> d] \in Slave BY <1>1 DEF Slave
  <2>2. slaves' \in Seq(Slave) BY <1>5, <2>1
  <2>3. opens' \in [Devs -> Nat] /\ claims' \in [Devs -> Nat] BY <1>5, IncProps
  <2>4. OwnersHoldDevice'
    <3> SUFFICES ASSUME NEW e \in Devs
                 PROVE  opens'[e] >= Cnt(slaves', devices', e)
                        /\ claims'[e] >= Cnt(slaves', devices', e)
      BY HoldsDef DEF Holds
    <3>1. Cnt(slaves', devices', e)
            = Cnt(slaves, devices, e) + (IF d = e THEN 1 ELSE 0)
      <4>1. Cardinality(On(slaves', e))
              = Cardinality(On(slaves, e)) + (IF d = e THEN 1 ELSE 0)
        BY <1>5, <2>1, OnCons
      <4>2. Cardinality(On(slaves, e)) \in Nat
            /\ Cardinality(MirrorSet(devices, e)) \in Nat
        BY OnFinite, MirrorSetFinite, FS_CardinalityType
      <4> QED BY <1>2, <4>1, <4>2 DEF Cnt
    <3>2. opens'[e] = opens[e] + (IF d = e THEN 1 ELSE 0)
          /\ claims'[e] = claims[e] + (IF d = e THEN 1 ELSE 0)
      BY <1>5, IncProps
    <3>3. /\ Cnt(slaves, devices, e) \in Nat
          /\ opens[e] >= Cnt(slaves, devices, e)
          /\ claims[e] >= Cnt(slaves, devices, e)
          /\ opens[e] \in Nat /\ claims[e] \in Nat
      OBVIOUS
    <3> DEFINE c2 == Cnt(slaves', devices', e)  c1 == Cnt(slaves, devices, e)
               o2 == opens'[e]  o1 == opens[e]  k2 == claims'[e]  k1 == claims[e]
               z == IF d = e THEN 1 ELSE 0
    <3>4. /\ c1 \in Nat /\ o1 \in Nat /\ k1 \in Nat /\ z \in {0, 1}
          /\ c2 = c1 + z /\ o2 = o1 + z /\ k2 = k1 + z /\ o1 >= c1 /\ k1 >= c1
      BY <3>1, <3>2, <3>3
    <3> HIDE DEF c2, c1, o2, o1, k2, k1, z
    <3>5. o2 >= c2 /\ k2 >= c2 BY <3>4
    <3> QED BY <3>5, Zenon DEF c2, o2, k2
  <2> QED BY <1>1, <1>2, <2>2, <2>3, <2>4 DEF IInv, TypeOK
<1> QED BY <1>3, <1>4, <1>5 DEF Claim

LEMMA ReleaseIInv ==
  ASSUME IInv, NEW i \in DOMAIN slaves, Release(i)
  PROVE  IInv'
<1> USE IInvFacts
<1> DEFINE d == slaves[i].dev
<1>1. i \in 1 .. Len(slaves) /\ d \in Devs
  <2>1. i \in 1 .. Len(slaves) OBVIOUS
  <2>2. slaves[i] \in Slave BY <2>1
  <2> QED BY <2>1, <2>2 DEF Slave
<1>2. UNCHANGED <<modSt, loads, up, nextId, devices, nextMinor, users, fsInited,
                  fsSuper, treeValid>> /\ modSt = "loaded"
  BY DEF Release
<1>3. slaves' \in Seq(Slave) BY <1>1, UnlinkProperties DEF Release
<1>4. \A e \in Devs : /\ Cnt(slaves', devices', e) \in Nat
                      /\ opens'[e] >= Cnt(slaves', devices', e)
                      /\ claims'[e] >= Cnt(slaves', devices', e)
  <2> TAKE e \in Devs
  <2>1. Cnt(slaves', devices', e) \in Nat BY <1>2, <1>3, CntNat
  <2>2. Cnt(slaves', devices', e)
          = Cnt(slaves, devices, e) - (IF d = e THEN 1 ELSE 0)
    <3>1. Cardinality(On(slaves', e))
            = Cardinality(On(slaves, e)) - (IF d = e THEN 1 ELSE 0)
      BY <1>1, OnUnlink DEF Release
    <3>2. Cardinality(On(slaves, e)) \in Nat
          /\ Cardinality(MirrorSet(devices, e)) \in Nat
      BY OnFinite, MirrorSetFinite, FS_CardinalityType
    <3> QED BY <1>2, <3>1, <3>2 DEF Cnt
  <2>3. opens'[e] = opens[e] - (IF d = e THEN 1 ELSE 0)
        /\ claims'[e] = claims[e] - (IF d = e THEN 1 ELSE 0)
    BY DEF Release, Dec
  <2> QED BY <2>1, <2>2, <2>3
<1>5. opens' \in [Devs -> Nat] /\ claims' \in [Devs -> Nat]
  <2>1. opens' \in [Devs -> Int] /\ claims' \in [Devs -> Int]
    BY <1>1 DEF Release, Dec
  <2>2. \A e \in Devs : opens'[e] \in Nat /\ claims'[e] \in Nat
    <3> TAKE e \in Devs
    <3>1. opens'[e] \in Int /\ claims'[e] \in Int BY <2>1
    <3>2. Cnt(slaves', devices', e) \in Nat
          /\ opens'[e] >= Cnt(slaves', devices', e)
          /\ claims'[e] >= Cnt(slaves', devices', e)
      BY <1>4
    <3> QED BY <3>1, <3>2
  <2> QED BY <2>1, <2>2
<1>6. OwnersHoldDevice' BY <1>4, HoldsDef DEF Holds
<1> QED BY <1>2, <1>3, <1>5, <1>6 DEF IInv, TypeOK

LEMMA MirrorIInv ==
  ASSUME IInv, NEW d \in Devs, Mirror(d)
  PROVE  IInv'
<1> USE IInvFacts
<1>1. UNCHANGED <<modSt, loads, up, slaves, nextId, users, fsInited, fsSuper,
                  treeValid>> /\ modSt = "loaded" /\ nextMinor \in 0 .. MaxMinors - 1
  BY DEF Mirror, IInv, TypeOK
<1>2. CASE UNCHANGED <<opens, claims, devices, nextMinor>>
  BY <1>1, <1>2, HoldsUnchanged DEF IInv, TypeOK
<1>3. CASE /\ opens' = Inc(opens, d) /\ claims' = Inc(claims, d)
           /\ nextMinor' \in 0 .. MaxMinors
           /\ \/ devices' = devices
              \/ devices' = devices \cup {[minor |-> nextMinor, dev |-> d]}
  <2> DEFINE x == [minor |-> nextMinor, dev |-> d]
  <2>1. x \in Device BY <1>1 DEF Device, Minors
  <2>2. devices' \subseteq Device /\ IsFiniteSet(devices')
    BY <1>3, <2>1, FS_AddElement
  <2>3. opens' \in [Devs -> Nat] /\ claims' \in [Devs -> Nat]
    <3>1. opens \in [Devs -> Nat] /\ claims \in [Devs -> Nat] OBVIOUS
    <3>2. opens' \in [Devs -> Nat] BY <1>3, <3>1, IncProps
    <3>3. claims' \in [Devs -> Nat] BY <1>3, <3>1, IncProps
    <3> QED BY <3>2, <3>3
  <2>4. OwnersHoldDevice'
    <3> SUFFICES ASSUME NEW e \in Devs
                 PROVE  opens'[e] >= Cnt(slaves', devices', e)
                        /\ claims'[e] >= Cnt(slaves', devices', e)
      BY HoldsDef DEF Holds
    <3>1. Cnt(slaves', devices', e)
            <= Cnt(slaves, devices, e) + (IF d = e THEN 1 ELSE 0)
      <4>1. Cardinality(MirrorSet(devices', e))
              <= Cardinality(MirrorSet(devices, e)) + (IF d = e THEN 1 ELSE 0)
        <5>1. CASE d = e
          <6>1. Cardinality(MirrorSet(devices \cup {x}, e))
                  <= Cardinality(MirrorSet(devices, e)) + 1
            BY MirrorSetAdd
          <6>2. Cardinality(MirrorSet(devices, e)) \in Nat BY MirrorSetFinite
          <6>3. Cardinality(MirrorSet(devices', e))
                  <= Cardinality(MirrorSet(devices \cup {x}, e))
            <7>0. IsFiniteSet(devices \cup {x}) BY FS_AddElement
            <7>1. IsFiniteSet(MirrorSet(devices \cup {x}, e))
              BY <7>0, MirrorSetFinite
            <7>2. MirrorSet(devices', e) \subseteq MirrorSet(devices \cup {x}, e)
              BY <1>3 DEF MirrorSet
            <7> QED BY <7>1, <7>2, FS_Subset
          <6>4. Cardinality(MirrorSet(devices', e)) \in Nat
                /\ Cardinality(MirrorSet(devices \cup {x}, e)) \in Nat
            BY <2>2, FS_AddElement, MirrorSetFinite
          <6> QED BY <5>1, <6>1, <6>2, <6>3, <6>4
        <5>2. CASE d # e
          <6>1. MirrorSet(devices', e) = MirrorSet(devices, e)
            BY <1>3, <5>2 DEF MirrorSet
          <6>2. Cardinality(MirrorSet(devices, e)) \in Nat BY MirrorSetFinite
          <6> QED BY <5>2, <6>1, <6>2
        <5> QED BY <5>1, <5>2
      <4>2. Cardinality(On(slaves, e)) \in Nat
            /\ Cardinality(MirrorSet(devices', e)) \in Nat
        BY <2>2, OnFinite, MirrorSetFinite, FS_CardinalityType
      <4>3. On(slaves', e) = On(slaves, e) BY <1>1
      <4>4. Cardinality(On(slaves, e)) \in Nat
            /\ Cardinality(MirrorSet(devices, e)) \in Nat
        BY OnFinite, MirrorSetFinite, FS_CardinalityType
      <4> QED BY <4>1, <4>2, <4>3, <4>4, SMTT(30) DEF Cnt
    <3>2. opens'[e] = opens[e] + (IF d = e THEN 1 ELSE 0)
          /\ claims'[e] = claims[e] + (IF d = e THEN 1 ELSE 0)
      <4>1. opens \in [Devs -> Nat] /\ claims \in [Devs -> Nat] OBVIOUS
      <4>2. opens'[e] = opens[e] + (IF d = e THEN 1 ELSE 0)
        BY <1>3, <4>1, IncProps
      <4>3. claims'[e] = claims[e] + (IF d = e THEN 1 ELSE 0)
        BY <1>3, <4>1, IncProps
      <4> QED BY <4>2, <4>3
    <3>3. Cnt(slaves', devices', e) \in Nat BY <1>1, <2>2, CntNat
    <3>4. /\ Cnt(slaves, devices, e) \in Nat
          /\ opens[e] >= Cnt(slaves, devices, e)
          /\ claims[e] >= Cnt(slaves, devices, e)
          /\ opens[e] \in Nat /\ claims[e] \in Nat
      OBVIOUS
    <3> DEFINE c2 == Cnt(slaves', devices', e)  c1 == Cnt(slaves, devices, e)
               o2 == opens'[e]  o1 == opens[e]  k2 == claims'[e]  k1 == claims[e]
               z == IF d = e THEN 1 ELSE 0
    <3>5. /\ c2 \in Nat /\ c1 \in Nat /\ o1 \in Nat /\ k1 \in Nat /\ z \in {0, 1}
          /\ c2 <= c1 + z /\ o2 = o1 + z /\ k2 = k1 + z /\ o1 >= c1 /\ k1 >= c1
      BY <3>1, <3>2, <3>3, <3>4
    <3> HIDE DEF c2, c1, o2, o1, k2, k1, z
    <3>6. o2 >= c2 /\ k2 >= c2 BY <3>5
    <3> QED BY <3>6, Zenon DEF c2, o2, k2
  <2> QED BY <1>1, <1>3, <2>2, <2>3, <2>4 DEF IInv, TypeOK
<1> QED BY <1>1, <1>2, <1>3 DEF Mirror

LEMMA DeviceFreeIInv ==
  ASSUME IInv, NEW x \in devices, DeviceFree(x)
  PROVE  IInv'
<1> USE IInvFacts
<1> DEFINE d == x.dev
<1>1. d \in Devs BY DEF Device
<1>2. UNCHANGED <<modSt, loads, up, slaves, nextId, nextMinor, users, fsInited,
                  fsSuper, treeValid>> /\ modSt = "loaded"
  BY DEF DeviceFree
<1>3. devices' \subseteq Device /\ IsFiniteSet(devices')
  BY FS_RemoveElement DEF DeviceFree
<1>4. \A e \in Devs : /\ Cnt(slaves', devices', e) \in Nat
                      /\ opens'[e] >= Cnt(slaves', devices', e)
                      /\ claims'[e] >= Cnt(slaves', devices', e)
  <2> TAKE e \in Devs
  <2>1. Cnt(slaves', devices', e) \in Nat BY <1>2, <1>3, CntNat
  <2>2. Cnt(slaves', devices', e)
          = Cnt(slaves, devices, e) - (IF d = e THEN 1 ELSE 0)
    <3>1. Cardinality(MirrorSet(devices', e))
            = Cardinality(MirrorSet(devices, e)) - (IF d = e THEN 1 ELSE 0)
      BY MirrorSetRemove DEF DeviceFree
    <3>2. Cardinality(On(slaves, e)) \in Nat
          /\ Cardinality(MirrorSet(devices, e)) \in Nat
      BY OnFinite, MirrorSetFinite, FS_CardinalityType
    <3> QED BY <1>2, <3>1, <3>2 DEF Cnt
  <2>3. opens'[e] = opens[e] - (IF d = e THEN 1 ELSE 0)
        /\ claims'[e] = claims[e] - (IF d = e THEN 1 ELSE 0)
    BY <1>1 DEF DeviceFree, Dec
  <2> QED BY <2>1, <2>2, <2>3
<1>5. opens' \in [Devs -> Nat] /\ claims' \in [Devs -> Nat]
  <2>1. opens' \in [Devs -> Int] /\ claims' \in [Devs -> Int]
    BY <1>1 DEF DeviceFree, Dec
  <2>2. \A e \in Devs : opens'[e] \in Nat /\ claims'[e] \in Nat
    <3> TAKE e \in Devs
    <3>1. opens'[e] \in Int /\ claims'[e] \in Int BY <2>1
    <3>2. Cnt(slaves', devices', e) \in Nat
          /\ opens'[e] >= Cnt(slaves', devices', e)
          /\ claims'[e] >= Cnt(slaves', devices', e)
      BY <1>4
    <3> QED BY <3>1, <3>2
  <2> QED BY <2>1, <2>2
<1>6. OwnersHoldDevice' BY <1>4, HoldsDef DEF Holds
<1> QED BY <1>2, <1>3, <1>5, <1>6 DEF IInv, TypeOK

LEMMA ModuleExitIInv == IInv /\ ModuleExit => IInv'
<1> SUFFICES ASSUME IInv, ModuleExit PROVE IInv' OBVIOUS
<1> USE IInvFacts
<1>1. \A e \in Devs : SlavesOn(e) + MirrorsOn(e) = Cnt(slaves, devices, e)
  BY DEF SlavesOn, MirrorsOn, Cnt, On, MirrorSet
<1>2. \A e \in Devs : /\ opens'[e] = opens[e] - Cnt(slaves, devices, e)
                      /\ claims'[e] = claims[e] - Cnt(slaves, devices, e)
  <2> TAKE e \in Devs
  <2>0. SlavesOn(e) = Cardinality(On(slaves, e))
        /\ MirrorsOn(e) = Cardinality(MirrorSet(devices, e))
    BY DEF SlavesOn, MirrorsOn, On, MirrorSet
  <2>1. SlavesOn(e) \in Nat /\ MirrorsOn(e) \in Nat
    BY <2>0, OnFinite, MirrorSetFinite, FS_CardinalityType
  <2> HIDE DEF SlavesOn, MirrorsOn
  <2> QED BY <1>1, <2>1 DEF ModuleExit
<1>3. opens' \in [Devs -> Nat] /\ claims' \in [Devs -> Nat]
  BY <1>2 DEF ModuleExit
<1>4. slaves' = << >> /\ devices' = {} /\ up' = {} /\ modSt' = "unloaded"
  BY DEF ModuleExit
<1>5. OwnersHoldDevice'
  <2> SUFFICES ASSUME NEW e \in Devs
               PROVE  opens'[e] >= Cnt(slaves', devices', e)
                      /\ claims'[e] >= Cnt(slaves', devices', e)
    BY HoldsDef DEF Holds
  <2>1. Cnt(slaves', devices', e) = 0 BY <1>4, CntEmpty
  <2> QED BY <1>3, <2>1
<1>6. IsFiniteSet(devices') BY <1>4, FS_EmptySet
<1>7. UNCHANGED <<loads, nextId, nextMinor, users, fsInited, fsSuper, treeValid>>
  BY DEF ModuleExit
<1> QED BY <1>3, <1>4, <1>5, <1>6, <1>7 DEF IInv, TypeOK

\* Every step of the module, and every stutter, keeps the inductive
\* invariant.
LEMMA NextIInv == IInv /\ [Next]_vars => IInv'
<1> SUFFICES ASSUME IInv, [Next]_vars PROVE IInv' OBVIOUS
<1>1. CASE ModuleInit BY <1>1, ModuleInitIInv
<1>2. CASE ModuleExit BY <1>2, ModuleExitIInv
<1>3. CASE \E d \in Devs : Claim(d) \/ Mirror(d) BY <1>3, ClaimIInv, MirrorIInv
<1>4. CASE \E i \in DOMAIN slaves : Release(i) BY <1>4, ReleaseIInv
<1>5. CASE \E x \in devices : DeviceFree(x) BY <1>5, DeviceFreeIInv
<1>6. CASE \E m \in Minors : Open(m) \/ Close(m) BY <1>6, OpenCloseIInv
<1>7. CASE FsInit BY <1>7, FsInitIInv
<1>8. CASE UNCHANGED vars
  <2>1. UNCHANGED <<modSt, loads, up, slaves, nextId, devices, nextMinor, users,
                    opens, claims, fsInited, fsSuper, treeValid>>
    BY <1>8 DEF vars
  <2> QED BY <2>1, HoldsUnchanged DEF IInv, TypeOK
<1> QED BY <1>1, <1>2, <1>3, <1>4, <1>5, <1>6, <1>7, <1>8 DEF Next

\* The inductive invariant holds in every state the module can reach.
THEOREM MountIInv == Spec => []IInv
<1>1. Init => IInv BY InitIInv
<1>2. IInv /\ [Next]_vars => IInv' BY NextIInv
<1> QED BY <1>1, <1>2, PTL DEF Spec

\* Every variable of castle_main.c's model keeps its type: in particular
\* the kernel's open and claim counts of a device never go below zero,
\* whatever order of claims, releases, mirrors, frees and unloads.
THEOREM MountTypeCorrect == Spec => []TypeOK
<1>1. IInv => TypeOK BY DEF IInv
<1> QED BY <1>1, MountIInv, PTL

\* Every slave castle_claim links and every mirror castle_dev_mirror adds
\* holds an open reference and a bd_claim of its device, for every number
\* of devices and every bound: castle_release, castle_device_free and
\* castle_exit never drop a reference some owner still needs.
THEOREM OwnersHeld == Spec => []OwnersHoldDevice
<1>1. IInv => OwnersHoldDevice BY DEF IInv
<1> QED BY <1>1, MountIInv, PTL

=============================================================================
