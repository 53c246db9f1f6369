------------------------------- MODULE Mount -------------------------------
(***************************************************************************)
(* The life cycle of castle_main.c: module load and unload, slave claim    *)
(* and release, mirror devices with their open count, and the mount of the *)
(* file system from the slaves' superblocks.  Every operation runs as one  *)
(* step: the control ioctls are serialised by the control lock, open and   *)
(* close by dev->lock, and load and unload by the module loader.           *)
(*                                                                         *)
(* The kernel's side of a raw device is two counters per device: opens,    *)
(* the references taken by open_by_devnum and dropped by blkdev_put, and   *)
(* claims, castle's holds taken by bd_claim and dropped by bd_release.    *)
(* A device another holder has claimed (foreign) refuses bd_claim; castle *)
(* itself may claim a device it already holds, as the kernel nests the     *)
(* claims of one holder.  The on-disk superblocks are fixed in Init: a     *)
(* slave superblock is valid or not, and a file-system superblock is one  *)
(* of Supers or "bad" (a wrong magic).                                    *)
(***************************************************************************)
EXTENDS Integers, Sequences, FiniteSets

CONSTANTS
    Devs,        \* the raw block devices
    Supers,      \* the possible contents of a valid fs superblock
    MaxIds,      \* bound on castle_claim's static slave_id
    MaxMinors,   \* bound on castle_dev_mirror's static minor
    MaxUsers,    \* bound on the opens of one mirror device
    MaxLoads,    \* bound on the calls of castle_init
    MaxRefs      \* bound on castle's claims of one device

ASSUME MountAssumption ==
    /\ IsFiniteSet(Devs) /\ Devs # {}
    /\ "bad" \notin Supers
    /\ MaxIds \in Nat /\ MaxMinors \in Nat /\ MaxUsers \in Nat
    /\ MaxLoads \in Nat /\ MaxRefs \in Nat

VARIABLES
    modSt,       \* "unloaded" or "loaded"
    loads,       \* the calls of castle_init so far
    up,          \* the subsystems castle_init has brought up
    slaves,      \* castle_slaves.slaves, head first: records [id, dev]
    nextId,      \* static slave_id of castle_claim
    devices,     \* castle_devices.devices: records [minor, dev]
    nextMinor,   \* static minor of castle_dev_mirror
    users,       \* dev->users of each minor
    opens,       \* the kernel's open references castle holds, per device
    claims,      \* the kernel's bd_claim holds castle has, per device
    fsInited,    \* castle_fs_inited
    fsSuper,     \* castle_fs_super
    treeValid,   \* the version tree root read by the mount was well formed
    slaveOk,     \* per device: its slave superblock has the right magic
    fsSb,        \* per device: its fs superblock
    foreign      \* the devices some other holder has bd_claimed

vars == <<modSt, loads, up, slaves, nextId, devices, nextMinor, users, opens,
          claims, fsInited, fsSuper, treeValid, slaveOk, fsSb, foreign>>
disk == <<slaveOk, fsSb, foreign>>

Minors == 0 .. MaxMinors - 1
Slave == [id : 0 .. MaxIds - 1, dev : Devs]
Device == [minor : Minors, dev : Devs]
NoSuper == "none"

\* The subsystems castle_init brings up, in its order.
Stages == <<"btree", "devices", "slaves", "control", "sysfs">>
StageSet == {Stages[i] : i \in DOMAIN Stages}

\* The slaves, and the mirrors, built on device d: what castle_slaves_free
\* and castle_devices_free give back of it.
SlavesOn(d) == Cardinality({i \in DOMAIN slaves : slaves[i].dev = d})
MirrorsOn(d) == Cardinality({x \in devices : x.dev = d})

\* The number of castle objects built on device d.
Owners(d) == SlavesOn(d) + MirrorsOn(d)

\* castle_slave_superblock_read: the read succeeds and the magics match.
SlaveSbValid(d, ioOk) == ioOk /\ slaveOk[d]

\* castle_fs_superblock_read: castle_sub_block_read succeeds and the magics
\* of the fs superblock match.
FsSbValid(d, ioOk) == ioOk /\ fsSb[d] \in Supers

\* castle_basedisk_claim, once the open succeeded: bd_claim succeeds.
BasediskClaimed(d) == d \notin foreign

\* The list without its i-th element (list_del).
Unlink(s, i) == SubSeq(s, 1, i - 1) \o SubSeq(s, i + 1, Len(s))

\* One more, or one fewer, kernel reference on device d.
Inc(f, d) == [f EXCEPT ![d] = @ + 1]
Dec(f, d) == [f EXCEPT ![d] = @ - 1]

TypeOK ==
    /\ modSt \in {"unloaded", "loaded"}
    /\ loads \in 0 .. MaxLoads
    /\ up \subseteq StageSet
    /\ slaves \in Seq(Slave)
    /\ nextId \in 0 .. MaxIds
    /\ devices \subseteq Device
    /\ nextMinor \in 0 .. MaxMinors
    /\ users \in [Minors -> 0 .. MaxUsers]
    /\ opens \in [Devs -> Nat]
    /\ claims \in [Devs -> Nat]
    /\ fsInited \in BOOLEAN
    /\ fsSuper \in Supers \cup {NoSuper}
    /\ treeValid \in BOOLEAN

Init ==
    /\ modSt = "unloaded"
    /\ loads = 0
    /\ up = {}
    /\ slaves = << >>
    /\ nextId = 0
    /\ devices = {}
    /\ nextMinor = 0
    /\ users = [m \in Minors |-> 0]
    /\ opens = [d \in Devs |-> 0]
    /\ claims = [d \in Devs |-> 0]
    /\ fsInited = FALSE
    /\ fsSuper = NoSuper
    /\ treeValid = FALSE
    /\ slaveOk \in [Devs -> BOOLEAN]
    /\ fsSb \in [Devs -> Supers \cup {"bad"}]
    /\ foreign \in SUBSET Devs

(***************************************************************************)
(* castle_init.  It clears castle_fs_inited, then brings the subsystems up *)
(* in order; when step k fails it jumps to err_out<k>, whose fall-through  *)
(* tears down the steps before k in reverse.  castle_slaves_init cannot    *)
(* fail.  The statics slave_id and minor start again at 0 with the module. *)
(***************************************************************************)
CanFail == {1, 2, 4, 5}

TornDown(k) == {Stages[i] : i \in 1 .. k - 1}

ModuleInit ==
    /\ modSt = "unloaded"
    /\ loads < MaxLoads
    /\ loads' = loads + 1
    /\ fsInited' = FALSE
    /\ nextId' = 0
    /\ nextMinor' = 0
    /\ \/ /\ up' = StageSet
          /\ modSt' = "loaded"
       \/ \E k \in CanFail :
             /\ up' = {Stages[i] : i \in 1 .. k - 1} \ TornDown(k)
             /\ UNCHANGED modSt
    /\ UNCHANGED <<slaves, devices, users, opens, claims, fsSuper, treeValid,
                   disk>>

(***************************************************************************)
(* castle_claim(d).  kmalloc failing returns at once.  Otherwise the slave *)
(* takes an id, and the device is opened, claimed and its slave superblock *)
(* read; the superblock read may also fail with an I/O error.  The error   *)
(* path err_out calls blkdev_put once the open has succeeded, and never    *)
(* bd_release.                                                             *)
(***************************************************************************)
\* Mutant: bdev_claimed is set before the open is checked.
ClaimPutUnopened(d) ==
    /\ modSt = "loaded"
    /\ nextId < MaxIds
    /\ claims[d] < MaxRefs
    /\ nextId' = nextId + 1
    /\ \/ /\ opens' = Dec(opens, d)                   \* open_by_devnum fails
          /\ UNCHANGED <<claims, slaves>>
       \/ /\ d \in foreign                             \* bd_claim fails
          /\ UNCHANGED <<opens, claims, slaves>>
       \/ /\ d \notin foreign                          \* superblock bad
          /\ \E ioOk \in BOOLEAN : ~SlaveSbValid(d, ioOk)
          /\ claims' = Inc(claims, d)
          /\ UNCHANGED <<opens, slaves>>
       \/ /\ d \notin foreign
          /\ SlaveSbValid(d, TRUE)
          /\ opens' = Inc(opens, d)
          /\ claims' = Inc(claims, d)
          /\ slaves' = << [id |-> nextId, dev |-> d] >> \o slaves
    /\ UNCHANGED <<modSt, loads, up, devices, nextMinor, users, fsInited, fsSuper,
                   treeValid, disk>>

Claim(d) ==
    /\ modSt = "loaded"
    /\ nextId < MaxIds
    /\ claims[d] < MaxRefs
    /\ nextId' = nextId + 1
    /\ \/ UNCHANGED <<opens, claims, slaves>>          \* open_by_devnum fails
       \/ /\ d \in foreign                             \* bd_claim fails
          /\ UNCHANGED <<opens, claims, slaves>>
       \/ /\ d \notin foreign                          \* superblock bad
          /\ \E ioOk \in BOOLEAN : ~SlaveSbValid(d, ioOk)
          /\ claims' = Inc(claims, d)
          /\ UNCHANGED <<opens, slaves>>
       \/ /\ d \notin foreign
          /\ SlaveSbValid(d, TRUE)
          /\ opens' = Inc(opens, d)
          /\ claims' = Inc(claims, d)
          /\ slaves' = << [id |-> nextId, dev |-> d] >> \o slaves
    /\ UNCHANGED <<modSt, loads, up, devices, nextMinor, users, fsInited, fsSuper,
                   treeValid, disk>>

\* Mutant: the slave stays on the list after its device is put.
ReleaseNoListDel(i) ==
    /\ modSt = "loaded"
    /\ claims' = Dec(claims, slaves[i].dev)
    /\ opens' = Dec(opens, slaves[i].dev)
    /\ UNCHANGED <<modSt, loads, up, slaves, nextId, devices, nextMinor, users,
                   fsInited, fsSuper, treeValid, disk>>

\* castle_release of the i-th slave of the list.
Release(i) ==
    /\ modSt = "loaded"
    /\ claims' = Dec(claims, slaves[i].dev)
    /\ opens' = Dec(opens, slaves[i].dev)
    /\ slaves' = Unlink(slaves, i)
    /\ UNCHANGED <<modSt, loads, up, nextId, devices, nextMinor, users, fsInited,
                   fsSuper, treeValid, disk>>

(***************************************************************************)
(* castle_dev_mirror(d).  kmalloc failing, or castle_basedisk_claim        *)
(* failing (it puts the device back itself), returns NULL with the device  *)
(* untouched.  Once the base disk is claimed, alloc_disk and               *)
(* blk_alloc_queue may fail; error_out then returns NULL and keeps the     *)
(* claim and the open.  The minor is taken between the two allocations.    *)
(***************************************************************************)
Mirror(d) ==
    /\ modSt = "loaded"
    /\ nextMinor < MaxMinors
    /\ claims[d] < MaxRefs
    /\ \/ UNCHANGED <<opens, claims, devices, nextMinor>> \* kmalloc, open
       \/ /\ BasediskClaimed(d)                       \* alloc_disk fails
          /\ opens' = Inc(opens, d)
          /\ claims' = Inc(claims, d)
          /\ UNCHANGED <<devices, nextMinor>>
       \/ /\ BasediskClaimed(d)                       \* blk_alloc_queue fails
          /\ opens' = Inc(opens, d)
          /\ claims' = Inc(claims, d)
          /\ nextMinor' = nextMinor + 1
          /\ UNCHANGED devices
       \/ /\ BasediskClaimed(d)
          /\ opens' = Inc(opens, d)
          /\ claims' = Inc(claims, d)
          /\ nextMinor' = nextMinor + 1
          /\ devices' = devices \cup {[minor |-> nextMinor, dev |-> d]}
    /\ UNCHANGED <<modSt, loads, up, slaves, nextId, users, fsInited, fsSuper,
                   treeValid, disk>>

\* castle_device_free of mirror x: it checks nothing of dev->users.
DeviceFree(x) ==
    /\ modSt = "loaded"
    /\ claims' = Dec(claims, x.dev)
    /\ opens' = Dec(opens, x.dev)
    /\ devices' = devices \ {x}
    /\ UNCHANGED <<modSt, loads, up, slaves, nextId, nextMinor, users, fsInited,
                   fsSuper, treeValid, disk>>

\* castle_open and castle_close of mirror minor m, each under dev->lock.
\* The VFS closes only what it opened, also after the device was freed.
Open(m) ==
    /\ \E x \in devices : x.minor = m
    /\ users[m] < MaxUsers
    /\ users' = [users EXCEPT ![m] = @ + 1]
    /\ UNCHANGED <<modSt, loads, up, slaves, nextId, devices, nextMinor, opens,
                   claims, fsInited, fsSuper, treeValid, disk>>

Close(m) ==
    /\ users[m] > 0
    /\ users' = [users EXCEPT ![m] = @ - 1]
    /\ UNCHANGED <<modSt, loads, up, slaves, nextId, devices, nextMinor, opens,
                   claims, fsInited, fsSuper, treeValid, disk>>

(***************************************************************************)
(* castle_fs_init.  It returns at once when already inited or with no      *)
(* slave (those paths change nothing and are not steps).  The loop skips  *)
(* a slave whose fs superblock cannot be read (ioOk) or fails to validate, *)
(* saves the first valid one in castle_fs_super, and fails the mount when *)
(* a later one differs.                                                    *)
(* Then castle_version_tree_read reads the root named by the superblock:  *)
(* hdr is what it finds, "ioerr" standing for every error it returns.  On *)
(* a bad header it returns ret, which is still 0.                         *)
(***************************************************************************)
\* The positions on the slave list whose fs superblock the loop reads and
\* validates, the read of position i succeeding when ioOk[i], and the
\* first of them, whose superblock the loop saves.
ValidSlaves(ioOk) == {i \in DOMAIN slaves : FsSbValid(slaves[i].dev, ioOk[i])}
FirstValid(ioOk) ==
    CHOOSE i \in ValidSlaves(ioOk) : \A j \in ValidSlaves(ioOk) : i <= j

TreeReadRet(hdr) == IF hdr = "ioerr" THEN -5 ELSE 0

FsInit ==
    /\ modSt = "loaded"
    /\ ~fsInited
    /\ \E ioOk \in [DOMAIN slaves -> BOOLEAN] :
          LET V == ValidSlaves(ioOk)
          IN /\ V # {}
             /\ fsSuper' = fsSb[slaves[FirstValid(ioOk)].dev]
             /\ \/ /\ \E i \in V : fsSb[slaves[i].dev] # fsSuper'
                   /\ UNCHANGED <<fsInited, treeValid>>
                \/ /\ \A i \in V : fsSb[slaves[i].dev] = fsSuper'
                   /\ \E hdr \in {"ok", "badhdr", "ioerr"} :
                         IF TreeReadRet(hdr) # 0
                         THEN UNCHANGED <<fsInited, treeValid>>
                         ELSE /\ fsInited' = TRUE
                              /\ treeValid' = (hdr = "ok")
    /\ UNCHANGED <<modSt, loads, up, slaves, nextId, devices, nextMinor, users,
                   opens, claims, disk>>

(***************************************************************************)
(* castle_exit: castle_slaves_free releases every slave and                *)
(* castle_devices_free frees every mirror.  The module cannot be unloaded  *)
(* while a mirror is open: castle_bd_ops.owner pins it.                    *)
(***************************************************************************)
ModuleExit ==
    /\ modSt = "loaded"
    /\ \A m \in Minors : users[m] = 0
    /\ opens' = [d \in Devs |-> opens[d] - SlavesOn(d) - MirrorsOn(d)]
    /\ claims' = [d \in Devs |-> claims[d] - SlavesOn(d) - MirrorsOn(d)]
    /\ slaves' = << >>
    /\ devices' = {}
    /\ up' = {}
    /\ modSt' = "unloaded"
    /\ UNCHANGED <<loads, nextId, nextMinor, users, fsInited, fsSuper, treeValid,
                   disk>>

Next ==
    \/ ModuleInit
    \/ ModuleExit
    \/ \E d \in Devs : Claim(d) \/ Mirror(d)
    \/ \E i \in DOMAIN slaves : Release(i)
    \/ \E x \in devices : DeviceFree(x)
    \/ \E m \in Minors : Open(m) \/ Close(m)
    \/ FsInit

Spec == Init /\ [][Next]_vars

-----------------------------------------------------------------------------
(***************************************************************************)
(* Properties.                                                             *)
(***************************************************************************)

\* Every slave and mirror in castle's lists still holds the open reference
\* and the bd_claim it took: no release, free or unload gives back a
\* reference another list entry relies on (castle_release, device_free,
\* castle_exit).
OwnersHoldDevice ==
    \A d \in Devs : opens[d] >= Owners(d) /\ claims[d] >= Owners(d)

\* The spec: the fs superblock must be equal on every slave, and a mismatch
\* fails the mount.  castle_fs_init skips a slave it cannot validate.
MountAllAgree ==
    [][~fsInited /\ fsInited' =>
         \A i \in DOMAIN slaves : fsSb[slaves[i].dev] = fsSuper']_vars

\* A mounted file system has a well-formed version tree root
\* (castle_version_tree_read's capacity check).
MountTreeValid == fsInited => treeValid

\* Exclusive ownership: castle holds a claim and an open reference on a raw
\* device exactly as long as a slave or mirror of its lists owns it
\* (castle_claim, castle_dev_mirror and their error paths).
ClaimsBalanced ==
    \A d \in Devs : opens[d] = Owners(d) /\ claims[d] = Owners(d)

=============================================================================
