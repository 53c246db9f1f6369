------------------------------ MODULE ObjectIO ------------------------------
(***************************************************************************)
(* Streaming of one key's value through the page cache, castle_objects.c: *)
(* a replace (castle_object_replace, _replace_cvt_get, _replace_complete,  *)
(* _data_write, _replace_continue) and a get (castle_object_get,           *)
(* _get_complete, _get_continue, _get_io_end, __castle_object_get_complete)*)
(* running on different CPUs against the same key of one version.          *)
(*                                                                         *)
(* The cache is block addressed: a window of nr blocks at cdb (a c2b) sees *)
(* the bytes last released into those blocks.  A byte is a tag            *)
(* <<put, index>>: the index-th byte of the value of the put-th replace;   *)
(* JUNK is a byte no replace wrote.  The B-tree holds the key's current    *)
(* value tuple (cvt); its lookup and insert (castle_double_array_find, in  *)
(* castle_btree.c) and the free-space allocator (castle_freespace.c) are   *)
(* outside this source tree and are modelled from the spec: the insert     *)
(* makes the cvt that cvt_get built current, and the allocator returns any *)
(* free contiguous extent.  The client's frames carry the value bytes in   *)
(* order, at most FrameMax of them per frame.                              *)
(***************************************************************************)
EXTENDS Integers, Sequences, FiniteSets

CONSTANTS
  C_BLK_SIZE,              \* bytes per block
  OBJ_IO_MAX_BUFFER_SIZE,  \* blocks per streaming window
  MAX_INLINE_VAL_SIZE,     \* longest value stored inline in the cvt
  Lengths,                 \* value lengths the client may put
  FrameMax,                \* most value bytes in one client frame
  NBlocks,                 \* blocks of the disk
  MaxPuts,                 \* replaces the client issues
  MaxGets                  \* gets the client issues

ASSUME ObjectIOAssumption ==
  /\ C_BLK_SIZE \in Nat \ {0}
  /\ OBJ_IO_MAX_BUFFER_SIZE \in Nat \ {0}
  /\ MAX_INLINE_VAL_SIZE \in Nat
  /\ Lengths \subseteq Nat \ {0} /\ Lengths # {} /\ IsFiniteSet(Lengths)
  /\ FrameMax \in Nat \ {0}
  /\ NBlocks \in Nat \ {0}
  /\ MaxPuts \in Nat \ {0}
  /\ MaxGets \in Nat \ {0}

Blocks == 0 .. NBlocks - 1
Addrs == 0 .. NBlocks * C_BLK_SIZE - 1
MaxLen == CHOOSE l \in Lengths : \A m \in Lengths : m <= l
JUNK == <<0, 0>>
Tags == {JUNK} \cup ((1 .. MaxPuts) \X (0 .. MaxLen - 1))
CvtTypes == {"none", "tomb", "inline", "ondisk"}
NoCvt == [type |-> "none", len |-> 0, cdb |-> 0, put |-> 0]
Cvts == [type : CvtTypes, len : 0 .. MaxLen, cdb : Blocks, put : 0 .. MaxPuts]

\* (len - 1) / C_BLK_SIZE + 1: blocks that hold len bytes
NrBlocks(len) == (len - 1) \div C_BLK_SIZE + 1

\* the bytes of a window: at most OBJ_IO_MAX_BUFFER_SIZE blocks' worth
WindowBytes == OBJ_IO_MAX_BUFFER_SIZE * C_BLK_SIZE

Extent(cdb, nr) == cdb .. cdb + nr - 1
CvtExtent(c) == IF c.type = "ondisk" THEN Extent(c.cdb, NrBlocks(c.len)) ELSE {}

\* The value the put-th replace streams, as the client sent it
Value(c) == [i \in 1 .. c.len |-> <<c.put, i - 1>>]

VARIABLES
  store,      \* address -> byte last released into the cache there
  used,       \* blocks the allocator has handed out
  cvt,        \* the key's current value tuple in the B-tree
  puts,       \* replaces issued so far
  gets,       \* gets issued so far
  wSt,        \* replace call: "idle", "copy" (in data_write), "await" (frame)
  wCvt,       \* the cvt this replace is streaming
  wCdb,       \* data_c2b->cdb: first block of the current window
  wNr,        \* data_c2b->nr_pages
  wOff,       \* data_c2b_offset
  wRem,       \* data_length: bytes still to copy
  pkt,        \* packet_length: bytes of the current frame still to copy
  rSt,        \* get call: "idle", "locking" (in lock_c2b), "pinned", "io", "done"
  rIoOk,      \* the read submitted for the window will bring it up to date
  rCvt,       \* the cvt the get found
  rCdb,       \* c2b->cdb of the window the get holds
  rLen,       \* data_c2b_length of that window
  rRem,       \* data_length left after that window
  rPinned,    \* blocks of the window the get has pinned (cache_block_get)
  rHeld,      \* the c2b the get holds locked, or NoC2b
  delivered,  \* bytes replied to the client so far
  rResult,    \* "none", "ok", "notfound", "eio"
  rClean      \* no replace ran from the get's start on

vars == <<store, used, cvt, puts, gets, wSt, wCvt, wCdb, wNr, wOff, wRem, pkt,
          rSt, rIoOk, rCvt, rCdb, rLen, rRem, rPinned, rHeld, delivered, rResult,
          rClean>>

wVars == <<wSt, wCvt, wCdb, wNr, wOff, wRem, pkt>>
rVars == <<rSt, rIoOk, rCvt, rCdb, rLen, rRem, rPinned, rHeld, delivered, rResult>>

\* A c2b of the cache: nr blocks at cdb (castle_cache_block_get(cdb, nr)).
\* A lock_c2b waits while another call holds the same c2b locked.
NoC2b == <<-1, 0>>

\* The c2b the writer holds locked: its current window while it streams.
WHeld == IF wSt = "idle" THEN NoC2b ELSE <<wCdb, wNr>>

TypeOK ==
  /\ store \in [Addrs -> Tags]
  /\ used \subseteq Blocks
  /\ cvt \in Cvts /\ wCvt \in Cvts /\ rCvt \in Cvts
  /\ puts \in 0 .. MaxPuts /\ gets \in 0 .. MaxGets
  /\ wSt \in {"idle", "copy", "await"}
  /\ wCdb \in Int /\ wNr \in 0 .. OBJ_IO_MAX_BUFFER_SIZE
  /\ wOff \in 0 .. WindowBytes /\ wRem \in 0 .. MaxLen /\ pkt \in 0 .. FrameMax
  /\ rSt \in {"idle", "locking", "pinned", "io", "done"} /\ rIoOk \in BOOLEAN
  /\ rCdb \in Int /\ rLen \in 0 .. WindowBytes /\ rRem \in 0 .. MaxLen
  /\ rPinned \subseteq Int /\ rHeld \in Int \X Int
  /\ delivered \in Seq(Tags) /\ Len(delivered) <= MaxLen + WindowBytes
  /\ rResult \in {"none", "ok", "notfound", "eio"}
  /\ rClean \in BOOLEAN

Init ==
  /\ store = [a \in Addrs |-> JUNK]
  /\ used = {}
  /\ cvt = NoCvt
  /\ puts = 0 /\ gets = 0
  /\ wSt = "idle" /\ wCvt = NoCvt
  /\ wCdb = 0 /\ wNr = 0 /\ wOff = 0 /\ wRem = 0 /\ pkt = 0
  /\ rSt = "idle" /\ rIoOk = TRUE /\ rCvt = NoCvt /\ rCdb = 0 /\ rLen = 0 /\ rRem = 0
  /\ rPinned = {} /\ rHeld = NoC2b
  /\ delivered = <<>> /\ rResult = "none" /\ rClean = FALSE

-----------------------------------------------------------------------------
(* Replace: castle_object_replace .. castle_object_replace_continue.       *)

Min2(a, b) == IF a <= b THEN a ELSE b

\* Mutant: the window is not capped at OBJ_IO_MAX_BUFFER_SIZE blocks
WinLenNoCap(rem) == rem

\* data_c2b_length of castle_object_write_next_cdb / _write_buffer_alloc:
\* the window holds the rest of the value, at most WindowBytes of it
WinLen(rem) == IF rem > WindowBytes THEN WindowBytes ELSE rem

\* Mutant: the next window advances by the window's bytes, not its blocks
NextCdbBytes(cdb, rem) == cdb + WindowBytes

\* castle_object_write_next_cdb(call, old_cdb, data_length)
NextCdb(cdb, rem) == cdb + NrBlocks(WinLen(rem))

\* castle_freespace_block_get(version, nr): any free contiguous extent
FreeBases(nr) == {b \in Blocks : Extent(b, nr) \subseteq Blocks \ used}

\* dirty_c2b + unlock_c2b of the writer's window, n bytes of it filled
\* from value index first on
Release(cdb, n, first) ==
  [a \in Addrs |-> IF a - cdb * C_BLK_SIZE \in 0 .. n - 1
                   THEN <<wCvt.put, first + a - cdb * C_BLK_SIZE>>
                   ELSE store[a]]

\* castle_object_replace_complete for an on-disk cvt: write_buffer_alloc
\* locks the first window at cvt.cdb (once no get holds that c2b) and
\* data_write takes the first frame, p bytes of the value.
ReplaceComplete(c, p) ==
  /\ wCvt' = c
  /\ wCdb' = c.cdb /\ wNr' = NrBlocks(WinLen(c.len)) /\ wOff' = 0
  /\ wRem' = c.len /\ pkt' = p /\ wSt' = "copy"

\* Mutant: only an on-disk replacement frees the old value's extent
ReplaceNoFreeInline(tomb, len) ==
  /\ wSt = "idle" /\ puts < MaxPuts
  /\ puts' = puts + 1
  /\ rClean' = FALSE
  /\ \/ /\ tomb \/ len <= MAX_INLINE_VAL_SIZE
        /\ cvt' = [type |-> IF tomb THEN "tomb" ELSE "inline",
                   len |-> IF tomb THEN 0 ELSE len, cdb |-> 0, put |-> puts + 1]
        /\ UNCHANGED <<used, wVars>>
     \/ /\ ~tomb /\ len > MAX_INLINE_VAL_SIZE
        /\ \E b \in FreeBases(NrBlocks(len)), p \in 1 .. Min2(FrameMax, len) :
             LET c == [type |-> "ondisk", len |-> len, cdb |-> b, put |-> puts + 1]
             IN /\ <<b, NrBlocks(WinLen(len))>> # rHeld
                /\ cvt' = c
                /\ used' = (used \cup Extent(b, NrBlocks(len))) \ CvtExtent(cvt)
                /\ ReplaceComplete(c, p)
  /\ UNCHANGED <<store, gets, rVars>>

\* castle_object_replace; the B-tree walk calls replace_cvt_get, which
\* builds the new cvt (tombstone, inline or a fresh extent) and frees the
\* old value's extent, and makes it current; its endfind is
\* castle_object_replace_complete, which for an on-disk value allocates the
\* first window at cvt.cdb and enters data_write with the first frame.
Replace(tomb, len) ==
  /\ wSt = "idle" /\ puts < MaxPuts
  /\ puts' = puts + 1
  /\ rClean' = FALSE
  /\ \/ /\ tomb \/ len <= MAX_INLINE_VAL_SIZE
        /\ cvt' = [type |-> IF tomb THEN "tomb" ELSE "inline",
                   len |-> IF tomb THEN 0 ELSE len, cdb |-> 0, put |-> puts + 1]
        /\ used' = used \ CvtExtent(cvt)
        /\ UNCHANGED wVars
     \/ /\ ~tomb /\ len > MAX_INLINE_VAL_SIZE
        /\ \E b \in FreeBases(NrBlocks(len)), p \in 1 .. Min2(FrameMax, len) :
             LET c == [type |-> "ondisk", len |-> len, cdb |-> b, put |-> puts + 1]
             IN /\ <<b, NrBlocks(WinLen(len))>> # rHeld
                /\ cvt' = c
                /\ used' = (used \cup Extent(b, NrBlocks(len))) \ CvtExtent(cvt)
                /\ ReplaceComplete(c, p)
  /\ UNCHANGED <<store, gets, rVars>>

\* One pass of the do-while loop of castle_object_data_write: copy what fits
\* of the frame into the window; when the window is full and more is to
\* come, release it and take the next one at write_next_cdb.  Leaving the
\* loop with the value complete, the caller (replace_complete or
\* replace_continue with last) releases the window and completes the call;
\* otherwise it asks the client for the next frame.  write_buffer_alloc
\* locks the next window before the old one is unlocked, and waits while
\* a get holds that c2b.
WriteCopy ==
  /\ wSt = "copy"
  /\ LET k     == Min2(Min2(wNr * C_BLK_SIZE - wOff, pkt), wRem)
         off   == wOff + k
         rem   == wRem - k
         left  == pkt - k
         first == wCvt.len - wRem - wOff
         full  == off = wNr * C_BLK_SIZE /\ rem > 0
     IN /\ full => <<NextCdb(wCdb, rem), NrBlocks(WinLen(rem))>> # rHeld
        /\ store' = IF full \/ rem = 0 THEN Release(wCdb, off, first) ELSE store
        /\ IF full
           THEN /\ wCdb' = NextCdb(wCdb, rem) /\ wNr' = NrBlocks(WinLen(rem))
                /\ wOff' = 0
           ELSE wOff' = off /\ UNCHANGED <<wCdb, wNr>>
        /\ wRem' = rem
        /\ IF left > 0 /\ rem > 0
           THEN pkt' = left /\ wSt' = "copy"
           ELSE pkt' = 0 /\ wSt' = IF rem = 0 THEN "idle" ELSE "await"
  /\ UNCHANGED <<used, cvt, puts, gets, wCvt, rVars, rClean>>

\* castle_object_replace_continue: the client's next frame enters data_write
ReplaceContinue ==
  /\ wSt = "await"
  /\ \E p \in 1 .. Min2(FrameMax, wRem) : pkt' = p
  /\ wSt' = "copy"
  /\ UNCHANGED <<store, used, cvt, puts, gets, wCvt, wCdb, wNr, wOff, wRem,
                 rVars, rClean>>

-----------------------------------------------------------------------------
(* Get: castle_object_get .. __castle_object_get_complete.                 *)

ReadByte(a) == IF a \in Addrs THEN store[a] ELSE JUNK

\* Mutant: the last window's length is rounded up to whole blocks
GetContinueWholeBlocks(cdb, rem) ==
  LET nr == Min2(NrBlocks(rem), OBJ_IO_MAX_BUFFER_SIZE)
  IN /\ rCdb' = cdb
     /\ rLen' = nr * C_BLK_SIZE
     /\ rRem' = IF rem > rLen' THEN rem - rLen' ELSE 0
     /\ rPinned' = Extent(cdb, nr)
     /\ rSt' = "locking"
     /\ UNCHANGED rHeld

\* castle_object_get_continue(c_bvec, call, cdb, data_length) up to its
\* lock_c2b: get (pin) a window of the rest, at most
\* OBJ_IO_MAX_BUFFER_SIZE blocks; the previous window stays locked.
GetContinue(cdb, rem) ==
  LET nr == NrBlocks(rem)
  IN /\ rCdb' = cdb
     /\ rLen' = IF nr > OBJ_IO_MAX_BUFFER_SIZE THEN WindowBytes ELSE rem
     /\ rRem' = rem - rLen'
     /\ rPinned' = Extent(cdb, Min2(nr, OBJ_IO_MAX_BUFFER_SIZE))
     /\ rSt' = "locking"
     /\ UNCHANGED rHeld

\* The c2b get_continue pinned: rLen bytes' worth of blocks at rCdb.
RWant == <<rCdb, NrBlocks(rLen)>>

\* lock_c2b(c2b) of get_continue returns once the writer does not hold
\* the c2b; then the previous window is unlocked and put.
GetLock ==
  /\ rSt = "locking"
  /\ RWant # WHeld
  /\ rHeld' = RWant /\ rSt' = "pinned"
  /\ UNCHANGED <<store, used, cvt, puts, gets, wVars, rIoOk, rCvt, rCdb, rLen,
                 rRem, rPinned, delivered, rResult, rClean>>

\* Mutant: the next window is taken WindowBytes blocks on (bytes for blocks)
DeliverBytesStride ==
  /\ delivered' = delivered \o
       [k \in 1 .. rLen |-> ReadByte(rCdb * C_BLK_SIZE + k - 1)]
  /\ IF rRem = 0
     THEN rSt' = "done" /\ rResult' = "ok" /\ rPinned' = {} /\ rHeld' = NoC2b
          /\ UNCHANGED <<rCdb, rLen, rRem>>
     ELSE GetContinue(rCdb + WindowBytes, rRem)
          /\ UNCHANGED rResult

\* __castle_object_get_complete on an up-to-date window: reply its bytes;
\* if the value is done, unlock and put the window, else continue at the
\* window OBJ_IO_MAX_BUFFER_SIZE blocks on.
Deliver ==
  /\ delivered' = delivered \o
       [k \in 1 .. rLen |-> ReadByte(rCdb * C_BLK_SIZE + k - 1)]
  /\ IF rRem = 0
     THEN rSt' = "done" /\ rResult' = "ok" /\ rPinned' = {} /\ rHeld' = NoC2b
          /\ UNCHANGED <<rCdb, rLen, rRem>>
     ELSE GetContinue(rCdb + OBJ_IO_MAX_BUFFER_SIZE, rRem)
          /\ UNCHANGED rResult

\* castle_object_get; its endfind castle_object_get_complete replies
\* "not found" for no value or a tombstone, the bytes of an inline value,
\* and streams an on-disk value from get_continue(cvt.cdb, cvt.len).
Get ==
  /\ rSt \in {"idle", "done"} /\ gets < MaxGets
  /\ gets' = gets + 1
  /\ rCvt' = cvt
  /\ rClean' = (wSt = "idle")
  /\ CASE cvt.type \in {"none", "tomb"} ->
            /\ rSt' = "done" /\ rResult' = "notfound" /\ delivered' = <<>>
            /\ UNCHANGED <<rCdb, rLen, rRem, rPinned, rHeld>>
       [] cvt.type = "inline" ->
            /\ rSt' = "done" /\ rResult' = "ok" /\ delivered' = Value(cvt)
            /\ UNCHANGED <<rCdb, rLen, rRem, rPinned, rHeld>>
       [] OTHER ->
            /\ GetContinue(cvt.cdb, cvt.len)
            /\ rResult' = "none" /\ delivered' = <<>>
  /\ UNCHANGED <<store, used, cvt, puts, wVars, rIoOk>>

\* get_continue finds the window up to date and completes it at once
GetCached ==
  /\ rSt = "pinned"
  /\ Deliver
  /\ UNCHANGED <<store, used, cvt, puts, gets, wVars, rIoOk, rCvt, rClean>>

\* get_continue finds the window not up to date: submit_c2b(READ, c2b);
\* the block layer will end the read with uptodate set or not.
GetSubmit(ok) ==
  /\ rSt = "pinned"
  /\ rSt' = "io" /\ rIoOk' = ok
  /\ UNCHANGED <<store, used, cvt, puts, gets, wVars, rCvt, rCdb, rLen, rRem,
                 rPinned, rHeld, delivered, rResult, rClean>>

\* Mutant: the I/O-error path never queues the completion work
GetIoEndNoError ==
  /\ rSt = "io"
  /\ rIoOk
  /\ Deliver
  /\ UNCHANGED <<store, used, cvt, puts, gets, wVars, rIoOk, rCvt, rClean>>

\* castle_object_get_io_end, then __castle_object_get_complete on the work
\* queue: an I/O error replies -EIO and unlocks and puts the window.
GetIoEnd ==
  /\ rSt = "io"
  /\ IF rIoOk
     THEN Deliver
     ELSE /\ rSt' = "done" /\ rResult' = "eio" /\ rPinned' = {} /\ rHeld' = NoC2b
          /\ UNCHANGED <<rCdb, rLen, rRem, delivered>>
  /\ UNCHANGED <<store, used, cvt, puts, gets, wVars, rIoOk, rCvt, rClean>>

Next ==
  \/ \E tomb \in BOOLEAN, len \in Lengths : Replace(tomb, len)
  \/ WriteCopy
  \/ ReplaceContinue
  \/ Get
  \/ GetLock
  \/ GetCached
  \/ \E ok \in BOOLEAN : GetSubmit(ok)
  \/ GetIoEnd

\* The work queue runs the handlers, the block layer ends every read it was
\* given, and the client goes on sending the frames of a replace it started.
Fairness ==
  /\ WF_vars(WriteCopy)
  /\ WF_vars(ReplaceContinue)
  /\ WF_vars(GetLock)
  /\ WF_vars(GetCached \/ \E ok \in BOOLEAN : GetSubmit(ok))
  /\ WF_vars(GetIoEnd)

Spec == Init /\ [][Next]_vars
FairSpec == Spec /\ Fairness

-----------------------------------------------------------------------------
(* Properties.                                                             *)

\* The windows data_write fills and releases lie inside the extent the
\* allocator gave this value (write_next_cdb / write_buffer_alloc never
\* reach into blocks of another value or of free space).
WriteWithinExtent ==
  wSt # "idle" => Extent(wCdb, wNr) \subseteq CvtExtent(wCvt)

\* The windows get_continue locks lie inside the extent of the value it
\* found.
ReadWithinExtent ==
  rSt \in {"locking", "pinned", "io"} => rPinned \subseteq CvtExtent(rCvt)

\* A get that succeeds replies exactly as many bytes as the value it found
\* has: the windows of get_continue add up to cvt.length.
ReplyLengthExact ==
  rResult = "ok" => Len(delivered) = rCvt.len

\* The allocator's blocks are exactly those of the key's current value:
\* replace_cvt_get frees the extent of the value it replaces.
NoBlockLeak == used = CvtExtent(cvt)

\* Every get that starts ends with a reply, whatever the cache and the
\* block layer do (the get_continue / get_complete recursion terminates).
GetTerminates == rSt \in {"locking", "pinned", "io"} ~> rSt = "done"

\* P6: replace then get returns the written bytes.  A get that found an
\* on-disk value with no replace in progress or started meanwhile replies
\* the value that replace streamed, byte for byte.
GetReturnsValue == (rResult = "ok" /\ rClean) => delivered = Value(rCvt)

\* Replace is atomic (spec 4.3): whatever runs concurrently, a get replies
\* the bytes of the value whose cvt it found.
GetAtomic == rResult = "ok" => delivered = Value(rCvt)

====
