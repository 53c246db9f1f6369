--------------------------- MODULE ObjectIOProofs ---------------------------
(***************************************************************************)
(* Proofs about castle_objects.c's replace and get, for every block size,  *)
(* window, inline limit, set of lengths and disk size ObjectIOAssumption  *)
(* allows.                                                                 *)
(***************************************************************************)
EXTENDS ObjectIO, FiniteSetTheorems, TLAPS

USE ObjectIOAssumption

-----------------------------------------------------------------------------
(* The allocator's blocks                                                  *)

\* The only step that touches the allocator or the cvt is a replace.
LEMMA OthersKeepCvt ==
  ASSUME [Next]_vars, ~\E tomb \in BOOLEAN, len \in Lengths : Replace(tomb, len)
  PROVE  UNCHANGED <<used, cvt>>
BY DEF Next, vars, WriteCopy, ReplaceContinue, Get, GetCached, GetSubmit,
       GetIoEnd, Deliver, GetContinue, GetLock

\* replace_cvt_get, for an inline value or a tombstone, frees the old
\* extent and takes none; for an on-disk value it takes a free extent and
\* frees the old one, which the new extent cannot overlap.
LEMMA ReplaceNoLeak ==
  ASSUME NoBlockLeak, NEW tomb \in BOOLEAN, NEW len \in Lengths,
         Replace(tomb, len)
  PROVE  NoBlockLeak'
<1>1. CASE /\ tomb \/ len <= MAX_INLINE_VAL_SIZE
           /\ cvt' = [type |-> IF tomb THEN "tomb" ELSE "inline",
                      len |-> IF tomb THEN 0 ELSE len, cdb |-> 0, put |-> puts + 1]
           /\ used' = used \ CvtExtent(cvt)
  <2>1. used' = {} BY <1>1 DEF NoBlockLeak
  <2>2. CvtExtent(cvt') = {} BY <1>1 DEF CvtExtent
  <2> QED BY <2>1, <2>2 DEF NoBlockLeak
<1>2. CASE \E b \in FreeBases(NrBlocks(len)) :
             LET c == [type |-> "ondisk", len |-> len, cdb |-> b, put |-> puts + 1]
             IN /\ cvt' = c
                /\ used' = (used \cup Extent(b, NrBlocks(len))) \ CvtExtent(cvt)
  <2>1. PICK b \in FreeBases(NrBlocks(len)) :
           /\ cvt' = [type |-> "ondisk", len |-> len, cdb |-> b, put |-> puts + 1]
           /\ used' = (used \cup Extent(b, NrBlocks(len))) \ CvtExtent(cvt)
    BY <1>2
  <2>2. Extent(b, NrBlocks(len)) \cap used = {} BY DEF FreeBases
  <2>3. used' = Extent(b, NrBlocks(len)) BY <2>1, <2>2 DEF NoBlockLeak
  <2>4. CvtExtent(cvt') = Extent(b, NrBlocks(len)) BY <2>1 DEF CvtExtent
  <2> QED BY <2>3, <2>4 DEF NoBlockLeak
<1> QED BY <1>1, <1>2 DEF Replace, ReplaceComplete

\* The allocator holds exactly the blocks of the key's current value, for
\* every disk size and every order of replaces: replace_cvt_get neither
\* leaks the old value's extent nor frees one still in use.
THEOREM NoLeak == Spec => []NoBlockLeak
<1>1. Init => NoBlockLeak BY DEF Init, NoBlockLeak, NoCvt, CvtExtent
<1>2. NoBlockLeak /\ [Next]_vars => NoBlockLeak'
  <2> SUFFICES ASSUME NoBlockLeak, [Next]_vars PROVE NoBlockLeak' OBVIOUS
  <2>1. CASE \E tomb \in BOOLEAN, len \in Lengths : Replace(tomb, len)
    BY <2>1, ReplaceNoLeak
  <2>2. CASE ~\E tomb \in BOOLEAN, len \in Lengths : Replace(tomb, len)
    BY <2>2, OthersKeepCvt DEF NoBlockLeak
  <2> QED BY <2>1, <2>2
<1> QED BY <1>1, <1>2, PTL DEF Spec

-----------------------------------------------------------------------------
(* The length of a get's reply                                             *)

\* Bytes as the model builds them: pairs of integers (JUNK is <<0, 0>>).
Bytes == Int \X Int

(* ReplyLengthExact is not inductive: while a get streams, the reply so    *)
(* far, the window it holds and the rest still to read add up to the       *)
(* value's length, and its result stays "none" until the last window.      *)
(* The counts are integers and the reply a sequence of bytes, which needs *)
(* the cache's contents and the writer's counters to be integers.          *)
RInv ==
  /\ store \in [Addrs -> Bytes]
  /\ puts \in Nat /\ cvt.len \in Nat /\ cvt.put \in Int /\ cvt.cdb \in Int
  /\ cvt.type \in CvtTypes
  /\ wCvt.len \in Int /\ wCvt.put \in Int
  /\ wCdb \in Int /\ wNr \in Int /\ wOff \in Int /\ wRem \in Int /\ pkt \in Int
  /\ rCvt.len \in Nat /\ rCdb \in Int /\ rLen \in Nat /\ rRem \in Nat
  /\ delivered \in Seq(Bytes)
  /\ rSt \in {"locking", "pinned", "io"} =>
       /\ rResult = "none"
       /\ Len(delivered) + (rLen + rRem) = rCvt.len
  /\ rResult = "ok" => Len(delivered) = rCvt.len

\* When the rest of the value spans more than a window, it holds at least
\* a window's bytes: (rem - 1) / C_BLK_SIZE + 1 > OBJ_IO_MAX_BUFFER_SIZE.
LEMMA WindowFits ==
  ASSUME NEW rem \in Nat, NrBlocks(rem) > OBJ_IO_MAX_BUFFER_SIZE
  PROVE  WindowBytes <= rem
<1> DEFINE q == (rem - 1) \div C_BLK_SIZE
<1>1. q >= OBJ_IO_MAX_BUFFER_SIZE BY DEF NrBlocks
<1>2. q * C_BLK_SIZE <= rem - 1 OBVIOUS
<1>3. OBJ_IO_MAX_BUFFER_SIZE * C_BLK_SIZE <= q * C_BLK_SIZE BY <1>1
<1> QED BY <1>2, <1>3 DEF WindowBytes

\* get_continue splits the rest of the value into the window it locks and
\* what remains after it.
LEMMA GetContinueSplit ==
  ASSUME NEW cdb \in Int, NEW rem \in Nat, GetContinue(cdb, rem)
  PROVE  /\ rLen' \in Nat /\ rRem' \in Nat /\ rCdb' \in Int
         /\ rLen' + rRem' = rem /\ rSt' = "locking"
         /\ rCdb' = cdb
         /\ rPinned' = Extent(cdb, Min2(NrBlocks(rem), OBJ_IO_MAX_BUFFER_SIZE))
         /\ rRem' > 0 => rLen' = WindowBytes
<1>1. CASE NrBlocks(rem) > OBJ_IO_MAX_BUFFER_SIZE
  <2>1. WindowBytes <= rem /\ WindowBytes \in Nat BY <1>1, WindowFits DEF WindowBytes
  <2> QED BY <1>1, <2>1 DEF GetContinue
<1>2. CASE ~(NrBlocks(rem) > OBJ_IO_MAX_BUFFER_SIZE)
  BY <1>2 DEF GetContinue
<1> QED BY <1>1, <1>2

\* The conjuncts of RInv about the get alone.
RGet ==
  /\ rCvt.len \in Nat /\ rCdb \in Int /\ rLen \in Nat /\ rRem \in Nat
  /\ delivered \in Seq(Bytes)
  /\ rSt \in {"locking", "pinned", "io"} =>
       /\ rResult = "none"
       /\ Len(delivered) + (rLen + rRem) = rCvt.len
  /\ rResult = "ok" => Len(delivered) = rCvt.len

\* The conjuncts about the cache and the writer.
RPut ==
  /\ store \in [Addrs -> Bytes]
  /\ puts \in Nat /\ cvt.len \in Nat /\ cvt.put \in Int /\ cvt.cdb \in Int
  /\ cvt.type \in CvtTypes
  /\ wCvt.len \in Int /\ wCvt.put \in Int
  /\ wCdb \in Int /\ wNr \in Int /\ wOff \in Int /\ wRem \in Int /\ pkt \in Int

LEMMA RInvSplit == (RInv <=> RPut /\ RGet) /\ (RInv' <=> RPut' /\ RGet')
BY DEF RInv, RPut, RGet

LEMMA InitRInv == Init => RInv
<1> SUFFICES ASSUME Init PROVE RPut /\ RGet BY RInvSplit
<1>1. JUNK \in Bytes BY DEF JUNK, Bytes
<1>2. RPut BY <1>1 DEF Init, RPut, NoCvt, CvtTypes
<1>3. RGet BY DEF Init, RGet, NoCvt
<1> QED BY <1>2, <1>3

\* A replace, a pass of data_write or the next frame leave the get alone and
\* keep the cache's bytes and the writer's counters integers.
LEMMA ReplaceRPut ==
  ASSUME RPut, NEW tomb \in BOOLEAN, NEW len \in Lengths, Replace(tomb, len)
  PROVE  RPut'
<1>1. len \in Nat OBVIOUS
<1>2. CASE /\ cvt' = [type |-> IF tomb THEN "tomb" ELSE "inline",
                      len |-> IF tomb THEN 0 ELSE len, cdb |-> 0, put |-> puts + 1]
           /\ UNCHANGED wVars
  <2>1. cvt'.len \in Nat /\ cvt'.put \in Int BY <1>1, <1>2 DEF RPut
  <2> QED BY <1>2, <2>1 DEF Replace, RPut, wVars, CvtTypes
<1>3. CASE \E b \in FreeBases(NrBlocks(len)), p \in 1 .. Min2(FrameMax, len) :
             LET c == [type |-> "ondisk", len |-> len, cdb |-> b, put |-> puts + 1]
             IN /\ cvt' = c /\ ReplaceComplete(c, p)
  <2>1. PICK b \in FreeBases(NrBlocks(len)), p \in 1 .. Min2(FrameMax, len) :
           LET c == [type |-> "ondisk", len |-> len, cdb |-> b, put |-> puts + 1]
           IN /\ cvt' = c /\ ReplaceComplete(c, p)
    BY <1>3
  <2>2. b \in Int BY DEF FreeBases, Blocks
  <2>3. NrBlocks(WinLen(len)) \in Int BY <1>1 DEF NrBlocks, WinLen, WindowBytes
  <2>4. p \in Int BY DEF Min2
  <2> QED BY <1>1, <2>1, <2>2, <2>3, <2>4 DEF Replace, ReplaceComplete, RPut, CvtTypes
<1> QED BY <1>2, <1>3 DEF Replace

LEMMA WriteCopyRPut == RPut /\ WriteCopy => RPut'
<1> SUFFICES ASSUME RPut, WriteCopy PROVE RPut' OBVIOUS
<1> DEFINE k     == Min2(Min2(wNr * C_BLK_SIZE - wOff, pkt), wRem)
           off   == wOff + k
           rem   == wRem - k
           first == wCvt.len - wRem - wOff
<1>1. k \in Int /\ off \in Int /\ rem \in Int /\ first \in Int
  BY DEF RPut, Min2
<1>2. Release(wCdb, off, first) \in [Addrs -> Bytes]
  BY <1>1 DEF Release, RPut, Bytes
<1>3. store' \in [Addrs -> Bytes] BY <1>2 DEF WriteCopy, RPut
<1>4. NextCdb(wCdb, rem) \in Int /\ NrBlocks(WinLen(rem)) \in Int
  BY <1>1 DEF RPut, NextCdb, NrBlocks, WinLen, WindowBytes
<1>5. wCdb' \in Int /\ wNr' \in Int /\ wOff' \in Int /\ wRem' \in Int /\ pkt' \in Int
  BY <1>1, <1>4 DEF WriteCopy, RPut
<1> QED BY <1>3, <1>5 DEF WriteCopy, RPut

LEMMA ReplaceContinueRPut == RPut /\ ReplaceContinue => RPut'
BY DEF ReplaceContinue, RPut, Min2

\* The steps of the writer leave the get's state alone.
LEMMA WriterKeepsRGet ==
  ASSUME RGet, UNCHANGED rVars
  PROVE  RGet'
BY DEF RGet, rVars

\* The reply grows by the window's rLen bytes, each a byte of the cache.
LEMMA DeliverLen ==
  ASSUME RPut, RGet, Deliver
  PROVE  delivered' \in Seq(Bytes) /\ Len(delivered') = Len(delivered) + rLen
<1> DEFINE w == [k \in 1 .. rLen |-> ReadByte(rCdb * C_BLK_SIZE + k - 1)]
<1>1. w \in Seq(Bytes) /\ Len(w) = rLen
  <2>1. \A a : ReadByte(a) \in Bytes BY DEF ReadByte, RPut, JUNK, Bytes
  <2> QED BY <2>1 DEF RGet
<1> QED BY <1>1 DEF Deliver, RGet

\* __castle_object_get_complete replies the window's rLen bytes; after the
\* last window the reply is the whole value, otherwise get_continue takes
\* the next window of the rest.
LEMMA DeliverRGet ==
  ASSUME RPut, RGet, rSt \in {"locking", "pinned", "io"}, Deliver, UNCHANGED rCvt
  PROVE  RGet'
<1> DEFINE w == [k \in 1 .. rLen |-> ReadByte(rCdb * C_BLK_SIZE + k - 1)]
<1>1. w \in Seq(Bytes) /\ Len(w) = rLen
  <2>1. \A a : ReadByte(a) \in Bytes BY DEF ReadByte, RPut, JUNK, Bytes
  <2> QED BY <2>1 DEF RGet
<1>2. delivered' \in Seq(Bytes) BY <1>1 DEF Deliver, RGet
<1>5. Len(delivered') = Len(delivered) + rLen BY <1>1 DEF Deliver, RGet
<1>3. CASE rRem = 0
  <2>1. rSt' = "done" /\ rResult' = "ok" /\ UNCHANGED <<rCdb, rLen, rRem>>
    BY <1>3 DEF Deliver
  <2>2. Len(delivered') = rCvt'.len BY <1>3, <1>5 DEF RGet
  <2> QED BY <1>2, <1>3, <2>1, <2>2 DEF RGet
<1>4. CASE rRem # 0
  <2>1. GetContinue(rCdb + OBJ_IO_MAX_BUFFER_SIZE, rRem) /\ UNCHANGED rResult
    BY <1>4 DEF Deliver
  <2>2. /\ rLen' \in Nat /\ rRem' \in Nat /\ rCdb' \in Int
        /\ rLen' + rRem' = rRem /\ rSt' = "locking"
    BY <2>1, GetContinueSplit DEF RGet
  <2>3. rResult' = "none" /\ rResult = "none" BY <2>1 DEF RGet
  <2>4. Len(delivered') + (rLen' + rRem') = rCvt'.len
    <3>1. Len(delivered) + (rLen + rRem) = rCvt.len BY DEF RGet
    <3>2. Len(delivered) \in Nat BY DEF RGet
    <3>3. rLen \in Nat /\ rRem \in Nat BY DEF RGet
    <3>4. rCvt' = rCvt OBVIOUS
    <3>5. rCvt'.len = rCvt.len BY <3>4
    <3>6. rLen' + rRem' = rRem /\ rLen' \in Nat /\ rRem' \in Nat BY <2>2
    <3>7. Len(delivered') \in Nat BY <1>2
    <3> DEFINE n1 == Len(delivered)  n2 == Len(delivered')
               l1 == rCvt.len  l2 == rCvt'.len
               a1 == rLen  b1 == rRem  a2 == rLen'  b2 == rRem'
    <3>8. /\ n2 = n1 + a1 /\ n1 + (a1 + b1) = l1 /\ l2 = l1
          /\ a2 + b2 = b1
          /\ n1 \in Nat /\ n2 \in Nat /\ a1 \in Nat /\ b1 \in Nat
          /\ a2 \in Nat /\ b2 \in Nat
      BY <1>5, <3>1, <3>2, <3>3, <3>5, <3>6, <3>7
    <3> HIDE DEF w, n1, n2, l1, l2, a1, b1, a2, b2
    <3>9. n2 + (a2 + b2) = l2 BY <3>8
    <3> QED BY <3>9, Zenon DEF n2, a2, b2, l2
  <2>5. rCvt'.len \in Nat BY DEF RGet
  <2> QED BY <1>2, <2>2, <2>3, <2>4, <2>5 DEF RGet
<1> QED BY <1>3, <1>4

LEMMA GetRGet ==
  ASSUME RPut, RGet, Get
  PROVE  RGet'
<1>1. rCvt' = cvt BY DEF Get
<1>2. CASE cvt.type \in {"none", "tomb"}
  <2>1. rSt' = "done" /\ rResult' = "notfound" /\ delivered' = <<>>
        /\ UNCHANGED <<rCdb, rLen, rRem>>
    BY <1>2 DEF Get
  <2>2. << >> \in Seq(Bytes) OBVIOUS
  <2>3. rCvt'.len \in Nat BY <1>1 DEF RPut
  <2> QED BY <2>1, <2>2, <2>3 DEF RGet
<1>3. CASE cvt.type = "inline"
  <2>1. delivered' = Value(cvt) /\ rSt' = "done" /\ UNCHANGED <<rCdb, rLen, rRem>>
    BY <1>3 DEF Get
  <2>2. Value(cvt) \in Seq(Bytes) /\ Len(Value(cvt)) = cvt.len
    <3>1. cvt.len \in Nat /\ cvt.put \in Int BY DEF RPut
    <3>2. Value(cvt) \in [1 .. cvt.len -> Bytes] BY <3>1 DEF Value, Bytes
    <3> QED BY <3>1, <3>2
  <2> QED BY <1>1, <2>1, <2>2 DEF RGet, RPut
<1>4. CASE cvt.type \notin {"none", "tomb", "inline"}
  <2>1. GetContinue(cvt.cdb, cvt.len) /\ rResult' = "none" /\ delivered' = <<>>
    BY <1>4 DEF Get
  <2>2. cvt.cdb \in Int BY DEF RPut
  <2>3. /\ rLen' \in Nat /\ rRem' \in Nat /\ rCdb' \in Int
        /\ rLen' + rRem' = cvt.len /\ rSt' = "locking"
    BY <2>1, <2>2, GetContinueSplit DEF RPut
  <2> QED BY <1>1, <2>1, <2>3 DEF RGet, RPut
<1> QED BY <1>2, <1>3, <1>4

\* Every step keeps RInv: the writer's steps keep RPut and leave the get
\* alone, the get's steps leave the cache and the writer alone.
LEMMA NextRInv == RInv /\ [Next]_vars => RInv'
<1> SUFFICES ASSUME RPut, RGet, [Next]_vars PROVE RPut' /\ RGet'
  BY RInvSplit
<1>1. CASE \E tomb \in BOOLEAN, len \in Lengths : Replace(tomb, len)
  <2>1. UNCHANGED rVars BY <1>1 DEF Replace
  <2> QED BY <1>1, <2>1, ReplaceRPut, WriterKeepsRGet
<1>2. CASE WriteCopy
  <2>1. UNCHANGED rVars BY <1>2 DEF WriteCopy
  <2> QED BY <1>2, <2>1, WriteCopyRPut, WriterKeepsRGet
<1>3. CASE ReplaceContinue
  <2>1. UNCHANGED rVars BY <1>3 DEF ReplaceContinue
  <2> QED BY <1>3, <2>1, ReplaceContinueRPut, WriterKeepsRGet
<1>4. CASE Get \/ GetCached \/ (\E ok \in BOOLEAN : GetSubmit(ok)) \/ GetIoEnd
  <2>1. UNCHANGED <<store, puts, cvt, wVars>>
    BY <1>4 DEF Get, GetCached, GetSubmit, GetIoEnd
  <2>2. RPut' BY <2>1 DEF RPut, wVars
  <2>3. ASSUME Get PROVE RGet' BY <2>3, GetRGet
  <2>4. ASSUME GetCached PROVE RGet' BY <2>4, DeliverRGet DEF GetCached
  <2>5. ASSUME NEW ok \in BOOLEAN, GetSubmit(ok) PROVE RGet'
    BY <2>5 DEF GetSubmit, RGet
  <2>6. ASSUME GetIoEnd PROVE RGet'
    <3>1. CASE rIoOk BY <2>6, <3>1, DeliverRGet DEF GetIoEnd
    <3>2. CASE ~rIoOk
      <4>1. rSt' = "done" /\ rResult' = "eio" /\ UNCHANGED <<rCdb, rLen, rRem, delivered, rCvt>>
        BY <2>6, <3>2 DEF GetIoEnd
      <4> QED BY <4>1 DEF RGet
    <3> QED BY <3>1, <3>2
  <2> QED BY <1>4, <2>2, <2>3, <2>4, <2>5, <2>6
<1>5. CASE UNCHANGED vars BY <1>5 DEF vars, RPut, RGet
<1>6. CASE GetLock
  <2>1. /\ UNCHANGED <<store, puts, cvt, wVars, rCdb, rLen, rRem, delivered,
                      rResult, rCvt>>
        /\ rSt = "locking" /\ rSt' = "pinned"
    BY <1>6 DEF GetLock
  <2> QED BY <2>1 DEF RPut, RGet, wVars
<1> QED BY <1>1, <1>2, <1>3, <1>4, <1>5, <1>6 DEF Next

\* A get that succeeds replies exactly as many bytes as the value it found
\* has, for every block size, window and value length: the windows
\* get_continue takes add up to cvt.length, however a replace interleaves.
THEOREM ReplyLength == Spec => []ReplyLengthExact
<1>1. Init => RInv BY InitRInv
<1>2. RInv /\ [Next]_vars => RInv' BY NextRInv
<1>3. RInv => ReplyLengthExact BY DEF RInv, ReplyLengthExact
<1> QED BY <1>1, <1>2, <1>3, PTL DEF Spec

-----------------------------------------------------------------------------
(* The windows a get locks                                                 *)

(* ReadWithinExtent is not inductive: the window get_continue locks lies  *)
(* inside the value's extent because the get has walked a whole number j  *)
(* of full windows, j * OBJ_IO_MAX_BUFFER_SIZE blocks from cvt.cdb, while *)
(* replying j windows' bytes, and the window it holds covers the rest of  *)
(* the value, cut at OBJ_IO_MAX_BUFFER_SIZE blocks.  A window that leaves *)
(* a rest is a full one.                                                   *)
RX ==
  /\ rCvt.cdb \in Int
  /\ rSt \in {"locking", "pinned", "io"} =>
       /\ rCvt.type = "ondisk"
       /\ \E j \in Nat : /\ rCdb = rCvt.cdb + j * OBJ_IO_MAX_BUFFER_SIZE
                         /\ Len(delivered) = j * WindowBytes
       /\ rPinned = Extent(rCdb, Min2(NrBlocks(rLen + rRem), OBJ_IO_MAX_BUFFER_SIZE))
       /\ rRem > 0 => rLen = WindowBytes

\* Integer division by the block size, as the C code's unsigned division
\* of nonnegative counts: the quotient is the unique q with
\* q * C_BLK_SIZE <= x < (q + 1) * C_BLK_SIZE.
LEMMA DivBounds ==
  ASSUME NEW x \in Int
  PROVE  /\ x \div C_BLK_SIZE \in Int
         /\ (x \div C_BLK_SIZE) * C_BLK_SIZE <= x
         /\ x < (x \div C_BLK_SIZE) * C_BLK_SIZE + C_BLK_SIZE
OBVIOUS

LEMMA MulMono ==
  ASSUME NEW m \in Int, NEW n \in Int, m < n
  PROVE  m * C_BLK_SIZE + C_BLK_SIZE <= n * C_BLK_SIZE
<1>1. (n - m - 1) * C_BLK_SIZE \in Nat OBVIOUS
<1>2. n * C_BLK_SIZE = (m + 1) * C_BLK_SIZE + (n - m - 1) * C_BLK_SIZE OBVIOUS
<1> QED BY <1>1, <1>2

LEMMA DivUnique ==
  ASSUME NEW y \in Int, NEW m \in Int, NEW n \in Int,
         m * C_BLK_SIZE <= y, y < m * C_BLK_SIZE + C_BLK_SIZE,
         n * C_BLK_SIZE <= y, y < n * C_BLK_SIZE + C_BLK_SIZE
  PROVE  m = n
<1>1. ASSUME m < n PROVE FALSE
  <2>1. m * C_BLK_SIZE + C_BLK_SIZE <= n * C_BLK_SIZE BY <1>1, MulMono
  <2> QED BY <2>1
<1>2. ASSUME n < m PROVE FALSE
  <2>1. n * C_BLK_SIZE + C_BLK_SIZE <= m * C_BLK_SIZE BY <1>2, MulMono
  <2> QED BY <2>1
<1> QED BY <1>1, <1>2

\* Whole blocks in front of x bytes shift the quotient by their number.
LEMMA DivShift ==
  ASSUME NEW a \in Int, NEW x \in Int
  PROVE  (a * C_BLK_SIZE + x) \div C_BLK_SIZE = a + x \div C_BLK_SIZE
<1> DEFINE q == x \div C_BLK_SIZE  y == a * C_BLK_SIZE + x
<1> SUFFICES y \div C_BLK_SIZE = a + q OBVIOUS
<1>0. y \in Int OBVIOUS
<1>1. q \in Int /\ q * C_BLK_SIZE <= x /\ x < q * C_BLK_SIZE + C_BLK_SIZE
  BY DivBounds
<1>2. (a + q) * C_BLK_SIZE = a * C_BLK_SIZE + q * C_BLK_SIZE BY <1>1
<1>3. (a + q) * C_BLK_SIZE <= y /\ y < (a + q) * C_BLK_SIZE + C_BLK_SIZE
  BY <1>1, <1>2
<1>4. /\ y \div C_BLK_SIZE \in Int
      /\ (y \div C_BLK_SIZE) * C_BLK_SIZE <= y
      /\ y < (y \div C_BLK_SIZE) * C_BLK_SIZE + C_BLK_SIZE
  BY <1>0, DivBounds
<1>5. a + q \in Int BY <1>1
<1> HIDE DEF y, q
<1> QED BY <1>0, <1>3, <1>4, <1>5, DivUnique

\* A value of j whole windows and r more bytes spans j windows of blocks
\* and the blocks of the r bytes.
LEMMA NrBlocksShift ==
  ASSUME NEW j \in Nat, NEW r \in Int
  PROVE  NrBlocks(j * WindowBytes + r)
           = j * OBJ_IO_MAX_BUFFER_SIZE + NrBlocks(r)
<1> DEFINE a == j * OBJ_IO_MAX_BUFFER_SIZE
           X == j * WindowBytes + r
<1> SUFFICES NrBlocks(X) = a + NrBlocks(r) OBVIOUS
<1>1. a \in Int /\ r - 1 \in Int OBVIOUS
<1>2. X - 1 = a * C_BLK_SIZE + (r - 1) BY DEF WindowBytes
<1> HIDE DEF a, X
<1>3. (a * C_BLK_SIZE + (r - 1)) \div C_BLK_SIZE = a + (r - 1) \div C_BLK_SIZE
  BY <1>1, DivShift
<1>4. (X - 1) \div C_BLK_SIZE = a + (r - 1) \div C_BLK_SIZE BY <1>2, <1>3, Zenon
<1>5. (r - 1) \div C_BLK_SIZE \in Int BY <1>1, DivBounds
<1> QED BY <1>1, <1>4, <1>5 DEF NrBlocks

\* The window a get holds lies in the extent of the value it found.
LEMMA RXWithin ==
  ASSUME RX, RGet PROVE ReadWithinExtent
<1> SUFFICES ASSUME rSt \in {"locking", "pinned", "io"}
             PROVE  rPinned \subseteq CvtExtent(rCvt)
  BY DEF ReadWithinExtent
<1>1. PICK j \in Nat : /\ rCdb = rCvt.cdb + j * OBJ_IO_MAX_BUFFER_SIZE
                       /\ Len(delivered) = j * WindowBytes
  BY DEF RX
<1> DEFINE R == rLen + rRem
           N == NrBlocks(R)
           m == Min2(N, OBJ_IO_MAX_BUFFER_SIZE)
           base == rCvt.cdb
           skip == j * OBJ_IO_MAX_BUFFER_SIZE
<1>2. R \in Nat /\ rCvt.len = j * WindowBytes + R BY <1>1 DEF RGet
<1>3. NrBlocks(rCvt.len) = skip + N BY <1>2, NrBlocksShift
<1>4. N \in Int /\ m \in Int /\ m <= N /\ skip \in Nat /\ base \in Int
  BY <1>2, DivBounds DEF NrBlocks, Min2, RX
<1>5. rPinned = Extent(base + skip, m) BY <1>1 DEF RX
<1>6. CvtExtent(rCvt) = Extent(base, skip + N) BY <1>3 DEF RX, CvtExtent
<1> HIDE DEF R, N, m, base, skip
<1>7. Extent(base + skip, m) \subseteq Extent(base, skip + N)
  <2> SUFFICES ASSUME NEW x \in Extent(base + skip, m)
               PROVE  x \in Extent(base, skip + N)
    OBVIOUS
  <2>1. x \in Int /\ base + skip <= x /\ x <= base + skip + m - 1
    BY <1>4 DEF Extent
  <2>2. base <= x /\ x <= base + (skip + N) - 1 BY <1>4, <2>1
  <2> QED BY <1>4, <2>1, <2>2 DEF Extent
<1> QED BY <1>5, <1>6, <1>7

\* Steps that leave the get's variables alone keep RX.
LEMMA KeepRX ==
  ASSUME RX, UNCHANGED rVars PROVE RX'
BY DEF RX, rVars

\* castle_object_get on an on-disk value locks the first window at cvt.cdb,
\* with nothing replied yet; on any other value it replies at once.
LEMMA GetRX ==
  ASSUME RPut, RX, Get PROVE RX'
<1>1. rCvt' = cvt /\ cvt.cdb \in Int BY DEF Get, RPut
<1>2. CASE cvt.type \notin {"none", "tomb", "inline"}
  <2>1. GetContinue(cvt.cdb, cvt.len) /\ delivered' = <<>> BY <1>2 DEF Get
  <2>2. cvt.type = "ondisk" BY <1>2 DEF RPut, CvtTypes
  <2>3. /\ rLen' \in Nat /\ rRem' \in Nat /\ rLen' + rRem' = cvt.len
        /\ rCdb' = cvt.cdb
        /\ rPinned' = Extent(cvt.cdb, Min2(NrBlocks(cvt.len), OBJ_IO_MAX_BUFFER_SIZE))
        /\ rRem' > 0 => rLen' = WindowBytes
    BY <2>1, <1>1, GetContinueSplit DEF RPut
  <2>4. rCdb' = rCvt'.cdb + 0 * OBJ_IO_MAX_BUFFER_SIZE
        /\ Len(delivered') = 0 * WindowBytes
    BY <1>1, <2>1, <2>3 DEF WindowBytes
  <2> QED BY <1>1, <2>2, <2>3, <2>4 DEF RX
<1>3. CASE cvt.type \in {"none", "tomb", "inline"}
  <2>1. rSt' = "done" BY <1>3 DEF Get
  <2> QED BY <1>1, <2>1 DEF RX
<1> QED BY <1>2, <1>3

\* __castle_object_get_complete on a window that leaves a rest moves one
\* full window on, in blocks and in bytes replied.
LEMMA DeliverRX ==
  ASSUME RPut, RX, RGet, rSt \in {"locking", "pinned", "io"}, Deliver, UNCHANGED rCvt
  PROVE  RX'
<1>1. CASE rRem = 0
  <2>1. rSt' = "done" BY <1>1 DEF Deliver
  <2> QED BY <2>1 DEF RX
<1>2. CASE rRem # 0
  <2>1. PICK j \in Nat : /\ rCdb = rCvt.cdb + j * OBJ_IO_MAX_BUFFER_SIZE
                         /\ Len(delivered) = j * WindowBytes
    BY DEF RX
  <2>2. rLen = WindowBytes /\ rRem \in Nat /\ rCvt.cdb \in Int BY <1>2 DEF RX, RGet
  <2>3. GetContinue(rCdb + OBJ_IO_MAX_BUFFER_SIZE, rRem) BY <1>2 DEF Deliver
  <2>4. rCdb + OBJ_IO_MAX_BUFFER_SIZE \in Int BY <2>1, <2>2
  <2>5. /\ rLen' + rRem' = rRem /\ rSt' = "locking"
        /\ rCdb' = rCdb + OBJ_IO_MAX_BUFFER_SIZE
        /\ rPinned' = Extent(rCdb', Min2(NrBlocks(rRem), OBJ_IO_MAX_BUFFER_SIZE))
        /\ rRem' > 0 => rLen' = WindowBytes
    BY <2>2, <2>3, <2>4, GetContinueSplit
  <2>6. Len(delivered') = Len(delivered) + rLen BY DeliverLen
  <2>7. rCdb' = rCvt'.cdb + (j + 1) * OBJ_IO_MAX_BUFFER_SIZE
        /\ Len(delivered') = (j + 1) * WindowBytes
    BY <2>1, <2>2, <2>5, <2>6 DEF WindowBytes
  <2>8. rCvt'.type = "ondisk" BY DEF RX
  <2> QED BY <2>5, <2>7, <2>8 DEF RX
<1> QED BY <1>1, <1>2

LEMMA NextRX ==
  ASSUME RPut, RGet, RX, [Next]_vars PROVE RX'
<1>1. CASE \/ \E tomb \in BOOLEAN, len \in Lengths : Replace(tomb, len)
           \/ WriteCopy \/ ReplaceContinue
  <2>1. UNCHANGED rVars BY <1>1 DEF Replace, WriteCopy, ReplaceContinue
  <2> QED BY <2>1, KeepRX
<1>2. CASE Get BY <1>2, GetRX
<1>3. CASE GetCached BY <1>3, DeliverRX DEF GetCached
<1>4. CASE \E ok \in BOOLEAN : GetSubmit(ok) BY <1>4 DEF GetSubmit, RX
<1>5. CASE GetIoEnd
  <2>1. CASE rIoOk BY <1>5, <2>1, DeliverRX DEF GetIoEnd
  <2>2. CASE ~rIoOk
    <3>1. rSt' = "done" /\ UNCHANGED rCvt BY <1>5, <2>2 DEF GetIoEnd
    <3> QED BY <3>1 DEF RX
  <2> QED BY <2>1, <2>2
<1>6. CASE UNCHANGED vars BY <1>6, KeepRX DEF vars, rVars
<1>7. CASE GetLock
  <2>1. /\ UNCHANGED <<rCdb, rLen, rRem, rPinned, delivered, rCvt>>
        /\ rSt = "locking" /\ rSt' = "pinned"
    BY <1>7 DEF GetLock
  <2> QED BY <2>1 DEF RX
<1> QED BY <1>1, <1>2, <1>3, <1>4, <1>5, <1>6, <1>7 DEF Next

\* Every window castle_object_get_continue locks lies inside the extent of
\* the value the get found, for every block size, window size and value
\* length: the get never reads, and never pins, a block of another value
\* or of free space.
THEOREM ReadWithin == Spec => []ReadWithinExtent
<1>1. Init => RInv /\ RX
  <2>1. Init => RX BY DEF Init, RX, NoCvt
  <2> QED BY <2>1, InitRInv
<1>2. RInv /\ RX /\ [Next]_vars => RInv' /\ RX'
  BY NextRInv, NextRX, RInvSplit
<1>3. RInv /\ RX => ReadWithinExtent BY RXWithin, RInvSplit
<1> QED BY <1>1, <1>2, <1>3, PTL DEF Spec

-----------------------------------------------------------------------------
(* The windows the writer fills                                            *)

(* WriteWithinExtent is not inductive.  After k full windows of the value, *)
(* the writer's window holds the rest, wRem + wOff bytes, cut at a window; *)
(* write_next_cdb advances by the blocks of the window it opens, so the    *)
(* window starts wNr blocks before the end of k windows' worth of blocks   *)
(* when k > 0 (a short last window overlaps the one before it).  The bytes *)
(* copied into the window never pass its end.                              *)
W ==
  /\ wCvt.cdb \in Int /\ wCvt.len \in Nat
  /\ wOff \in Nat /\ wRem \in Nat /\ pkt \in Nat /\ wNr \in Nat /\ wCdb \in Int
  /\ wSt # "idle" =>
       /\ wCvt.type = "ondisk"
       /\ wOff <= wNr * C_BLK_SIZE
       /\ wNr = NrBlocks(WinLen(wRem + wOff))
       /\ \E k \in Nat :
             /\ wCvt.len = k * WindowBytes + (wRem + wOff)
             /\ wCdb = IF k = 0 THEN wCvt.cdb
                      ELSE wCvt.cdb + (k - 1) * OBJ_IO_MAX_BUFFER_SIZE + wNr

\* The blocks of x bytes: NrBlocks(x) whole blocks hold x bytes, and one
\* block fewer do not.
LEMMA NrBlocksBounds ==
  ASSUME NEW x \in Int
  PROVE  /\ NrBlocks(x) \in Int
         /\ x <= NrBlocks(x) * C_BLK_SIZE
         /\ (NrBlocks(x) - 1) * C_BLK_SIZE < x
<1> DEFINE q == (x - 1) \div C_BLK_SIZE
<1>1. q \in Int /\ q * C_BLK_SIZE <= x - 1 /\ x - 1 < q * C_BLK_SIZE + C_BLK_SIZE
  BY DivBounds
<1>2. (q + 1) * C_BLK_SIZE = q * C_BLK_SIZE + C_BLK_SIZE BY <1>1
<1> QED BY <1>1, <1>2 DEF NrBlocks

LEMMA NrBlocksNat ==
  ASSUME NEW x \in Nat
  PROVE  NrBlocks(x) \in Nat
<1> DEFINE q == (x - 1) \div C_BLK_SIZE
<1>1. q \in Int /\ x - 1 < q * C_BLK_SIZE + C_BLK_SIZE BY DivBounds
<1>2. ~(q < -1)
  <2> SUFFICES ASSUME q < -1 PROVE FALSE OBVIOUS
  <2>1. q * C_BLK_SIZE + C_BLK_SIZE <= -1 * C_BLK_SIZE BY <1>1, MulMono
  <2> QED BY <1>1, <2>1
<1> QED BY <1>1, <1>2 DEF NrBlocks

\* More bytes never take fewer blocks.
LEMMA NrBlocksMono ==
  ASSUME NEW x \in Int, NEW y \in Int, x <= y
  PROVE  NrBlocks(x) <= NrBlocks(y)
<1> DEFINE qx == (x - 1) \div C_BLK_SIZE  qy == (y - 1) \div C_BLK_SIZE
<1>1. qx \in Int /\ qx * C_BLK_SIZE <= x - 1 BY DivBounds
<1>2. qy \in Int /\ y - 1 < qy * C_BLK_SIZE + C_BLK_SIZE BY DivBounds
<1>3. ~(qy < qx)
  <2> SUFFICES ASSUME qy < qx PROVE FALSE OBVIOUS
  <2>1. qy * C_BLK_SIZE + C_BLK_SIZE <= qx * C_BLK_SIZE BY <1>1, <1>2, MulMono
  <2> QED BY <1>1, <1>2, <2>1
<1> QED BY <1>1, <1>2, <1>3 DEF NrBlocks

\* A window's bytes take exactly OBJ_IO_MAX_BUFFER_SIZE blocks.
LEMMA NrBlocksWindow == NrBlocks(WindowBytes) = OBJ_IO_MAX_BUFFER_SIZE
<1>1. (0 - 1) \div C_BLK_SIZE = -1
  <2>1. (0 - 1) \div C_BLK_SIZE \in Int
        /\ ((0 - 1) \div C_BLK_SIZE) * C_BLK_SIZE <= 0 - 1
        /\ 0 - 1 < ((0 - 1) \div C_BLK_SIZE) * C_BLK_SIZE + C_BLK_SIZE
    BY DivBounds
  <2>2. -1 * C_BLK_SIZE <= 0 - 1 /\ 0 - 1 < -1 * C_BLK_SIZE + C_BLK_SIZE OBVIOUS
  <2> QED BY <2>1, <2>2, DivUnique
<1>2. NrBlocks(0) = 0 BY <1>1 DEF NrBlocks
<1>3. NrBlocks(1 * WindowBytes + 0) = 1 * OBJ_IO_MAX_BUFFER_SIZE + NrBlocks(0)
  BY NrBlocksShift
<1> QED BY <1>2, <1>3 DEF WindowBytes

\* The window data_write allocates for rem bytes holds at most a window and
\* at most the blocks of rem.
LEMMA WinBlocks ==
  ASSUME NEW rem \in Nat
  PROVE  /\ WinLen(rem) \in Nat /\ WinLen(rem) <= rem /\ WinLen(rem) <= WindowBytes
         /\ NrBlocks(WinLen(rem)) \in Nat
         /\ NrBlocks(WinLen(rem)) <= NrBlocks(rem)
         /\ NrBlocks(WinLen(rem)) <= OBJ_IO_MAX_BUFFER_SIZE
<1>1. WindowBytes \in Nat BY DEF WindowBytes
<1>2. WinLen(rem) \in Nat /\ WinLen(rem) <= rem /\ WinLen(rem) <= WindowBytes
  BY <1>1 DEF WinLen
<1>3. NrBlocks(WinLen(rem)) <= NrBlocks(WindowBytes) BY <1>1, <1>2, NrBlocksMono
<1> QED BY <1>2, <1>3, NrBlocksNat, NrBlocksMono, NrBlocksWindow

\* The writer's window lies in the extent of the value it streams.
LEMMA WWithin ==
  ASSUME W PROVE WriteWithinExtent
<1> SUFFICES ASSUME wSt # "idle" PROVE Extent(wCdb, wNr) \subseteq CvtExtent(wCvt)
  BY DEF WriteWithinExtent
<1>1. PICK k \in Nat :
         /\ wCvt.len = k * WindowBytes + (wRem + wOff)
         /\ wCdb = IF k = 0 THEN wCvt.cdb
                  ELSE wCvt.cdb + (k - 1) * OBJ_IO_MAX_BUFFER_SIZE + wNr
  BY DEF W
<1> DEFINE rem0 == wRem + wOff
           N == NrBlocks(rem0)
           base == wCvt.cdb
<1>2. rem0 \in Nat /\ base \in Int /\ wNr \in Nat BY DEF W
<1>3. wNr <= N /\ wNr <= OBJ_IO_MAX_BUFFER_SIZE /\ N \in Nat
  BY <1>2, WinBlocks, NrBlocksNat DEF W
<1>4. CvtExtent(wCvt) = Extent(base, k * OBJ_IO_MAX_BUFFER_SIZE + N)
  <2>1. NrBlocks(wCvt.len) = k * OBJ_IO_MAX_BUFFER_SIZE + N
    BY <1>1, <1>2, NrBlocksShift
  <2> QED BY <2>1 DEF W, CvtExtent
<1>5. k * OBJ_IO_MAX_BUFFER_SIZE \in Nat OBVIOUS
<1> HIDE DEF rem0, N, base
<1>6. CASE k = 0
  <2>1. wCdb = base BY <1>1, <1>6 DEF base
  <2> QED BY <1>2, <1>3, <1>4, <1>6, <2>1 DEF Extent
<1>7. CASE k # 0
  <2> DEFINE back == (k - 1) * OBJ_IO_MAX_BUFFER_SIZE
  <2>1. wCdb = base + back + wNr BY <1>1, <1>7 DEF base
  <2>2. back \in Nat /\ back + OBJ_IO_MAX_BUFFER_SIZE = k * OBJ_IO_MAX_BUFFER_SIZE
    BY <1>7
  <2> HIDE DEF back
  <2> QED BY <1>2, <1>3, <1>4, <2>1, <2>2 DEF Extent
<1> QED BY <1>6, <1>7

\* A window that fills up with bytes still to come was a whole window: the
\* value's rest did not fit in it, so write_buffer_alloc gave it
\* OBJ_IO_MAX_BUFFER_SIZE blocks.
LEMMA FullWindow ==
  ASSUME NEW rem0 \in Nat, NEW nr \in Nat, NEW rem \in Nat,
         nr = NrBlocks(WinLen(rem0)), rem0 = nr * C_BLK_SIZE + rem, rem > 0
  PROVE  nr = OBJ_IO_MAX_BUFFER_SIZE
<1>1. ~(rem0 <= WindowBytes)
  <2> SUFFICES ASSUME rem0 <= WindowBytes PROVE FALSE OBVIOUS
  <2>1. nr = NrBlocks(rem0) BY DEF WinLen, WindowBytes
  <2>2. rem0 <= NrBlocks(rem0) * C_BLK_SIZE BY NrBlocksBounds
  <2> QED BY <2>1, <2>2
<1>2. WinLen(rem0) = WindowBytes BY <1>1 DEF WinLen, WindowBytes
<1> QED BY <1>2, NrBlocksWindow

LEMMA WriteCopyW ==
  ASSUME W, WriteCopy PROVE W'
<1> DEFINE K     == Min2(Min2(wNr * C_BLK_SIZE - wOff, pkt), wRem)
           off   == wOff + K
           rem   == wRem - K
           left  == pkt - K
           full  == off = wNr * C_BLK_SIZE /\ rem > 0
           rem0  == wRem + wOff
<1>0. wSt = "copy" /\ UNCHANGED wCvt BY DEF WriteCopy
<1>a. /\ wRem' = rem /\ pkt' \in {left, 0}
      /\ full => /\ wCdb' = wCdb + NrBlocks(WinLen(rem))
                 /\ wNr' = NrBlocks(WinLen(rem)) /\ wOff' = 0
      /\ ~full => wOff' = off /\ UNCHANGED <<wCdb, wNr>>
  BY DEF WriteCopy, NextCdb
<1>1. /\ wOff <= wNr * C_BLK_SIZE /\ wNr = NrBlocks(WinLen(rem0))
      /\ wCvt.type = "ondisk"
  BY <1>0 DEF W
<1>2. K \in Nat /\ K <= wNr * C_BLK_SIZE - wOff /\ K <= pkt /\ K <= wRem
  BY <1>1 DEF W, Min2
<1> HIDE DEF K
<1>3. rem \in Nat /\ off \in Nat /\ rem + off = rem0 /\ off <= wNr * C_BLK_SIZE
  BY <1>2 DEF W
<1>4. wRem' = rem /\ pkt' \in Nat BY <1>a, <1>2 DEF W
<1>5. PICK k \in Nat :
         /\ wCvt.len = k * WindowBytes + rem0
         /\ wCdb = IF k = 0 THEN wCvt.cdb
                  ELSE wCvt.cdb + (k - 1) * OBJ_IO_MAX_BUFFER_SIZE + wNr
  BY <1>0 DEF W
<1>6. CASE full
  <2>1. /\ wCdb' = wCdb + NrBlocks(WinLen(rem)) /\ wNr' = NrBlocks(WinLen(rem))
        /\ wOff' = 0
    BY <1>a, <1>6
  <2>2. wNr = OBJ_IO_MAX_BUFFER_SIZE
    <3>1. rem0 = wNr * C_BLK_SIZE + rem BY <1>3, <1>6
    <3> QED BY <1>1, <1>3, <1>6, <3>1, FullWindow DEF W
  <2>3. wNr' \in Nat BY <1>3, <2>1, WinBlocks
  <2>4. wCvt.len = (k + 1) * WindowBytes + (wRem' + wOff')
    BY <1>3, <1>4, <1>5, <1>6, <2>1, <2>2 DEF WindowBytes
  <2>5. wCdb' = wCvt.cdb + ((k + 1) - 1) * OBJ_IO_MAX_BUFFER_SIZE + wNr'
    <3>1. CASE k = 0 BY <1>5, <2>1, <2>3, <3>1 DEF W
    <3>2. CASE k # 0 BY <1>5, <2>1, <2>2, <2>3, <3>2 DEF W
    <3> QED BY <3>1, <3>2
  <2>6. wNr' = NrBlocks(WinLen(wRem' + wOff')) BY <1>4, <2>1, <1>3
  <2>7. wOff' <= wNr' * C_BLK_SIZE BY <2>1, <2>3
  <2>8. wCdb' \in Int BY <2>1, <2>3 DEF W
  <2>9. \E kk \in Nat :
          /\ wCvt'.len = kk * WindowBytes + (wRem' + wOff')
          /\ wCdb' = IF kk = 0 THEN wCvt'.cdb
                     ELSE wCvt'.cdb + (kk - 1) * OBJ_IO_MAX_BUFFER_SIZE + wNr'
    <3>1. k + 1 \in Nat /\ k + 1 # 0 OBVIOUS
    <3> QED BY <1>0, <2>4, <2>5, <3>1
  <2>10. wCvt'.cdb \in Int /\ wCvt'.len \in Nat /\ wCvt'.type = "ondisk"
    BY <1>0, <1>1 DEF W
  <2>11. wOff' \in Nat /\ wRem' \in Nat BY <1>3, <1>4, <2>1
  <2> QED BY <1>4, <2>3, <2>6, <2>7, <2>8, <2>9, <2>10, <2>11 DEF W
<1>7. CASE ~full
  <2>1. wOff' = off /\ UNCHANGED <<wCdb, wNr>> BY <1>a, <1>7
  <2>2. wRem' + wOff' = rem0 BY <1>3, <1>4, <2>1
  <2> QED BY <1>0, <1>1, <1>3, <1>4, <1>5, <2>1, <2>2 DEF W
<1> QED BY <1>6, <1>7

\* castle_object_replace_complete opens the first window at cvt.cdb with
\* nothing copied; an inline value or a tombstone leaves the writer idle.
LEMMA ReplaceW ==
  ASSUME W, RPut, NEW tomb \in BOOLEAN, NEW len \in Lengths, Replace(tomb, len)
  PROVE  W'
<1>1. len \in Nat OBVIOUS
<1>2. CASE UNCHANGED wVars BY <1>2 DEF W, wVars
<1>3. CASE \E b \in FreeBases(NrBlocks(len)), p \in 1 .. Min2(FrameMax, len) :
             LET c == [type |-> "ondisk", len |-> len, cdb |-> b, put |-> puts + 1]
             IN ReplaceComplete(c, p)
  <2>1. PICK b \in FreeBases(NrBlocks(len)), p \in 1 .. Min2(FrameMax, len) :
           ReplaceComplete([type |-> "ondisk", len |-> len, cdb |-> b, put |-> puts + 1], p)
    BY <1>3
  <2>2. b \in Int /\ p \in Nat BY DEF FreeBases, Blocks, Min2
  <2>3. NrBlocks(WinLen(len)) \in Nat BY <1>1, WinBlocks
  <2>4. /\ wCvt' = [type |-> "ondisk", len |-> len, cdb |-> b, put |-> puts + 1]
        /\ wCdb' = b /\ wNr' = NrBlocks(WinLen(len)) /\ wOff' = 0
        /\ wRem' = len /\ pkt' = p /\ wSt' = "copy"
    BY <2>1 DEF ReplaceComplete
  <2>5. len = 0 * WindowBytes + (len + 0) BY <1>1 DEF WindowBytes
  <2> QED BY <1>1, <2>2, <2>3, <2>4, <2>5 DEF W
<1> QED BY <1>2, <1>3 DEF Replace

LEMMA KeepW ==
  ASSUME W, UNCHANGED wVars PROVE W'
BY DEF W, wVars

LEMMA NextW ==
  ASSUME W, RPut, [Next]_vars PROVE W'
<1>1. CASE \E tomb \in BOOLEAN, len \in Lengths : Replace(tomb, len)
  BY <1>1, ReplaceW
<1>2. CASE WriteCopy BY <1>2, WriteCopyW
<1>3. CASE ReplaceContinue
  <2>1. wSt = "await" /\ wSt' = "copy" /\ pkt' \in Nat
        /\ UNCHANGED <<wCvt, wCdb, wNr, wOff, wRem>>
    BY <1>3 DEF ReplaceContinue, Min2
  <2> QED BY <2>1 DEF W
<1>4. CASE Get \/ GetCached \/ (\E ok \in BOOLEAN : GetSubmit(ok)) \/ GetIoEnd
  <2>1. UNCHANGED wVars BY <1>4 DEF Get, GetCached, GetSubmit, GetIoEnd
  <2> QED BY <2>1, KeepW
<1>5. CASE UNCHANGED vars BY <1>5, KeepW DEF vars, wVars
<1>6. CASE GetLock
  <2>1. UNCHANGED wVars BY <1>6 DEF GetLock
  <2> QED BY <2>1, KeepW
<1> QED BY <1>1, <1>2, <1>3, <1>4, <1>5, <1>6 DEF Next

\* Every window castle_object_data_write fills and releases lies inside the
\* extent the allocator gave the value, for every block size, window size
\* and value length, though write_next_cdb moves a short last window back
\* over the one before it.
THEOREM WriteWithin == Spec => []WriteWithinExtent
<1>1. Init => W /\ RPut
  <2>1. Init => W BY DEF Init, W, NoCvt
  <2> QED BY <2>1, InitRInv, RInvSplit
<1>2. W /\ RPut /\ RGet /\ [Next]_vars => W' /\ RPut' /\ RGet'
  BY NextW, NextRInv, RInvSplit
<1>3. Init => RGet BY InitRInv, RInvSplit
<1>4. W => WriteWithinExtent BY WWithin
<1> QED BY <1>1, <1>2, <1>3, <1>4, PTL DEF Spec

-----------------------------------------------------------------------------
(* Type correctness                                                        *)

\* Every nonempty set of naturals has a least element (< is well-founded).
LEMMA LeastNat ==
  ASSUME NEW T \in SUBSET Nat, T # {}
  PROVE  \E i \in T : \A j \in T : i <= j
<1> DEFINE R == OpToRel(<, Nat)
<1>1. \E x \in T : \A y \in T : ~(<<y, x>> \in R)
  BY NatLessThanWellFounded, WFMin
<1> HIDE DEF R
<1>2. PICK x \in T : \A y \in T : ~(<<y, x>> \in R) BY <1>1
<1>3. \A y \in T : y < x => <<y, x>> \in R BY Zenon DEF R, OpToRel
<1>4. \A y \in T : ~(y < x) BY <1>2, <1>3, Zenon
<1> QED BY <1>4

\* Every nonempty finite set of naturals has a largest element: a smallest
\* cardinality without one would give, removing any element x, a smaller
\* set with a largest element l, and the larger of x and l is the largest.
LEMMA MaxExists ==
  ASSUME NEW S \in SUBSET Nat, S # {}, IsFiniteSet(S)
  PROVE  \E l \in S : \A m \in S : m <= l
<1> DEFINE HasMax(T) == \E l \in T : \A m \in T : m <= l
           Bad == {n \in Nat : \E T \in SUBSET Nat :
                     T # {} /\ IsFiniteSet(T) /\ Cardinality(T) = n /\ ~HasMax(T)}
<1>1. Bad = {}
  <2> SUFFICES ASSUME Bad # {} PROVE FALSE OBVIOUS
  <2>1. PICK n \in Bad : \A k \in Bad : n <= k BY LeastNat
  <2>2. PICK T \in SUBSET Nat :
           T # {} /\ IsFiniteSet(T) /\ Cardinality(T) = n /\ ~HasMax(T)
    BY <2>1
  <2>3. PICK x \in T : TRUE BY <2>2
  <2>4. IsFiniteSet(T \ {x}) /\ Cardinality(T \ {x}) = n - 1
    BY <2>2, FS_RemoveElement
  <2>5. CASE T \ {x} = {}
    <3>1. T = {x} BY <2>5
    <3> QED BY <2>2, <3>1
  <2>6. CASE T \ {x} # {}
    <3>1. n - 1 \in Nat BY <2>4, FS_CardinalityType
    <3>2. n - 1 \notin Bad BY <2>1, <3>1
    <3>3. HasMax(T \ {x}) BY <2>4, <2>6, <3>1, <3>2
    <3>4. PICK l \in T \ {x} : \A m \in T \ {x} : m <= l BY <3>3
    <3>5. HasMax(T)
      <4>1. CASE l <= x BY <4>1, <3>4
      <4>2. CASE x < l BY <4>2, <3>4
      <4> QED BY <4>1, <4>2
    <3> QED BY <2>2, <3>5
  <2> QED BY <2>5, <2>6
<1>2. Cardinality(S) \in Nat BY FS_CardinalityType
<1> QED BY <1>1, <1>2

\* MaxLen, the CHOOSE over the lengths the client may put, is the longest.
LEMMA MaxLenMax == MaxLen \in Lengths /\ \A m \in Lengths : m <= MaxLen
<1>1. \E l \in Lengths : \A m \in Lengths : m <= l BY MaxExists
<1> QED BY <1>1 DEF MaxLen

(* TypeOK is not inductive: the bytes a window releases are tags of the   *)
(* value only because the writer's window lies inside the value (W), the  *)
(* reply stays within the value because reply, window and rest add up to  *)
(* its length (RInv), and a replace that made the cvt numbers it from 1.  *)
TX ==
  /\ cvt.type = "inline" => cvt.put >= 1
  /\ wSt # "idle" => wCvt.put >= 1
  /\ Len(delivered) <= rCvt.len

TInv == TypeOK /\ RInv /\ W /\ TX

\* The facts about the constants the type proofs use.
LEMMA TypeConsts ==
  /\ MaxLen \in Nat \ {0} /\ WindowBytes \in Nat \ {0}
  /\ JUNK \in Tags /\ 0 \in Blocks /\ Blocks \subseteq Int
<1>1. MaxLen \in Nat \ {0} BY MaxLenMax
<1> QED BY <1>1 DEF WindowBytes, JUNK, Tags, Blocks

\* No more blocks take no more bytes.
LEMMA MulLe ==
  ASSUME NEW m \in Int, NEW n \in Int, m <= n
  PROVE  m * C_BLK_SIZE <= n * C_BLK_SIZE
<1>1. CASE m = n BY <1>1
<1>2. CASE m < n BY <1>2, MulMono
<1> QED BY <1>1, <1>2

LEMMA InitTInv == Init => TInv
<1> SUFFICES ASSUME Init PROVE TInv OBVIOUS
<1>1. RInv BY InitRInv
<1>2. W BY DEF Init, W, NoCvt
<1>3. NoCvt \in Cvts BY TypeConsts DEF NoCvt, Cvts, CvtTypes
<1>4. store \in [Addrs -> Tags] BY TypeConsts DEF Init
<1>6. delivered \in Seq(Tags) /\ Len(delivered) <= MaxLen + WindowBytes
  BY TypeConsts DEF Init
<1>7. cvt \in Cvts /\ wCvt \in Cvts /\ rCvt \in Cvts BY <1>3 DEF Init
<1>8. /\ used \subseteq Blocks /\ puts \in 0 .. MaxPuts /\ gets \in 0 .. MaxGets
      /\ wSt \in {"idle", "copy", "await"} /\ wCdb \in Int
      /\ wNr \in 0 .. OBJ_IO_MAX_BUFFER_SIZE /\ wOff \in 0 .. WindowBytes
      /\ wRem \in 0 .. MaxLen /\ pkt \in 0 .. FrameMax
  BY TypeConsts DEF Init
<1>9. /\ rSt \in {"idle", "locking", "pinned", "io", "done"}
      /\ rCdb \in Int /\ rLen \in 0 .. WindowBytes /\ rRem \in 0 .. MaxLen
      /\ rPinned \subseteq Int /\ rResult \in {"none", "ok", "notfound", "eio"}
      /\ rHeld \in Int \X Int
  BY TypeConsts DEF Init, NoC2b
<1>11. rIoOk \in BOOLEAN /\ rClean \in BOOLEAN BY Zenon DEF Init
<1>10. TypeOK BY <1>4, <1>6, <1>7, <1>8, <1>9, <1>11 DEF TypeOK
<1>5. TX BY DEF Init, TX, NoCvt
<1> QED BY <1>1, <1>2, <1>10, <1>5 DEF TInv

\* castle_object_replace builds a cvt of a length the client may put, with
\* the next put's number, at block 0 or at a free extent of the disk, and
\* data_write's first frame and window fit their bounds.
LEMMA ReplaceType ==
  ASSUME TInv, NEW tomb \in BOOLEAN, NEW len \in Lengths, Replace(tomb, len)
  PROVE  TypeOK' /\ TX'
<1>1. len \in 1 .. MaxLen BY MaxLenMax
<1>2. puts + 1 \in 1 .. MaxPuts BY DEF Replace, TInv, TypeOK
<1>3. /\ UNCHANGED <<store, gets, rVars>> /\ puts' = puts + 1 /\ rClean' = FALSE
  BY DEF Replace
<1>7. rIoOk' \in BOOLEAN /\ rClean' \in BOOLEAN
  <2>1. rIoOk' = rIoOk /\ rClean' = FALSE BY <1>3 DEF rVars
  <2>2. rIoOk \in BOOLEAN BY DEF TInv, TypeOK
  <2> QED BY <2>1, <2>2, Zenon
<1>4. /\ rSt' \in {"idle", "locking", "pinned", "io", "done"} /\ rIoOk' \in BOOLEAN
      /\ rCvt' \in Cvts /\ rCdb' \in Int /\ rLen' \in 0 .. WindowBytes
      /\ rRem' \in 0 .. MaxLen /\ rPinned' \subseteq Int /\ rHeld' \in Int \X Int
      /\ delivered' \in Seq(Tags) /\ Len(delivered') <= MaxLen + WindowBytes
      /\ rResult' \in {"none", "ok", "notfound", "eio"}
      /\ Len(delivered') <= rCvt'.len
      /\ store' \in [Addrs -> Tags] /\ gets' \in 0 .. MaxGets
      /\ puts' \in 0 .. MaxPuts /\ rClean' \in BOOLEAN
  <2>1. /\ rSt' = rSt /\ rIoOk' = rIoOk /\ rCvt' = rCvt /\ rCdb' = rCdb
        /\ rLen' = rLen /\ rRem' = rRem /\ rPinned' = rPinned
        /\ delivered' = delivered /\ rResult' = rResult /\ rHeld' = rHeld
    BY <1>3 DEF rVars
  <2>2. /\ rSt' \in {"idle", "locking", "pinned", "io", "done"}
        /\ rCvt' \in Cvts /\ rCdb' \in Int /\ rLen' \in 0 .. WindowBytes
        /\ rRem' \in 0 .. MaxLen /\ rPinned' \subseteq Int /\ rHeld' \in Int \X Int
        /\ rResult' \in {"none", "ok", "notfound", "eio"}
    BY <2>1 DEF TInv, TypeOK
  <2>3. /\ delivered' \in Seq(Tags) /\ Len(delivered') <= MaxLen + WindowBytes
        /\ Len(delivered') <= rCvt'.len
    BY <2>1 DEF TInv, TypeOK, TX
  <2>4. store' \in [Addrs -> Tags] /\ gets' \in 0 .. MaxGets /\ puts' \in 0 .. MaxPuts
    BY <1>2, <1>3 DEF TInv, TypeOK
  <2> QED BY <1>7, <2>2, <2>3, <2>4
<1>5. CASE /\ tomb \/ len <= MAX_INLINE_VAL_SIZE
           /\ cvt' = [type |-> IF tomb THEN "tomb" ELSE "inline",
                      len |-> IF tomb THEN 0 ELSE len, cdb |-> 0, put |-> puts + 1]
           /\ used' = used \ CvtExtent(cvt)
           /\ UNCHANGED wVars
  <2>1. cvt' \in Cvts /\ cvt'.put >= 1
    BY <1>1, <1>2, <1>5, TypeConsts DEF Cvts, CvtTypes
  <2>2. used' \subseteq Blocks BY <1>5 DEF TInv, TypeOK
  <2>3. /\ wCvt' \in Cvts /\ wSt' \in {"idle", "copy", "await"}
        /\ wCdb' \in Int /\ wNr' \in 0 .. OBJ_IO_MAX_BUFFER_SIZE
        /\ wOff' \in 0 .. WindowBytes /\ wRem' \in 0 .. MaxLen
        /\ pkt' \in 0 .. FrameMax
        /\ wSt' # "idle" => wCvt'.put >= 1
    BY <1>5 DEF TInv, TypeOK, TX, wVars
  <2> QED BY <1>4, <2>1, <2>2, <2>3 DEF TypeOK, TX
<1>6. CASE /\ ~tomb /\ len > MAX_INLINE_VAL_SIZE
           /\ \E b \in FreeBases(NrBlocks(len)), p \in 1 .. Min2(FrameMax, len) :
                LET c == [type |-> "ondisk", len |-> len, cdb |-> b, put |-> puts + 1]
                IN /\ cvt' = c
                   /\ used' = (used \cup Extent(b, NrBlocks(len))) \ CvtExtent(cvt)
                   /\ ReplaceComplete(c, p)
  <2>1. PICK b \in FreeBases(NrBlocks(len)), p \in 1 .. Min2(FrameMax, len) :
           LET c == [type |-> "ondisk", len |-> len, cdb |-> b, put |-> puts + 1]
           IN /\ cvt' = c
              /\ used' = (used \cup Extent(b, NrBlocks(len))) \ CvtExtent(cvt)
              /\ ReplaceComplete(c, p)
    BY <1>6
  <2> DEFINE c == [type |-> "ondisk", len |-> len, cdb |-> b, put |-> puts + 1]
  <2>2. b \in Blocks /\ Extent(b, NrBlocks(len)) \subseteq Blocks
    BY DEF FreeBases
  <2>3. c \in Cvts /\ c.put >= 1 BY <1>1, <1>2, <2>2 DEF Cvts, CvtTypes
  <2>4. used' \subseteq Blocks BY <2>1, <2>2 DEF TInv, TypeOK
  <2>5. NrBlocks(WinLen(len)) \in 0 .. OBJ_IO_MAX_BUFFER_SIZE BY <1>1, WinBlocks
  <2>6. p \in 0 .. FrameMax BY DEF Min2
  <2>7. /\ wCvt' = c /\ cvt' = c
        /\ wCdb' = b /\ wNr' = NrBlocks(WinLen(len)) /\ wOff' = 0
        /\ wRem' = len /\ pkt' = p /\ wSt' = "copy"
    BY <2>1 DEF ReplaceComplete
  <2> HIDE DEF c
  <2> QED BY <1>1, <1>4, <2>2, <2>3, <2>4, <2>5, <2>6, <2>7, TypeConsts
       DEF TypeOK, TX
<1> QED BY <1>5, <1>6 DEF Replace

\* castle_object_replace_continue takes a frame of at most FrameMax bytes.
LEMMA ReplaceContinueType ==
  ASSUME TInv, ReplaceContinue PROVE TypeOK' /\ TX'
<1>1. PICK p \in 1 .. Min2(FrameMax, wRem) : pkt' = p BY DEF ReplaceContinue
<1>0. wRem \in 0 .. MaxLen BY DEF TInv, TypeOK
<1>2. pkt' \in 0 .. FrameMax BY <1>0, <1>1 DEF Min2
<1>3. wSt = "await" /\ wSt' = "copy" BY DEF ReplaceContinue
<1>4. /\ UNCHANGED <<store, used, cvt, puts, gets, wCvt, wCdb, wNr, wOff, wRem,
                     rClean>>
      /\ rSt' = rSt /\ rIoOk' = rIoOk /\ rCvt' = rCvt /\ rCdb' = rCdb
      /\ rLen' = rLen /\ rRem' = rRem /\ rPinned' = rPinned
      /\ delivered' = delivered /\ rResult' = rResult /\ rHeld' = rHeld
  BY DEF ReplaceContinue, rVars
<1> QED BY <1>2, <1>3, <1>4 DEF TInv, TypeOK, TX

\* submit_c2b only moves the get to its read.
LEMMA GetSubmitType ==
  ASSUME TInv, NEW ok \in BOOLEAN, GetSubmit(ok) PROVE TypeOK' /\ TX'
<1>1. /\ rSt' = "io" /\ rIoOk' = ok
      /\ UNCHANGED <<store, used, cvt, puts, gets, wSt, wCvt, wCdb, wNr, wOff,
                     wRem, pkt, rCvt, rCdb, rLen, rRem, rPinned, rHeld, delivered,
                     rResult, rClean>>
  BY DEF GetSubmit, wVars
<1> QED BY <1>1 DEF TInv, TypeOK, TX

\* The bytes a window releases are tags of the put-th value when they are
\* numbered from first on and end within the value.
LEMMA ReleaseType ==
  ASSUME store \in [Addrs -> Tags], NEW cdb \in Int, NEW n \in Int,
         NEW first \in Nat, wCvt.put \in 1 .. MaxPuts, first + n <= MaxLen
  PROVE  Release(cdb, n, first) \in [Addrs -> Tags]
<1> SUFFICES ASSUME NEW a \in Addrs, a - cdb * C_BLK_SIZE \in 0 .. n - 1
             PROVE  <<wCvt.put, first + a - cdb * C_BLK_SIZE>> \in Tags
  BY DEF Release
<1>1. a \in Int BY DEF Addrs
<1>2. first + a - cdb * C_BLK_SIZE \in 0 .. MaxLen - 1 BY <1>1, TypeConsts
<1> QED BY <1>2 DEF Tags

\* One pass of data_write copies no more than the window, the frame and the
\* value hold, so the offset stays within a window, the frame and the rest
\* shrink, and what it releases are bytes of the value being written.
LEMMA WriteCopyType ==
  ASSUME TInv, WriteCopy PROVE TypeOK' /\ TX'
<1> DEFINE K     == Min2(Min2(wNr * C_BLK_SIZE - wOff, pkt), wRem)
           off   == wOff + K
           rem   == wRem - K
           left  == pkt - K
           first == wCvt.len - wRem - wOff
           full  == off = wNr * C_BLK_SIZE /\ rem > 0
<1>0. /\ wSt = "copy"
      /\ UNCHANGED <<used, cvt, puts, gets, wCvt, rClean>>
      /\ rSt' = rSt /\ rIoOk' = rIoOk /\ rCvt' = rCvt /\ rCdb' = rCdb
      /\ rLen' = rLen /\ rRem' = rRem /\ rPinned' = rPinned
      /\ delivered' = delivered /\ rResult' = rResult /\ rHeld' = rHeld
  BY DEF WriteCopy, rVars
<1>1. /\ store' \in {Release(wCdb, off, first), store}
      /\ wRem' = rem /\ pkt' \in {left, 0} /\ wSt' \in {"copy", "idle", "await"}
      /\ full => /\ wCdb' = wCdb + NrBlocks(WinLen(rem))
                 /\ wNr' = NrBlocks(WinLen(rem)) /\ wOff' = 0
      /\ ~full => wOff' = off /\ UNCHANGED <<wCdb, wNr>>
  BY DEF WriteCopy, NextCdb
<1>2. /\ wOff <= wNr * C_BLK_SIZE /\ wOff \in Nat /\ wRem \in Nat /\ pkt \in Nat
      /\ wCdb \in Int /\ wNr \in 0 .. OBJ_IO_MAX_BUFFER_SIZE
      /\ \E k \in Nat : wCvt.len = k * WindowBytes + (wRem + wOff)
  BY <1>0 DEF TInv, TypeOK, W
<1>3. wCvt.len \in 0 .. MaxLen /\ wCvt.put \in 1 .. MaxPuts
  BY <1>0 DEF TInv, TypeOK, TX, Cvts
<1>4. K \in Nat /\ K <= wNr * C_BLK_SIZE - wOff /\ K <= pkt /\ K <= wRem
  BY <1>2 DEF Min2
<1> HIDE DEF K
<1>5. wNr * C_BLK_SIZE <= WindowBytes BY <1>2, MulLe DEF WindowBytes
<1>6. rem \in 0 .. MaxLen /\ off \in 0 .. WindowBytes /\ left \in 0 .. FrameMax
  <2>1. wRem \in 0 .. MaxLen /\ pkt \in 0 .. FrameMax BY DEF TInv, TypeOK
  <2>2. wNr * C_BLK_SIZE \in Int BY <1>2
  <2> DEFINE cap == wNr * C_BLK_SIZE
  <2>3. K <= cap - wOff /\ cap <= WindowBytes /\ cap \in Int BY <1>4, <1>5, <2>2
  <2> HIDE DEF cap
  <2> QED BY <1>2, <1>4, <2>1, <2>3, TypeConsts
<1>7. first \in Nat /\ first + off <= MaxLen
  <2>1. PICK k \in Nat : wCvt.len = k * WindowBytes + (wRem + wOff) BY <1>2
  <2> DEFINE kw == k * WindowBytes
  <2>2. kw \in Nat /\ wCvt.len = kw + (wRem + wOff) BY <2>1, TypeConsts
  <2>3. first + off = wCvt.len - rem BY <1>2, <1>3, <1>4
  <2> HIDE DEF kw
  <2>4. first = kw BY <1>2, <1>3, <2>2
  <2> QED BY <1>3, <1>4, <1>6, <2>2, <2>3, <2>4, TypeConsts
<1>8. store' \in [Addrs -> Tags]
  <2>1. Release(wCdb, off, first) \in [Addrs -> Tags]
    <3>1. store \in [Addrs -> Tags] BY DEF TInv, TypeOK
    <3>2. off \in Int BY <1>6
    <3> HIDE DEF off, first
    <3> QED BY <1>2, <1>3, <1>7, <3>1, <3>2, ReleaseType
  <2> QED BY <1>1, <2>1 DEF TInv, TypeOK
<1>9. /\ wCdb' \in Int /\ wNr' \in 0 .. OBJ_IO_MAX_BUFFER_SIZE
      /\ wOff' \in 0 .. WindowBytes
  <2>1. CASE full
    <3>1. NrBlocks(WinLen(rem)) \in 0 .. OBJ_IO_MAX_BUFFER_SIZE BY <1>6, WinBlocks
    <3> QED BY <1>1, <1>2, <2>1, <3>1, TypeConsts
  <2>3. CASE ~full BY <1>1, <1>2, <1>6, <2>3
  <2> QED BY <2>1, <2>3
<1>10. pkt' \in 0 .. FrameMax BY <1>1, <1>6
<1>11. rIoOk' \in BOOLEAN /\ rClean' \in BOOLEAN
  <2>1. rIoOk \in BOOLEAN /\ rClean \in BOOLEAN BY DEF TInv, TypeOK
  <2> QED BY <1>0, <2>1, Zenon
<1>12. /\ used' \subseteq Blocks /\ cvt' \in Cvts /\ wCvt' \in Cvts /\ rCvt' \in Cvts
       /\ puts' \in 0 .. MaxPuts /\ gets' \in 0 .. MaxGets
       /\ rSt' \in {"idle", "locking", "pinned", "io", "done"}
       /\ rCdb' \in Int /\ rLen' \in 0 .. WindowBytes /\ rRem' \in 0 .. MaxLen
       /\ rPinned' \subseteq Int /\ rHeld' \in Int \X Int
       /\ delivered' \in Seq(Tags) /\ Len(delivered') <= MaxLen + WindowBytes
       /\ rResult' \in {"none", "ok", "notfound", "eio"}
  BY <1>0 DEF TInv, TypeOK
<1>13. TX' BY <1>0, <1>3 DEF TInv, TX
<1> QED BY <1>1, <1>6, <1>8, <1>9, <1>10, <1>11, <1>12, <1>13 DEF TypeOK

\* TypeOK and TX split into the conjuncts about the cache and the writer
\* and those about the get.
TWr ==
  /\ store \in [Addrs -> Tags] /\ used \subseteq Blocks
  /\ cvt \in Cvts /\ wCvt \in Cvts /\ puts \in 0 .. MaxPuts
  /\ wSt \in {"idle", "copy", "await"}
  /\ wCdb \in Int /\ wNr \in 0 .. OBJ_IO_MAX_BUFFER_SIZE
  /\ wOff \in 0 .. WindowBytes /\ wRem \in 0 .. MaxLen /\ pkt \in 0 .. FrameMax
  /\ cvt.type = "inline" => cvt.put >= 1
  /\ wSt # "idle" => wCvt.put >= 1

TRd ==
  /\ rCvt \in Cvts /\ gets \in 0 .. MaxGets
  /\ rSt \in {"idle", "locking", "pinned", "io", "done"} /\ rIoOk \in BOOLEAN
  /\ rCdb \in Int /\ rLen \in 0 .. WindowBytes /\ rRem \in 0 .. MaxLen
  /\ rPinned \subseteq Int /\ rHeld \in Int \X Int
  /\ delivered \in Seq(Tags) /\ Len(delivered) <= rCvt.len
  /\ rResult \in {"none", "ok", "notfound", "eio"}
  /\ rClean \in BOOLEAN

LEMMA TSplit ==
  /\ TypeOK /\ TX => TWr /\ TRd
  /\ TWr' /\ TRd' => TypeOK' /\ TX'
<1>1. TypeOK /\ TX => TWr /\ TRd BY DEF TypeOK, TX, TWr, TRd
<1>2. ASSUME TWr', TRd' PROVE TypeOK' /\ TX'
  <2>1. rCvt'.len \in 0 .. MaxLen BY <1>2 DEF TRd, Cvts
  <2>2. Len(delivered') <= MaxLen + WindowBytes
    BY <1>2, <2>1, TypeConsts DEF TRd
  <2> QED BY <1>2, <2>2 DEF TypeOK, TX, TWr, TRd
<1> QED BY <1>1, <1>2

\* The steps of the get leave the cache and the writer alone.
LEMMA KeepTWr ==
  ASSUME TWr, UNCHANGED <<store, used, cvt, puts, wVars>> PROVE TWr'
BY DEF TWr, wVars

\* get_continue locks a window of at most WindowBytes of the rest and
\* leaves no more than the rest after it.
LEMMA GetContinueType ==
  ASSUME NEW cdb \in Int, NEW rem \in 0 .. MaxLen, GetContinue(cdb, rem)
  PROVE  /\ rCdb' \in Int /\ rLen' \in 0 .. WindowBytes /\ rRem' \in 0 .. MaxLen
         /\ rPinned' \subseteq Int /\ rSt' = "locking"
<1>1. /\ rLen' \in Nat /\ rRem' \in Nat /\ rCdb' \in Int
      /\ rLen' + rRem' = rem /\ rSt' = "locking"
      /\ rPinned' = Extent(cdb, Min2(NrBlocks(rem), OBJ_IO_MAX_BUFFER_SIZE))
  BY GetContinueSplit
<1>2. NrBlocks(rem) \in Int /\ rem <= NrBlocks(rem) * C_BLK_SIZE
  BY NrBlocksBounds
<1>3. rLen' <= WindowBytes
  <2>1. CASE NrBlocks(rem) > OBJ_IO_MAX_BUFFER_SIZE BY <2>1, TypeConsts DEF GetContinue
  <2>2. CASE NrBlocks(rem) <= OBJ_IO_MAX_BUFFER_SIZE
    <3>1. NrBlocks(rem) * C_BLK_SIZE <= WindowBytes BY <1>2, <2>2, MulLe DEF WindowBytes
    <3> QED BY <1>2, <2>2, <3>1, TypeConsts DEF GetContinue
  <2> QED BY <1>2, <2>1, <2>2
<1>4. rPinned' \subseteq Int BY <1>1, <1>2 DEF Extent, Min2
<1>5. rem \in Nat /\ rem <= MaxLen BY TypeConsts
<1>6. rRem' <= MaxLen
  <2> DEFINE x == rLen'  y == rRem'  m == MaxLen
  <2>1. x \in Nat /\ y \in Nat /\ x + y = rem /\ rem <= m /\ m \in Nat
    BY <1>1, <1>5, TypeConsts
  <2> HIDE DEF x, y, m
  <2>2. y <= m BY <2>1
  <2> QED BY <2>2, Zenon DEF y, m
<1> QED BY <1>1, <1>3, <1>4, <1>6

\* __castle_object_get_complete replies the window's bytes, read from the
\* cache, and the reply stays within the value; the next window is taken
\* of the rest.
LEMMA DeliverType ==
  ASSUME TInv, rSt \in {"locking", "pinned", "io"}, Deliver, UNCHANGED <<store, rCvt>>
  PROVE  /\ delivered' \in Seq(Tags) /\ Len(delivered') <= rCvt'.len
         /\ rCdb' \in Int /\ rLen' \in 0 .. WindowBytes /\ rRem' \in 0 .. MaxLen
         /\ rPinned' \subseteq Int /\ rSt' \in {"idle", "locking", "pinned", "io", "done"}
         /\ rResult' \in {"none", "ok", "notfound", "eio"} /\ rHeld' \in Int \X Int
<1> DEFINE w == [k \in 1 .. rLen |-> ReadByte(rCdb * C_BLK_SIZE + k - 1)]
<1>1. w \in Seq(Tags) /\ Len(w) = rLen
  <2>1. \A a : ReadByte(a) \in Tags BY TypeConsts DEF ReadByte, TInv, TypeOK
  <2> QED BY <2>1 DEF TInv, TypeOK
<1>2. delivered' = delivered \o w BY DEF Deliver
<1>3. delivered' \in Seq(Tags) /\ Len(delivered') = Len(delivered) + rLen
  BY <1>1, <1>2 DEF TInv, TypeOK
<1>4. Len(delivered) + (rLen + rRem) = rCvt.len /\ rRem \in Nat /\ rResult = "none"
  BY DEF TInv, RInv
<1>5. Len(delivered') <= rCvt'.len
  <2>1. Len(delivered) \in Nat /\ rLen \in Nat BY DEF TInv, TypeOK
  <2> HIDE DEF w
  <2> QED BY <1>3, <1>4, <2>1
<1>6. CASE rRem = 0
  <2>1. rSt' = "done" /\ rResult' = "ok" /\ rPinned' = {} /\ rHeld' = NoC2b
        /\ UNCHANGED <<rCdb, rLen, rRem>>
    BY <1>6 DEF Deliver
  <2> QED BY <1>3, <1>5, <2>1 DEF TInv, TypeOK, NoC2b
<1>7. CASE rRem # 0
  <2>1. GetContinue(rCdb + OBJ_IO_MAX_BUFFER_SIZE, rRem) /\ UNCHANGED rResult
    BY <1>7 DEF Deliver
  <2>2. /\ rCdb + OBJ_IO_MAX_BUFFER_SIZE \in Int /\ rRem \in 0 .. MaxLen
        /\ rHeld' = rHeld /\ rHeld \in Int \X Int
    BY <2>1 DEF TInv, TypeOK, GetContinue
  <2>3. /\ rCdb' \in Int /\ rLen' \in 0 .. WindowBytes /\ rRem' \in 0 .. MaxLen
        /\ rPinned' \subseteq Int /\ rSt' = "locking"
    BY <2>1, <2>2, GetContinueType
  <2> QED BY <1>3, <1>4, <1>5, <2>1, <2>2, <2>3
<1> QED BY <1>6, <1>7

\* castle_object_get replies nothing for no value or a tombstone, the
\* inline bytes of the put that made the cvt, or locks the first window of
\* an on-disk value.
LEMMA GetType ==
  ASSUME TInv, Get PROVE TypeOK' /\ TX'
<1>1. TWr /\ TRd BY TSplit DEF TInv
<1>2. TWr' BY <1>1, KeepTWr DEF Get
<1>3. /\ rCvt' = cvt /\ cvt \in Cvts /\ gets' \in 0 .. MaxGets
      /\ UNCHANGED rIoOk
  <2>1. rCvt' = cvt /\ UNCHANGED rIoOk /\ gets' = gets + 1 /\ gets < MaxGets
    BY DEF Get
  <2>2. cvt \in Cvts /\ gets \in 0 .. MaxGets BY <1>1 DEF TWr, TRd
  <2> QED BY <2>1, <2>2
<1>4. rClean' \in BOOLEAN /\ rIoOk' \in BOOLEAN
  <2>1. rClean' = (wSt = "idle") /\ rIoOk' = rIoOk BY DEF Get
  <2>2. rIoOk \in BOOLEAN BY <1>1 DEF TRd
  <2> QED BY <2>1, <2>2, Zenon
<1>5. cvt.len \in 0 .. MaxLen /\ cvt.cdb \in Int /\ cvt.put \in 0 .. MaxPuts
  BY <1>3, TypeConsts DEF Cvts, Blocks
<1>6. CASE cvt.type \in {"none", "tomb"}
  <2>1. rSt' = "done" /\ rResult' = "notfound" /\ delivered' = <<>>
        /\ UNCHANGED <<rCdb, rLen, rRem, rPinned, rHeld>>
    BY <1>6 DEF Get
  <2>2. TRd' BY <1>1, <1>3, <1>4, <1>5, <2>1 DEF TRd
  <2> QED BY <1>2, <2>2, TSplit
<1>7. CASE cvt.type = "inline"
  <2>1. rSt' = "done" /\ rResult' = "ok" /\ delivered' = Value(cvt)
        /\ UNCHANGED <<rCdb, rLen, rRem, rPinned, rHeld>>
    BY <1>7 DEF Get
  <2>2. cvt.put \in 1 .. MaxPuts BY <1>1, <1>5, <1>7 DEF TWr
  <2>3. Value(cvt) \in Seq(Tags) /\ Len(Value(cvt)) = cvt.len
    <3>1. \A i \in 1 .. cvt.len : i - 1 \in 0 .. MaxLen - 1 BY <1>5, TypeConsts
    <3>2. \A i \in 1 .. cvt.len : <<cvt.put, i - 1>> \in Tags BY <2>2, <3>1 DEF Tags
    <3>3. Value(cvt) \in [1 .. cvt.len -> Tags] BY <3>2 DEF Value
    <3> QED BY <1>5, <3>3
  <2>4. TRd' BY <1>1, <1>3, <1>4, <1>5, <2>1, <2>3 DEF TRd
  <2> QED BY <1>2, <2>4, TSplit
<1>8. CASE cvt.type \notin {"none", "tomb", "inline"}
  <2>1. /\ GetContinue(cvt.cdb, cvt.len) /\ rResult' = "none" /\ delivered' = <<>>
        /\ UNCHANGED rHeld
    BY <1>8 DEF Get, GetContinue
  <2>2. /\ rCdb' \in Int /\ rLen' \in 0 .. WindowBytes /\ rRem' \in 0 .. MaxLen
        /\ rPinned' \subseteq Int /\ rSt' = "locking"
    BY <1>5, <2>1, GetContinueType
  <2>3. TRd' BY <1>1, <1>3, <1>4, <1>5, <2>1, <2>2 DEF TRd
  <2> QED BY <1>2, <2>3, TSplit
<1> QED BY <1>6, <1>7, <1>8

\* A window found up to date, or read without error, is replied; a read
\* error ends the get with -EIO and the reply as it was.
LEMMA GetEndType ==
  ASSUME TInv, GetCached \/ GetIoEnd PROVE TypeOK' /\ TX'
<1>1. TWr /\ TRd BY TSplit DEF TInv
<1>2. /\ UNCHANGED <<store, used, cvt, puts, wVars, gets, rIoOk, rCvt, rClean>>
      /\ rSt \in {"locking", "pinned", "io"}
  BY DEF GetCached, GetIoEnd
<1>3. TWr' BY <1>1, <1>2, KeepTWr
<1>4. /\ rCvt' \in Cvts /\ gets' \in 0 .. MaxGets
      /\ rIoOk' \in BOOLEAN /\ rClean' \in BOOLEAN
  BY <1>1, <1>2 DEF TRd
<1>5. CASE Deliver
  <2>1. /\ delivered' \in Seq(Tags) /\ Len(delivered') <= rCvt'.len
        /\ rCdb' \in Int /\ rLen' \in 0 .. WindowBytes /\ rRem' \in 0 .. MaxLen
        /\ rPinned' \subseteq Int /\ rSt' \in {"idle", "locking", "pinned", "io", "done"}
        /\ rResult' \in {"none", "ok", "notfound", "eio"} /\ rHeld' \in Int \X Int
    BY <1>2, <1>5, DeliverType
  <2> QED BY <1>3, <1>4, <2>1, TSplit DEF TRd
<1>6. CASE ~Deliver
  <2>1. /\ rSt' = "done" /\ rResult' = "eio" /\ rPinned' = {} /\ rHeld' = NoC2b
        /\ UNCHANGED <<rCdb, rLen, rRem, delivered>>
    BY <1>6 DEF GetCached, GetIoEnd
  <2>2. TRd' BY <1>1, <1>2, <1>4, <2>1 DEF TRd, NoC2b
  <2> QED BY <1>3, <2>2, TSplit
<1> QED BY <1>5, <1>6

\* lock_c2b of get_continue takes the window it pinned.
LEMMA GetLockType ==
  ASSUME TInv, GetLock PROVE TypeOK' /\ TX'
<1>1. TWr /\ TRd BY TSplit DEF TInv
<1>2. /\ UNCHANGED <<store, used, cvt, puts, wVars, gets, rIoOk, rCvt, rCdb, rLen,
                     rRem, rPinned, delivered, rResult, rClean>>
      /\ rSt' = "pinned" /\ rHeld' = <<rCdb, NrBlocks(rLen)>>
  BY DEF GetLock, RWant
<1>3. NrBlocks(rLen) \in Int BY <1>1, NrBlocksBounds DEF TRd
<1>4. TWr' BY <1>1, <1>2, KeepTWr
<1>5. TRd' BY <1>1, <1>2, <1>3 DEF TRd
<1> QED BY <1>4, <1>5, TSplit

\* Every step keeps TInv.
LEMMA NextTInv == TInv /\ [Next]_vars => TInv'
<1> SUFFICES ASSUME TInv, [Next]_vars PROVE TInv' OBVIOUS
<1>1. RInv' BY NextRInv DEF TInv
<1>2. W' BY NextW, RInvSplit DEF TInv
<1>3. TypeOK' /\ TX'
  <2>1. CASE \E tomb \in BOOLEAN, len \in Lengths : Replace(tomb, len)
    BY <2>1, ReplaceType
  <2>2. CASE WriteCopy BY <2>2, WriteCopyType
  <2>3. CASE ReplaceContinue BY <2>3, ReplaceContinueType
  <2>4. CASE Get BY <2>4, GetType
  <2>5. CASE GetCached \/ GetIoEnd BY <2>5, GetEndType
  <2>6. CASE \E ok \in BOOLEAN : GetSubmit(ok) BY <2>6, GetSubmitType
  <2>7. CASE UNCHANGED vars BY <2>7 DEF TInv, TypeOK, TX, vars
  <2>8. CASE GetLock BY <2>8, GetLockType
  <2> QED BY <2>1, <2>2, <2>3, <2>4, <2>5, <2>6, <2>7, <2>8 DEF Next
<1> QED BY <1>1, <1>2, <1>3 DEF TInv

\* Every state of the replace and the get is well typed: the cache holds
\* only bytes of the values the client put, the windows, frames and counts
\* stay within their bounds, and a reply is never longer than a value.
THEOREM ObjectIOTypeCorrect == Spec => []TypeOK
<1>1. Init => TInv BY InitTInv
<1>2. TInv /\ [Next]_vars => TInv' BY NextTInv
<1>3. TInv => TypeOK BY DEF TInv
<1> QED BY <1>1, <1>2, <1>3, PTL DEF Spec

=============================================================================
