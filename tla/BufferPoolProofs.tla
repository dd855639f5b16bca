------------------------- MODULE BufferPoolProofs -------------------------
(***************************************************************************)
(* Proofs of BufferPool for every POOL_SIZE, CAPACITY >= POOL_SIZE, set of *)
(* contents and bound: the safety invariants that BufferPool_small checks  *)
(* on two frames and three pages.                                          *)
(*                                                                         *)
(* None of the invariants is inductive alone.  That an evicted page is     *)
(* written inside the file needs NextIdIsFresh, that the victim is unused  *)
(* needs EveryFrameIsAccountedFor and PinCountsMatchHolders, that a clean  *)
(* victim may be dropped needs NoUpdateIsLost for a page that no one has   *)
(* touched.  IInv is their conjunction with three facts more about idle    *)
(* state; Placing shows that a frame can be given to another page without  *)
(* breaking it, and then there is one step per action.                     *)
(*                                                                         *)
(* The last part shows that the pool implements PageStore: giving a frame  *)
(* to another page changes no page's content, and pinned pages are as many *)
(* as the frames that cache them, so a call finds no frame exactly when    *)
(* PageStore has no room.                                                  *)
(***************************************************************************)
EXTENDS BufferPool, QueueLemmas

-----------------------------------------------------------------------------
(* The replacer's operations, by the lemmas about sequences.               *)

(* LRUReplacer::Victim returns a tracked frame and forgets it.             *)
LEMMA VictimProps ==
  ASSUME replacer \in Seq(Frame), IsInjective(replacer), replacer # <<>>
  PROVE  LET f == LRU!Victim(replacer)
             q == LRU!AfterVictim(replacer)
         IN  /\ f \in Frame /\ Contains(replacer, f)
             /\ q \in Seq(Frame) /\ IsInjective(q)
             /\ \A x : Contains(q, x) <=> Contains(replacer, x) /\ x # f
<1>1. LRU!Victim(replacer) = Last(replacer) /\ LRU!AfterVictim(replacer) = Front(replacer)
  BY DEF LRU!Victim, LRU!AfterVictim, LRU!Last, LRU!Front, Last, Front
<1> QED BY <1>1, FrontProps

(* LRUReplacer::Pin forgets the frame.                                     *)
LEMMA AfterPinProps ==
  ASSUME replacer \in Seq(Frame), IsInjective(replacer), NEW f
  PROVE  LET q == LRU!AfterPin(replacer, f)
         IN  /\ q \in Seq(Frame) /\ IsInjective(q)
             /\ \A x : Contains(q, x) <=> Contains(replacer, x) /\ x # f
<1>1. LRU!AfterPin(replacer, f) = RemoveFirst(replacer, f)
  <2>1. LRU!SelectInSeq(replacer, LAMBDA v : v = f) = SelectInSeq(replacer, LAMBDA v : v = f)
    BY DEF LRU!SelectInSeq, SelectInSeq, LRU!Min, Min
  <2> QED BY <2>1 DEF LRU!AfterPin, LRU!RemoveFirst, RemoveFirst, LRU!RemoveAt, RemoveAt
<1> QED BY <1>1, RemoveFirstProps

(* LRUReplacer::Unpin tracks the frame: it is never full when the pool     *)
(* unpins a frame that it does not track.                                  *)
LEMMA AfterUnpinProps ==
  ASSUME replacer \in Seq(Frame), IsInjective(replacer),
         NEW f \in Frame, ~Contains(replacer, f)
  PROVE  LET q == LRU!AfterUnpin(replacer, f)
         IN  /\ q \in Seq(Frame) /\ IsInjective(q)
             /\ \A x : Contains(q, x) <=> Contains(replacer, x) \/ x = f
<1>1. IsFiniteSet(Frame) /\ Cardinality(Frame) = POOL_SIZE
  BY PoolAssumption, FS_Interval DEF Frame
<1>2. Len(replacer) < CAPACITY
  BY <1>1, MissingOneIsShorter, PoolAssumption, LenProperties
<1>3. LRU!AfterUnpin(replacer, f) = Cons(f, replacer)
  BY <1>2, PoolAssumption, LenProperties
     DEF LRU!AfterUnpin, LRU!Contains, Contains, LRU!Cons, Cons
<1> QED BY <1>3, ConsProps

-----------------------------------------------------------------------------
(* The inductive invariant.                                                *)

(* A page nobody has pinned has no change that is yet to be declared, a    *)
(* frame never used is blank, and the stream of the DiskManager is good:   *)
(* every read clears its state and every write is inside the bounds.       *)
IdleIsClean ==
  /\ \A p \in PageId : pins[p] = 0 => ~touched[p]
  /\ \A f \in Frame : frames[f].page_id = NoPage => frames[f].pin_count = 0
  /\ ~disk.fail

IInv ==
  /\ TypeOK
  /\ EveryFrameIsAccountedFor
  /\ PageTableIsExact
  /\ PinCountsMatchHolders
  /\ NoUpdateIsLost
  /\ NextIdIsFresh
  /\ IdleIsClean

(* The types the proofs below use, with the definitions expanded.          *)
LEMMA Types ==
  ASSUME TypeOK
  PROVE  /\ frames \in [Frame -> [page_id : PageId \cup {-1}, pin_count : Int,
                                  is_dirty : BOOLEAN, data : Data]]
         /\ page_table \in [PageId -> Frame \cup {-1}]
         /\ pins \in [PageId -> Nat] /\ pins \in [PageId -> 0 .. MAX_PINS]
         /\ touched \in [PageId -> BOOLEAN]
         /\ disk.file \in [PageId -> Data]
         /\ disk.extent \in Nat /\ disk.num_pages \in Nat
         /\ disk \in [file : [PageId -> Data], extent : 0 .. MAX_PAGES,
                      num_pages : 0 .. MAX_PAGES, fail : BOOLEAN]
         /\ PageId = 0 .. MAX_PAGES - 1 /\ Frame = 0 .. POOL_SIZE - 1
         /\ -1 \notin PageId /\ -1 \notin Frame
         /\ PageId \subseteq Nat /\ Frame \subseteq Nat
BY PoolAssumption, SMTT(30)
   DEF TypeOK, Page, NoPage, NoFrame, PageId, Disk!PageId, Disk!DiskType, Frame

-----------------------------------------------------------------------------
(* Giving the frame f, which caches no page or an unpinned one, to page p: *)
(* what FetchPage and NewPage do on their four ways to a frame.  If the    *)
(* queues lose f, and the disk keeps every page but f's and has f's, IInv  *)
(* is preserved.                                                           *)

Freed(f) == IF frames[f].page_id = NoPage
            THEN page_table ELSE [page_table EXCEPT ![frames[f].page_id] = NoFrame]

LosesOnly(f, q, old) ==
  /\ q \in Seq(Frame) /\ IsInjective(q)
  /\ \A x \in Frame : Contains(q, x) <=> Contains(old, x) /\ x # f

KeepsPages(f, dk) ==
  /\ dk \in Disk!DiskType
  /\ ~dk.fail
  /\ dk.extent <= dk.num_pages
  /\ disk.num_pages <= dk.num_pages
  /\ \A x \in PageId : Disk!IsStored(disk, x) => Disk!IsStored(dk, x)
  /\ \A x \in PageId : x # frames[f].page_id => dk.file[x] = disk.file[x]
  /\ frames[f].page_id # NoPage => Disk!IsStored(dk, frames[f].page_id)

LEMMA Placing ==
  ASSUME IInv,
         NEW f \in Frame, NEW p \in PageId, NEW frame \in Page,
         frames[f].pin_count = 0,
         ~IsResident(p),
         frame.page_id = p, frame.pin_count = 1,
         frames' = [frames EXCEPT ![f] = frame],
         page_table' = [Freed(f) EXCEPT ![p] = f],
         LosesOnly(f, free_frames', free_frames),
         LosesOnly(f, replacer', replacer),
         KeepsPages(f, disk'),
         p < disk'.num_pages,
         \A x \in PageId : x < disk'.num_pages => x < disk.num_pages \/ x = p,
         ~frame.is_dirty => Disk!IsStored(disk', p) /\ disk'.file[p] = frame.data,
         GivesPin(p), pins[p] < MAX_PINS,
         returned' \in Data
  PROVE  IInv'
<1> USE DEF IInv, NoFrame, NoPage, IsResident, Disk!IsStored
<1>1. /\ frames \in [Frame -> [page_id : PageId \cup {-1}, pin_count : Int,
                                is_dirty : BOOLEAN, data : Data]]
      /\ page_table \in [PageId -> Frame \cup {-1}]
      /\ pins \in [PageId -> Nat] /\ pins \in [PageId -> 0 .. MAX_PINS]
      /\ touched \in [PageId -> BOOLEAN]
      /\ disk.extent \in Nat /\ disk.num_pages \in Nat
      /\ -1 \notin PageId /\ -1 \notin Frame
      /\ PageId \subseteq Nat /\ Frame \subseteq Nat
  BY Types
<1> DEFINE old == frames[f].page_id
<1>2. old # -1 => old \in PageId /\ old # p /\ page_table[old] = f /\ pins[old] = 0
  <2> SUFFICES ASSUME old # -1
               PROVE  old \in PageId /\ old # p /\ page_table[old] = f /\ pins[old] = 0
    OBVIOUS
  <2>1. old \in PageId
    BY <1>1
  <2>2. page_table[old] = f
    BY DEF PageTableIsExact
  <2>3. page_table[old] # -1 /\ page_table[p] = -1
    BY <2>2, <1>1
  <2> QED BY <2>1, <2>2, <2>3 DEF PinCountsMatchHolders
<1>3. page_table[p] = -1 /\ pins[p] = 0
  BY <1>1 DEF PinCountsMatchHolders
<1>4. \A x \in PageId : page_table'[x] = IF x = p THEN f ELSE IF x = old THEN -1 ELSE page_table[x]
  BY <1>1, <1>2 DEF Freed
<1>5. \A x \in Frame : frames'[x] = IF x = f THEN frame ELSE frames[x]
  BY <1>1
<1>6. /\ \A x \in PageId : pins'[x] = IF x = p THEN 1 ELSE pins[x]
      /\ touched' = touched
  BY <1>1, <1>3 DEF GivesPin
<1>7. TypeOK'
  <2>1. frames' \in [Frame -> Page]
    BY <1>1 DEF TypeOK
  <2>2. page_table' \in [PageId -> Frame \cup {-1}]
    BY <1>1, <1>2 DEF Freed
  <2>3. pins' \in [PageId -> 0 .. MAX_PINS] /\ touched' \in [PageId -> BOOLEAN]
    BY <1>1, PoolAssumption DEF GivesPin
  <2> QED BY <2>1, <2>2, <2>3 DEF TypeOK, LosesOnly, KeepsPages
<1> HIDE DEF old
<1>8. EveryFrameIsAccountedFor'
  BY <1>1, <1>5 DEF EveryFrameIsAccountedFor, LosesOnly
<1>9. PageTableIsExact'
  <2>1. ASSUME NEW x \in PageId, page_table'[x] # -1
        PROVE  frames'[page_table'[x]].page_id = x
    <3>1. CASE x = p
      BY <3>1, <1>4, <1>5
    <3>2. CASE x # p
      <4>1. page_table'[x] = page_table[x] /\ page_table[x] \in Frame /\ x # old
        BY <3>2, <2>1, <1>1, <1>4
      <4>2. frames[page_table[x]].page_id = x
        BY <4>1, <2>1 DEF PageTableIsExact
      <4> QED BY <4>1, <4>2, <1>5 DEF old
    <3> QED BY <3>1, <3>2
  <2>2. ASSUME NEW x \in Frame, frames'[x].page_id # -1
        PROVE  page_table'[frames'[x].page_id] = x
    <3>1. CASE x = f
      BY <3>1, <1>4, <1>5
    <3>2. CASE x # f
      <4> DEFINE y == frames[x].page_id
      <4>1. frames'[x] = frames[x] /\ y \in PageId /\ page_table[y] = x
        BY <3>2, <2>2, <1>1, <1>5 DEF PageTableIsExact
      <4>2. y # p /\ y # old
        BY <4>1, <3>2, <1>1, <1>2, <1>3
      <4> QED BY <4>1, <4>2, <1>4
    <3> QED BY <3>1, <3>2
  <2> QED BY <2>1, <2>2 DEF PageTableIsExact
<1>10. PinCountsMatchHolders'
  <2> SUFFICES ASSUME NEW x \in PageId
               PROVE  IF page_table'[x] # -1 THEN frames'[page_table'[x]].pin_count = pins'[x]
                                            ELSE pins'[x] = 0
    BY DEF PinCountsMatchHolders
  <2>1. CASE x = p
    BY <2>1, <1>1, <1>4, <1>5, <1>6
  <2>2. CASE x = old /\ x # p
    BY <2>2, <1>1, <1>2, <1>4, <1>6
  <2>3. CASE x # old /\ x # p
    <3>1. page_table'[x] = page_table[x] /\ pins'[x] = pins[x]
      BY <2>3, <1>4, <1>6
    <3>2. CASE page_table[x] = -1
      BY <3>1, <3>2 DEF PinCountsMatchHolders
    <3>3. CASE page_table[x] # -1
      <4>1. page_table[x] \in Frame /\ frames[page_table[x]].page_id = x
        BY <3>3, <1>1 DEF PageTableIsExact
      <4>2. frames'[page_table[x]] = frames[page_table[x]]
        BY <4>1, <2>3, <1>5 DEF old
      <4> QED BY <3>1, <3>3, <4>2 DEF PinCountsMatchHolders
    <3> QED BY <3>2, <3>3
  <2> QED BY <2>1, <2>2, <2>3
<1>11. NoUpdateIsLost'
  BY <1>1, <1>2, <1>3, <1>4, <1>5, <1>6 DEF NoUpdateIsLost, PageTableIsExact, KeepsPages, old
<1>12. NextIdIsFresh'
  <2>1. disk'.num_pages \in Nat
    BY <1>7, PoolAssumption DEF TypeOK, Disk!DiskType
  <2>2. ASSUME NEW x \in Frame
        PROVE  frames'[x].page_id < disk'.num_pages
    BY <2>1, <1>1, <1>5 DEF NextIdIsFresh, KeepsPages
  <2> QED BY <2>2 DEF NextIdIsFresh, KeepsPages
<1>13. IdleIsClean'
  BY <1>1, <1>5, <1>6 DEF IdleIsClean, KeepsPages
<1> QED BY <1>7, <1>8, <1>9, <1>10, <1>11, <1>12, <1>13

-----------------------------------------------------------------------------
(* The two places a frame comes from, and what the disk does meanwhile.    *)

(* A free frame is blank and leaves the free list.                         *)
LEMMA FreeFrame ==
  ASSUME IInv, free_frames # <<>>
  PROVE  LET f == Head(free_frames) IN
         /\ f \in Frame
         /\ frames[f].page_id = NoPage /\ frames[f].pin_count = 0
         /\ LosesOnly(f, Tail(free_frames), free_frames)
         /\ LosesOnly(f, replacer, replacer)
         /\ KeepsPages(f, disk)
         /\ Freed(f) = page_table
<1> DEFINE f == Head(free_frames)
<1>1. free_frames \in Seq(Frame) /\ replacer \in Seq(Frame) /\ disk \in Disk!DiskType
  BY DEF IInv, TypeOK
<1>2. IsInjective(free_frames) /\ IsInjective(replacer)
  BY DEF IInv, EveryFrameIsAccountedFor
<1>3. f \in Frame /\ Contains(free_frames, f) /\ LosesOnly(f, Tail(free_frames), free_frames)
  BY <1>1, <1>2, TailProps DEF LosesOnly
<1> HIDE DEF f
<1>4. frames[f].page_id = NoPage /\ frames[f].pin_count = 0 /\ ~Contains(replacer, f)
  BY <1>3 DEF IInv, EveryFrameIsAccountedFor, IdleIsClean
<1>5. LosesOnly(f, replacer, replacer)
  BY <1>1, <1>2, <1>4 DEF LosesOnly
<1>6. KeepsPages(f, disk)
  <2>1. disk.num_pages \in Nat
    BY Types DEF IInv
  <2> QED BY <2>1, <1>1, <1>4 DEF KeepsPages, IInv, IdleIsClean, NextIdIsFresh
<1>7. Freed(f) = page_table
  BY <1>4 DEF Freed
<1> QED BY <1>3, <1>4, <1>5, <1>6, <1>7 DEF f

(* A victim caches an unpinned page and leaves the replacer.               *)
LEMMA VictimFrame ==
  ASSUME IInv, CanEvict
  PROVE  LET f == LRU!Victim(replacer) IN
         /\ f \in Frame
         /\ frames[f].page_id \in PageId /\ frames[f].pin_count = 0
         /\ LosesOnly(f, free_frames, free_frames)
         /\ LosesOnly(f, LRU!AfterVictim(replacer), replacer)
         /\ Freed(f) = [page_table EXCEPT ![frames[f].page_id] = NoFrame]
<1> DEFINE f == LRU!Victim(replacer)
<1>1. free_frames \in Seq(Frame) /\ replacer \in Seq(Frame)
  BY DEF IInv, TypeOK
<1>2. IsInjective(free_frames) /\ IsInjective(replacer)
  BY DEF IInv, EveryFrameIsAccountedFor
<1>3. f \in Frame /\ Contains(replacer, f) /\ LosesOnly(f, LRU!AfterVictim(replacer), replacer)
  BY <1>1, <1>2, VictimProps DEF CanEvict, LosesOnly
<1> HIDE DEF f
<1>4. /\ frames[f].page_id # NoPage /\ frames[f].pin_count = 0
      /\ ~Contains(free_frames, f)
  BY <1>3 DEF IInv, EveryFrameIsAccountedFor
<1>5. frames[f].page_id \in PageId
  BY <1>3, <1>4, Types DEF IInv, NoPage
<1>6. LosesOnly(f, free_frames, free_frames)
  BY <1>1, <1>2, <1>4 DEF LosesOnly
<1>7. Freed(f) = [page_table EXCEPT ![frames[f].page_id] = NoFrame]
  BY <1>4 DEF Freed
<1> QED BY <1>3, <1>4, <1>5, <1>6, <1>7 DEF f

(* Writing the victim's page back if it is dirty: afterwards the file has  *)
(* it, and it has every other page it had before.                          *)
LEMMA WriteBackProps ==
  ASSUME IInv, NEW f \in Frame,
         frames[f].page_id \in PageId, frames[f].pin_count = 0
  PROVE  KeepsPages(f, WriteBack(f)) /\ WriteBack(f).num_pages = disk.num_pages
<1> DEFINE p == frames[f].page_id
<1>1. /\ frames[f].data \in Data /\ p \in Nat
      /\ disk \in [file : [PageId -> Data], extent : 0 .. MAX_PAGES,
                   num_pages : 0 .. MAX_PAGES, fail : BOOLEAN]
      /\ disk.extent \in Nat /\ disk.num_pages \in Nat
      /\ PageId = 0 .. MAX_PAGES - 1
  BY Types DEF IInv
<1>2. p < disk.num_pages /\ disk.extent <= disk.num_pages /\ ~disk.fail
  BY DEF IInv, NextIdIsFresh, IdleIsClean
<1>3. CASE frames[f].is_dirty
  <2> DEFINE saved == WriteBack(f)
             bytes == [disk.file EXCEPT ![p] = frames[f].data]
             end   == IF p < disk.extent THEN disk.extent ELSE p + 1
  <2>1. saved = [disk EXCEPT !.file = bytes, !.extent = end, !.num_pages = disk.num_pages]
    <3>1. Disk!Counted(disk, p) = disk.num_pages
      BY <1>1, <1>2 DEF Disk!Counted
    <3>2. Disk!Extended(disk, p) = end
      BY DEF Disk!Extended, Disk!IsStored
    <3>3. saved = Disk!WritePage(disk, p, frames[f].data)
      BY <1>3 DEF WriteBack
    <3> QED BY <3>1, <3>2, <3>3, <1>2 DEF Disk!WritePage
  <2>2. end \in 0 .. MAX_PAGES /\ end <= disk.num_pages /\ p < end /\ disk.extent <= end
    BY <1>1, <1>2, PoolAssumption
  <2>3. bytes \in [PageId -> Data] /\ \A x \in PageId : x # p => bytes[x] = disk.file[x]
    BY <1>1
  <2> HIDE DEF bytes, end
  <2>4. /\ saved.file = bytes /\ saved.extent = end
        /\ saved.num_pages = disk.num_pages /\ ~saved.fail
        /\ saved \in [file : [PageId -> Data], extent : 0 .. MAX_PAGES,
                      num_pages : 0 .. MAX_PAGES, fail : BOOLEAN]
    BY <2>1, <2>2, <2>3, <1>1, <1>2
  <2> HIDE DEF saved
  <2>5. KeepsPages(f, saved)
    <3>1. saved \in Disk!DiskType
      BY <2>4 DEF Disk!DiskType, PageId
    <3>2. \A x \in PageId : x < disk.extent => x < end
      BY <2>2, <1>1
    <3> QED BY <3>1, <3>2, <2>2, <2>3, <2>4, <1>1 DEF KeepsPages, Disk!IsStored
  <2> QED BY <2>4, <2>5 DEF saved
<1>4. CASE ~frames[f].is_dirty
  <2>1. WriteBack(f) = disk
    BY <1>4 DEF WriteBack
  <2>2. page_table[p] = f /\ pins[p] = 0
    BY Types DEF IInv, NoFrame, NoPage, PageTableIsExact, PinCountsMatchHolders, IsResident
  <2>3. Disk!IsStored(disk, p)
    BY <2>2, <1>4, Types DEF IInv, IdleIsClean, NoUpdateIsLost, NoFrame, IsResident
  <2> QED BY <2>1, <2>3, <1>1, <1>2 DEF KeepsPages, IInv, TypeOK
<1> QED BY <1>3, <1>4

(* Reading a page that the file has, into the frame f: the stream stays as *)
(* it is and the buffer is overwritten.                                    *)
LEMMA ReadProps ==
  ASSUME IInv, NEW f \in Frame, NEW p \in PageId, NEW dk, NEW buffer,
         KeepsPages(f, dk), dk.num_pages = disk.num_pages,
         p < disk.num_pages, ~IsResident(p)
  PROVE  /\ Disk!AfterRead(dk) = dk
         /\ Disk!IsStored(dk, p)
         /\ Disk!BytesRead(dk, p, buffer) = dk.file[p]
         /\ dk.file[p] \in Data
<1>1. Disk!IsStored(disk, p)
  BY DEF IInv, NoUpdateIsLost
<1>2. Disk!IsStored(dk, p) /\ ~dk.fail /\ dk \in Disk!DiskType
  BY <1>1 DEF KeepsPages
<1>3. dk.file \in [PageId -> Data]
  BY <1>2 DEF Disk!DiskType, PageId
<1>4. Disk!AfterRead(dk) = dk
  BY <1>2 DEF Disk!AfterRead, Disk!DiskType
<1> QED BY <1>2, <1>3, <1>4 DEF Disk!BytesRead

(* Allocating an id after that.                                            *)
LEMMA AllocateProps ==
  ASSUME IInv, NEW f \in Frame, NEW dk,
         KeepsPages(f, dk), dk.num_pages = disk.num_pages,
         Disk!AllocatedId(dk) < MAX_PAGES
  PROVE  LET p == Disk!AllocatedId(dk) IN
         /\ p = disk.num_pages /\ p \in PageId
         /\ ~IsResident(p) /\ pins[p] = 0
         /\ KeepsPages(f, Disk!AfterAllocate(dk))
         /\ Disk!AfterAllocate(dk).num_pages = p + 1
<1>1. /\ disk.num_pages \in Nat /\ PageId = 0 .. MAX_PAGES - 1
      /\ page_table \in [PageId -> Frame \cup {-1}]
  BY Types DEF IInv
<1>2. Disk!AllocatedId(dk) = disk.num_pages /\ disk.num_pages \in PageId
  BY <1>1, PoolAssumption DEF Disk!AllocatedId
<1>3. ~IsResident(disk.num_pages)
  <2> SUFFICES ASSUME IsResident(disk.num_pages)
               PROVE  FALSE
    OBVIOUS
  <2>1. page_table[disk.num_pages] \in Frame
    BY <1>1, <1>2 DEF IsResident, NoFrame
  <2>2. frames[page_table[disk.num_pages]].page_id = disk.num_pages
    BY <1>2 DEF IInv, PageTableIsExact
  <2> QED BY <2>1, <2>2, <1>1 DEF IInv, NextIdIsFresh
<1>4. pins[disk.num_pages] = 0
  BY <1>2, <1>3 DEF IInv, PinCountsMatchHolders
<1>5. dk \in [file : [PageId -> Data], extent : 0 .. MAX_PAGES,
              num_pages : 0 .. MAX_PAGES, fail : BOOLEAN]
  BY DEF KeepsPages, Disk!DiskType, PageId
<1>6. /\ Disk!AfterAllocate(dk) = [dk EXCEPT !.num_pages = disk.num_pages + 1]
      /\ disk.num_pages + 1 \in 0 .. MAX_PAGES
  BY <1>1, <1>2, PoolAssumption DEF Disk!AfterAllocate
<1>7. KeepsPages(f, Disk!AfterAllocate(dk))
  <2> DEFINE new == Disk!AfterAllocate(dk)
  <2>1. /\ new.file = dk.file /\ new.extent = dk.extent /\ new.fail = dk.fail
        /\ new.num_pages = disk.num_pages + 1
        /\ new \in [file : [PageId -> Data], extent : 0 .. MAX_PAGES,
                    num_pages : 0 .. MAX_PAGES, fail : BOOLEAN]
    BY <1>5, <1>6
  <2> HIDE DEF new
  <2>2. new \in Disk!DiskType
    BY <2>1 DEF Disk!DiskType, PageId
  <2>3. dk.extent \in Nat
    BY <1>5, PoolAssumption
  <2>4. new.extent <= new.num_pages /\ disk.num_pages <= new.num_pages
    BY <1>1, <2>1, <2>3 DEF KeepsPages
  <2> QED BY <2>1, <2>2, <2>4 DEF KeepsPages, Disk!IsStored, new
<1>8. Disk!AfterAllocate(dk).num_pages = disk.num_pages + 1
  BY <1>5, <1>6
<1> QED BY <1>2, <1>3, <1>4, <1>7, <1>8

-----------------------------------------------------------------------------
(* The invariant holds in every pool that has just been created.           *)

Blank ==
  /\ frames \in EmptyFrames
  /\ page_table = EmptyTable
  /\ free_frames = AllFrames
  /\ replacer = <<>>
  /\ disk \in Disk!DiskType /\ disk.num_pages = disk.extent /\ ~disk.fail
  /\ pins = [p \in PageId |-> 0]
  /\ touched = [p \in PageId |-> FALSE]
  /\ returned = Null

(* BufferPoolManager::BufferPoolManager: every frame is on the free list.  *)
LEMMA AllFramesProps ==
  AllFrames \in Seq(Frame) /\ IsInjective(AllFrames) /\ \A f \in Frame : Contains(AllFrames, f)
<1>1. /\ \A i \in 1 .. POOL_SIZE : i - 1 \in Frame
      /\ POOL_SIZE \in Nat
  BY PoolAssumption DEF Frame
<1>2. AllFrames \in Seq(Frame) /\ Len(AllFrames) = POOL_SIZE
  BY <1>1 DEF AllFrames
<1>3. IsInjective(AllFrames)
  BY <1>1 DEF AllFrames, IsInjective
<1>4. ASSUME NEW f \in Frame
      PROVE  Contains(AllFrames, f)
  <2>1. f + 1 \in 1 .. POOL_SIZE /\ AllFrames[f + 1] = f
    BY <1>1 DEF AllFrames, Frame
  <2> QED BY <2>1, <1>2 DEF Contains
<1> QED BY <1>2, <1>3, <1>4

(* A pool just created has every part of the invariant.                    *)
LEMMA BlankHasIInv == Blank => IInv
<1> SUFFICES ASSUME Blank
             PROVE  IInv
  OBVIOUS
<1>1. /\ frames \in [Frame -> Page]
      /\ \A f \in Frame : frames[f].page_id = NoPage /\ frames[f].pin_count = 0
  <2>1. PICK bytes \in [Frame -> Data] :
          frames = [f \in Frame |-> [page_id |-> NoPage, pin_count |-> 0,
                                    is_dirty |-> FALSE, data |-> bytes[f]]]
    BY DEF Blank, EmptyFrames
  <2> QED BY <2>1 DEF Page
<1>2. PageId \subseteq Nat /\ disk.num_pages \in Nat /\ disk.extent = disk.num_pages
  BY PoolAssumption DEF Blank, PageId, Disk!PageId, Disk!DiskType
<1>3. page_table \in [PageId -> Frame \cup {NoFrame}] /\ \A p \in PageId : ~IsResident(p)
  BY DEF Blank, EmptyTable, IsResident
<1>4. TypeOK
  <2>1. pins \in [PageId -> 0 .. MAX_PINS] /\ touched \in [PageId -> BOOLEAN]
    BY PoolAssumption DEF Blank
  <2>2. free_frames \in Seq(Frame) /\ replacer \in Seq(Frame)
    BY AllFramesProps DEF Blank
  <2> QED BY <1>1, <1>3, <2>1, <2>2 DEF Blank, TypeOK
<1>5. EveryFrameIsAccountedFor
  <2>1. IsInjective(replacer) /\ \A f : ~Contains(replacer, f)
    BY DEF Blank, IsInjective, Contains
  <2> QED BY <1>1, <2>1, AllFramesProps DEF Blank, EveryFrameIsAccountedFor
<1>6. PageTableIsExact /\ PinCountsMatchHolders
  BY <1>1, <1>3 DEF Blank, PageTableIsExact, PinCountsMatchHolders
<1>7. NoUpdateIsLost
  BY <1>2, <1>3 DEF NoUpdateIsLost, Disk!IsStored
<1>8. NextIdIsFresh
  BY <1>1, <1>2 DEF NextIdIsFresh, NoPage
<1>9. IdleIsClean
  BY <1>1 DEF Blank, IdleIsClean
<1> QED BY <1>4, <1>5, <1>6, <1>7, <1>8, <1>9 DEF IInv

(* The constructor's page count is the length of the file.                 *)
LEMMA OpenedProps ==
  ASSUME NEW dk \in Disk!DiskType
  PROVE  LET new == Disk!Opened(dk) IN
         new \in Disk!DiskType /\ new.num_pages = new.extent /\ ~new.fail
BY DEF Disk!DiskType, Disk!Opened

-----------------------------------------------------------------------------
(* One lemma per action.                                                   *)

(* A call that finds no frame returns null and changes nothing else.       *)
LEMMA NullKeepsIInv ==
  ASSUME IInv, GivesNull
  PROVE  IInv'
<1> USE DEF GivesNull
<1>1. TypeOK'
  BY DEF IInv, TypeOK
<1>2. EveryFrameIsAccountedFor' /\ PageTableIsExact' /\ PinCountsMatchHolders'
  BY DEF IInv, EveryFrameIsAccountedFor, PageTableIsExact, PinCountsMatchHolders, IsResident
<1>3. NoUpdateIsLost' /\ NextIdIsFresh' /\ IdleIsClean'
  BY DEF IInv, NoUpdateIsLost, NextIdIsFresh, IdleIsClean, IsResident, Disk!IsStored
<1> QED BY <1>1, <1>2, <1>3 DEF IInv

(* A step that changes nothing.                                            *)
LEMMA StutterKeepsIInv ==
  ASSUME IInv, UNCHANGED vars
  PROVE  IInv'
<1> USE DEF vars
<1>1. TypeOK'
  BY DEF IInv, TypeOK
<1>2. EveryFrameIsAccountedFor' /\ PageTableIsExact' /\ PinCountsMatchHolders'
  BY DEF IInv, EveryFrameIsAccountedFor, PageTableIsExact, PinCountsMatchHolders, IsResident
<1>3. NoUpdateIsLost' /\ NextIdIsFresh' /\ IdleIsClean'
  BY DEF IInv, NoUpdateIsLost, NextIdIsFresh, IdleIsClean, IsResident, Disk!IsStored
<1> QED BY <1>1, <1>2, <1>3 DEF IInv

(* FetchPage of a page that is resident.                                   *)
LEMMA FetchHitStep ==
  ASSUME IInv, NEW p \in PageId, pins[p] < MAX_PINS, FetchHit(p)
  PROVE  IInv'
<1> DEFINE f == page_table[p]
<1>1. /\ frames \in [Frame -> [page_id : PageId \cup {-1}, pin_count : Int,
                                is_dirty : BOOLEAN, data : Data]]
      /\ page_table \in [PageId -> Frame \cup {-1}]
      /\ pins \in [PageId -> Nat] /\ pins \in [PageId -> 0 .. MAX_PINS]
      /\ -1 \notin PageId /\ -1 \notin Frame
  BY Types DEF IInv
<1>2. f \in Frame /\ frames[f].page_id = p /\ frames[f].pin_count = pins[p]
  BY <1>1 DEF FetchHit, IsResident, NoFrame, IInv, PageTableIsExact, PinCountsMatchHolders
<1>3. /\ \A x \in Frame : /\ frames'[x].page_id = frames[x].page_id
                          /\ frames'[x].is_dirty = frames[x].is_dirty
                          /\ frames'[x].data = frames[x].data
                          /\ frames'[x].pin_count =
                               IF x = f THEN pins[p] + 1 ELSE frames[x].pin_count
      /\ frames' \in [Frame -> Page]
  BY <1>1, <1>2 DEF FetchHit, Pinned, Page, NoPage
<1>4. LosesOnly(f, replacer', replacer)
  BY AfterPinProps DEF FetchHit, LosesOnly, IInv, TypeOK, EveryFrameIsAccountedFor
<1>5. /\ UNCHANGED <<page_table, free_frames, disk, touched>>
      /\ pins' = [pins EXCEPT ![p] = @ + 1]
      /\ returned' \in Data
  BY <1>1, <1>2 DEF FetchHit, GivesPin
<1> HIDE DEF f
<1>6. TypeOK'
  <2>1. pins' \in [PageId -> 0 .. MAX_PINS]
    BY <1>1, <1>5, PoolAssumption
  <2> QED BY <2>1, <1>3, <1>4, <1>5 DEF IInv, TypeOK, LosesOnly
<1>7. EveryFrameIsAccountedFor'
  BY <1>1, <1>2, <1>3, <1>4, <1>5 DEF IInv, EveryFrameIsAccountedFor, LosesOnly, NoPage
<1>8. PageTableIsExact'
  BY <1>1, <1>3, <1>5 DEF IInv, PageTableIsExact, IsResident, NoFrame, NoPage
<1>9. PinCountsMatchHolders'
  <2> SUFFICES ASSUME NEW x \in PageId
               PROVE  IF page_table[x] # -1 THEN frames'[page_table[x]].pin_count = pins'[x]
                                            ELSE pins'[x] = 0
    BY <1>5 DEF PinCountsMatchHolders, IsResident, NoFrame
  <2>1. CASE x = p
    BY <2>1, <1>1, <1>2, <1>3, <1>5 DEF f
  <2>2. CASE x # p /\ page_table[x] # -1
    <3>1. page_table[x] \in Frame /\ page_table[x] # f
      BY <2>2, <1>1, <1>2 DEF IInv, PageTableIsExact, IsResident, NoFrame
    <3> QED BY <3>1, <2>2, <1>1, <1>3, <1>5
            DEF IInv, PinCountsMatchHolders, IsResident, NoFrame
  <2>3. CASE x # p /\ page_table[x] = -1
    BY <2>3, <1>1, <1>5 DEF IInv, PinCountsMatchHolders, IsResident, NoFrame
  <2> QED BY <2>1, <2>2, <2>3
<1>10. NoUpdateIsLost'
  BY <1>1, <1>3, <1>5 DEF IInv, NoUpdateIsLost, IsResident, NoFrame, Disk!IsStored
<1>11. NextIdIsFresh'
  BY <1>3, <1>5 DEF IInv, NextIdIsFresh
<1>12. IdleIsClean'
  BY <1>1, <1>2, <1>3, <1>5 DEF IInv, IdleIsClean, NoPage
<1> QED BY <1>6, <1>7, <1>8, <1>9, <1>10, <1>11, <1>12 DEF IInv

(* FetchPage into the victim's frame.                                      *)
LEMMA FetchByEvictionStep ==
  ASSUME IInv, NEW p \in PageId, p < disk.num_pages, pins[p] < MAX_PINS,
         FetchByEviction(p)
  PROVE  IInv'
<1> DEFINE f     == LRU!Victim(replacer)
           saved == WriteBack(f)
           bytes == Disk!BytesRead(saved, p, frames[f].data)
           frame == [page_id |-> p, pin_count |-> 1, is_dirty |-> FALSE, data |-> bytes]
<1>1. /\ f \in Frame
      /\ frames[f].page_id \in PageId /\ frames[f].pin_count = 0
      /\ LosesOnly(f, free_frames, free_frames)
      /\ LosesOnly(f, LRU!AfterVictim(replacer), replacer)
      /\ Freed(f) = [page_table EXCEPT ![frames[f].page_id] = NoFrame]
  BY VictimFrame DEF FetchByEviction
<1>2. /\ ~IsResident(p)
      /\ frames' = [frames EXCEPT ![f] = frame]
      /\ page_table' = Reassigned(f, p)
      /\ replacer' = LRU!AfterVictim(replacer)
      /\ disk' = Disk!AfterRead(saved)
      /\ returned' = bytes
      /\ GivesPin(p)
      /\ free_frames' = free_frames
  BY DEF FetchByEviction
<1> HIDE DEF f
<1>3. KeepsPages(f, saved) /\ saved.num_pages = disk.num_pages
  BY <1>1, WriteBackProps
<1>4. page_table' = [Freed(f) EXCEPT ![p] = f]
  BY <1>1, <1>2 DEF Reassigned
<1> HIDE DEF saved
<1>5. disk' = saved /\ Disk!IsStored(saved, p) /\ bytes = saved.file[p] /\ bytes \in Data
  BY <1>1, <1>2, <1>3, ReadProps
<1> HIDE DEF bytes
<1>6. frame \in Page /\ frame.page_id = p /\ frame.pin_count = 1 /\ frame.data = bytes
  BY <1>5 DEF Page
<1> HIDE DEF frame
<1> QED BY <1>1, <1>2, <1>3, <1>4, <1>5, <1>6, Placing, ZenonT(30)

(* FetchPage into a frame never used.                                      *)
LEMMA FetchIntoFreeStep ==
  ASSUME IInv, NEW p \in PageId, p < disk.num_pages, pins[p] < MAX_PINS,
         FetchIntoFree(p)
  PROVE  IInv'
<1> DEFINE f     == Head(free_frames)
           bytes == Disk!BytesRead(disk, p, frames[f].data)
           frame == [page_id |-> p, pin_count |-> 1,
                     is_dirty |-> frames[f].is_dirty, data |-> bytes]
<1>1. /\ f \in Frame
      /\ frames[f].page_id = NoPage /\ frames[f].pin_count = 0
      /\ LosesOnly(f, Tail(free_frames), free_frames)
      /\ LosesOnly(f, replacer, replacer)
      /\ KeepsPages(f, disk)
      /\ Freed(f) = page_table
  BY FreeFrame DEF FetchIntoFree
<1>2. /\ ~IsResident(p)
      /\ page_table' = [Freed(f) EXCEPT ![p] = f]
      /\ free_frames' = Tail(free_frames)
      /\ replacer' = replacer
      /\ disk' = Disk!AfterRead(disk)
      /\ returned' = bytes
      /\ GivesPin(p)
  BY <1>1 DEF FetchIntoFree
<1>3. frames' = [frames EXCEPT ![f] = frame]
  BY DEF FetchIntoFree
<1> HIDE DEF f
<1>4. disk' = disk /\ Disk!IsStored(disk, p) /\ bytes = disk.file[p] /\ bytes \in Data
  BY <1>1, <1>2, ReadProps
<1> HIDE DEF bytes
<1>5. frames[f].is_dirty \in BOOLEAN
  BY <1>1 DEF IInv, TypeOK, Page
<1>6. frame \in Page /\ frame.page_id = p /\ frame.pin_count = 1 /\ frame.data = bytes
  BY <1>4, <1>5 DEF Page
<1> HIDE DEF frame
<1> QED BY <1>1, <1>2, <1>3, <1>4, <1>6, Placing

(* NewPage, once it has a frame f: the id is new and the page is dirty.    *)
LEMMA NewInFrameStep ==
  ASSUME IInv, NEW f \in Frame, NEW dk,
         frames[f].pin_count = 0,
         KeepsPages(f, dk), dk.num_pages = disk.num_pages,
         NewInFrame(f, dk),
         page_table' = [Freed(f) EXCEPT ![Disk!AllocatedId(dk)] = f],
         LosesOnly(f, free_frames', free_frames),
         LosesOnly(f, replacer', replacer)
  PROVE  IInv'
<1> DEFINE p     == Disk!AllocatedId(dk)
           frame == [page_id |-> p, pin_count |-> 1, is_dirty |-> TRUE, data |-> Zero]
<1>1. /\ p < MAX_PAGES
      /\ frames' = [frames EXCEPT ![f] = frame]
      /\ disk' = Disk!AfterAllocate(dk)
      /\ returned' = Zero
      /\ GivesPin(p)
  BY DEF NewInFrame
<1>2. /\ p = disk.num_pages /\ p \in PageId
      /\ ~IsResident(p) /\ pins[p] = 0
      /\ KeepsPages(f, disk')
      /\ disk'.num_pages = p + 1
  BY <1>1, AllocateProps
<1>3. frame \in Page /\ frame.page_id = p /\ frame.pin_count = 1 /\ frame.is_dirty
  BY <1>2, PoolAssumption DEF Page
<1>4. page_table' = [Freed(f) EXCEPT ![p] = f]
  OBVIOUS
<1> HIDE DEF p, frame
<1>5. /\ p < disk'.num_pages
      /\ \A x \in PageId : x < disk'.num_pages => x < disk.num_pages \/ x = p
      /\ p \in Nat
  BY <1>2, Types DEF IInv
<1>6. pins[p] < MAX_PINS /\ returned' \in Data
  BY <1>1, <1>2, PoolAssumption
<1> QED BY <1>1, <1>2, <1>3, <1>4, <1>5, <1>6, Placing

(* NewPage into the victim's frame.                                        *)
LEMMA NewByEvictionStep ==
  ASSUME IInv, NewByEviction
  PROVE  IInv'
<1> DEFINE f     == LRU!Victim(replacer)
           saved == WriteBack(f)
<1>1. /\ f \in Frame
      /\ frames[f].page_id \in PageId /\ frames[f].pin_count = 0
      /\ LosesOnly(f, free_frames, free_frames)
      /\ LosesOnly(f, LRU!AfterVictim(replacer), replacer)
      /\ Freed(f) = [page_table EXCEPT ![frames[f].page_id] = NoFrame]
  BY VictimFrame DEF NewByEviction
<1>2. /\ NewInFrame(f, saved)
      /\ page_table' = Reassigned(f, Disk!AllocatedId(saved))
      /\ replacer' = LRU!AfterVictim(replacer)
      /\ free_frames' = free_frames
  BY DEF NewByEviction
<1> HIDE DEF f
<1>3. KeepsPages(f, saved) /\ saved.num_pages = disk.num_pages
  BY <1>1, WriteBackProps
<1>4. page_table' = [Freed(f) EXCEPT ![Disk!AllocatedId(saved)] = f]
  BY <1>1, <1>2 DEF Reassigned
<1> HIDE DEF saved
<1> QED BY <1>1, <1>2, <1>3, <1>4, NewInFrameStep

(* NewPage into a frame never used.                                        *)
LEMMA NewInFreeStep ==
  ASSUME IInv, NewInFree
  PROVE  IInv'
<1> DEFINE f == Head(free_frames)
<1>1. /\ f \in Frame
      /\ frames[f].pin_count = 0
      /\ LosesOnly(f, Tail(free_frames), free_frames)
      /\ LosesOnly(f, replacer, replacer)
      /\ KeepsPages(f, disk)
      /\ Freed(f) = page_table
  BY FreeFrame DEF NewInFree
<1>2. /\ NewInFrame(f, disk)
      /\ page_table' = [Freed(f) EXCEPT ![Disk!AllocatedId(disk)] = f]
      /\ free_frames' = Tail(free_frames)
      /\ replacer' = replacer
  BY <1>1 DEF NewInFree
<1> HIDE DEF f
<1> QED BY <1>1, <1>2, NewInFrameStep

(* A frame that is unpinned: the dirty bit is kept or set.                 *)
LEMMA UnpinnedProps ==
  ASSUME NEW old \in Page, NEW is_dirty \in BOOLEAN
  PROVE  LET new == Unpinned(old, is_dirty) IN
         /\ new.page_id = old.page_id /\ new.pin_count = old.pin_count - 1
         /\ new.is_dirty <=> old.is_dirty \/ is_dirty
         /\ new.data = old.data
         /\ new \in Page
<1> DEFINE b == old.is_dirty \/ is_dirty
           new == [old EXCEPT !.pin_count = @ - 1, !.is_dirty = b]
<1>1. b \in BOOLEAN
  OBVIOUS
<1>2. Unpinned(old, is_dirty) = new
  BY Zenon DEF Unpinned
<1> HIDE DEF b
<1>3. /\ new.page_id = old.page_id /\ new.pin_count = old.pin_count - 1
      /\ new.is_dirty = b /\ new.data = old.data
  BY DEF Page
<1>4. new \in Page
  <2> DEFINE n == old.pin_count - 1
  <2>1. n \in Int
    BY DEF Page
  <2> HIDE DEF n
  <2>2. new = [old EXCEPT !.pin_count = n, !.is_dirty = b]
    BY DEF n
  <2>3. \A x \in Int, y \in BOOLEAN : [old EXCEPT !.pin_count = x, !.is_dirty = y] \in Page
    BY DEF Page
  <2> QED BY <1>1, <2>1, <2>2, <2>3
<1> HIDE DEF new
<1> QED BY <1>2, <1>3, <1>4 DEF b

(* UnpinPage: a caller that returns its last pin has declared its changes. *)
LEMMA UnpinStep ==
  ASSUME IInv, NEW p \in PageId, NEW is_dirty \in BOOLEAN, UnpinPage(p, is_dirty)
  PROVE  IInv'
<1> DEFINE f == page_table[p]
<1>1. /\ frames \in [Frame -> [page_id : PageId \cup {-1}, pin_count : Int,
                                is_dirty : BOOLEAN, data : Data]]
      /\ page_table \in [PageId -> Frame \cup {-1}]
      /\ pins \in [PageId -> Nat] /\ pins \in [PageId -> 0 .. MAX_PINS]
      /\ touched \in [PageId -> BOOLEAN]
      /\ -1 \notin PageId /\ -1 \notin Frame
  BY Types DEF IInv
<1>2. f \in Frame /\ frames[f].page_id = p /\ frames[f].pin_count = pins[p] /\ pins[p] > 0
  BY <1>1 DEF UnpinPage, IsResident, NoFrame, IInv, PageTableIsExact, PinCountsMatchHolders
<1>3. /\ \A x \in Frame : /\ frames'[x].page_id = frames[x].page_id
                          /\ frames'[x].data = frames[x].data
                          /\ frames'[x].is_dirty <=>
                               frames[x].is_dirty \/ (x = f /\ is_dirty)
                          /\ frames'[x].pin_count =
                               IF x = f THEN pins[p] - 1 ELSE frames[x].pin_count
      /\ frames' \in [Frame -> Page]
  <2> DEFINE frame == Unpinned(frames[f], is_dirty)
  <2>1. frames[f] \in Page
    BY <1>1, <1>2 DEF Page, NoPage
  <2>2. /\ frame.page_id = p /\ frame.pin_count = pins[p] - 1
        /\ frame.is_dirty <=> frames[f].is_dirty \/ is_dirty
        /\ frame.data = frames[f].data
        /\ frame \in Page
    BY <1>2, <2>1, UnpinnedProps
  <2> HIDE DEF frame
  <2>3. frames' = [frames EXCEPT ![f] = frame]
    BY DEF UnpinPage, frame
  <2> QED BY <2>2, <2>3, <1>1, <1>2 DEF Page, NoPage
<1>4. /\ replacer' \in Seq(Frame) /\ IsInjective(replacer')
      /\ \A x \in Frame : Contains(replacer', x) <=>
                            Contains(replacer, x) \/ (x = f /\ pins[p] = 1)
  <2>1. ~Contains(replacer, f)
    BY <1>2 DEF IInv, EveryFrameIsAccountedFor
  <2>2. /\ replacer \in Seq(Frame) /\ IsInjective(replacer)
        /\ replacer' = IF pins[p] - 1 = 0 THEN LRU!AfterUnpin(replacer, f) ELSE replacer
    BY <1>1, <1>2 DEF UnpinPage, Unpinned, IInv, TypeOK, EveryFrameIsAccountedFor
  <2> HIDE DEF f
  <2>3. CASE pins[p] = 1
    BY <2>1, <2>2, <2>3, <1>2, AfterUnpinProps
  <2>4. CASE pins[p] # 1
    BY <2>2, <2>4, <1>1
  <2> QED BY <2>3, <2>4
<1>5. /\ UNCHANGED <<page_table, free_frames, disk, returned>>
      /\ \A x \in PageId : pins'[x] = IF x = p THEN pins[p] - 1 ELSE pins[x]
      /\ \A x \in PageId : touched'[x] <=> touched[x] /\ (x = p => ~is_dirty)
      /\ touched[p] /\ pins[p] = 1 => is_dirty
  BY <1>1 DEF UnpinPage
<1> HIDE DEF f
<1>6. TypeOK'
  <2>1. pins' \in [PageId -> 0 .. MAX_PINS] /\ touched' \in [PageId -> BOOLEAN]
    BY <1>1, <1>2, PoolAssumption DEF UnpinPage
  <2> QED BY <2>1, <1>3, <1>4, <1>5 DEF IInv, TypeOK
<1>7. EveryFrameIsAccountedFor'
  <2>1. ASSUME NEW x \in Frame
        PROVE  Contains(replacer', x) <=> frames'[x].page_id # NoPage /\ frames'[x].pin_count = 0
    <3>1. CASE x = f
      BY <3>1, <1>1, <1>2, <1>3, <1>4 DEF IInv, EveryFrameIsAccountedFor, NoPage
    <3>2. CASE x # f
      BY <3>2, <1>3, <1>4 DEF IInv, EveryFrameIsAccountedFor
    <3> QED BY <3>1, <3>2
  <2>2. \A x \in Frame : Contains(free_frames', x) <=> frames'[x].page_id = NoPage
    BY <1>3, <1>5 DEF IInv, EveryFrameIsAccountedFor
  <2> QED BY <2>1, <2>2, <1>4, <1>5 DEF IInv, EveryFrameIsAccountedFor
<1>8. PageTableIsExact'
  BY <1>1, <1>3, <1>5 DEF IInv, PageTableIsExact, IsResident, NoFrame, NoPage
<1>9. PinCountsMatchHolders'
  <2> SUFFICES ASSUME NEW x \in PageId
               PROVE  IF page_table[x] # -1 THEN frames'[page_table[x]].pin_count = pins'[x]
                                            ELSE pins'[x] = 0
    BY <1>5 DEF PinCountsMatchHolders, IsResident, NoFrame
  <2>1. CASE x = p
    BY <2>1, <1>1, <1>2, <1>3, <1>5 DEF f
  <2>2. CASE x # p /\ page_table[x] # -1
    <3>1. page_table[x] \in Frame /\ page_table[x] # f
      BY <2>2, <1>1, <1>2 DEF IInv, PageTableIsExact, IsResident, NoFrame
    <3> QED BY <3>1, <2>2, <1>1, <1>3, <1>5
            DEF IInv, PinCountsMatchHolders, IsResident, NoFrame
  <2>3. CASE x # p /\ page_table[x] = -1
    BY <2>3, <1>1, <1>5 DEF IInv, PinCountsMatchHolders, IsResident, NoFrame
  <2> QED BY <2>1, <2>2, <2>3
<1>10. NoUpdateIsLost'
  <2> SUFFICES ASSUME NEW x \in PageId
               PROVE  /\ x < disk.num_pages /\ page_table[x] = -1 => Disk!IsStored(disk, x)
                      /\ (page_table[x] # -1 /\ ~frames'[page_table[x]].is_dirty
                           /\ ~touched'[x]) =>
                           /\ Disk!IsStored(disk, x)
                           /\ disk.file[x] = frames'[page_table[x]].data
    BY <1>5 DEF NoUpdateIsLost, IsResident, NoFrame, Disk!IsStored
  <2>1. x < disk.num_pages /\ page_table[x] = -1 => Disk!IsStored(disk, x)
    BY DEF IInv, NoUpdateIsLost, IsResident, NoFrame
  <2>2. ASSUME page_table[x] # -1, ~frames'[page_table[x]].is_dirty, ~touched'[x]
        PROVE  /\ Disk!IsStored(disk, x)
               /\ disk.file[x] = frames'[page_table[x]].data
    <3>1. page_table[x] \in Frame /\ frames'[page_table[x]].data = frames[page_table[x]].data
      BY <2>2, <1>1, <1>3
    <3>2. ~frames[page_table[x]].is_dirty
      BY <2>2, <3>1, <1>3
    <3>3. ~touched[x]
      <4>1. x = p => ~is_dirty
        BY <2>2, <3>1, <1>3 DEF f
      <4> QED BY <4>1, <2>2, <1>5
    <3> QED BY <3>1, <3>2, <3>3, <2>2 DEF IInv, NoUpdateIsLost, IsResident, NoFrame
  <2> QED BY <2>1, <2>2
<1>11. NextIdIsFresh'
  BY <1>3, <1>5 DEF IInv, NextIdIsFresh
<1>12. IdleIsClean'
  <2>1. \A x \in PageId : pins'[x] = 0 => ~touched'[x]
    BY <1>1, <1>2, <1>5 DEF IInv, IdleIsClean
  <2>2. \A x \in Frame : frames'[x].page_id = NoPage => frames'[x].pin_count = 0
    BY <1>1, <1>2, <1>3 DEF IInv, IdleIsClean, NoPage
  <2> QED BY <2>1, <2>2, <1>5 DEF IInv, IdleIsClean
<1> QED BY <1>6, <1>7, <1>8, <1>9, <1>10, <1>11, <1>12 DEF IInv

(* A caller's write to a page it holds.                                    *)
LEMMA WriteStep ==
  ASSUME IInv, NEW p \in PageId, NEW bytes \in Data, Write(p, bytes)
  PROVE  IInv'
<1> DEFINE f == page_table[p]
<1>1. /\ frames \in [Frame -> [page_id : PageId \cup {-1}, pin_count : Int,
                                is_dirty : BOOLEAN, data : Data]]
      /\ page_table \in [PageId -> Frame \cup {-1}]
      /\ pins \in [PageId -> Nat] /\ touched \in [PageId -> BOOLEAN]
      /\ -1 \notin PageId /\ -1 \notin Frame
  BY Types DEF IInv
<1>2. f \in Frame /\ frames[f].page_id = p /\ pins[p] > 0
  BY <1>1 DEF Write, IsResident, NoFrame, IInv, PageTableIsExact, PinCountsMatchHolders
<1>3. /\ \A x \in Frame : /\ frames'[x].page_id = frames[x].page_id
                          /\ frames'[x].is_dirty = frames[x].is_dirty
                          /\ frames'[x].pin_count = frames[x].pin_count
                          /\ x # f => frames'[x].data = frames[x].data
      /\ frames' \in [Frame -> Page]
  BY <1>1, <1>2 DEF Write, Page, NoPage
<1>4. /\ UNCHANGED <<page_table, free_frames, replacer, disk, pins, returned>>
      /\ touched' \in [PageId -> BOOLEAN]
      /\ \A x \in PageId : touched'[x] <=> touched[x] \/ x = p
  BY <1>1 DEF Write
<1> HIDE DEF f
<1>5. TypeOK'
  BY <1>3, <1>4 DEF IInv, TypeOK
<1>6. EveryFrameIsAccountedFor'
  BY <1>3, <1>4 DEF IInv, EveryFrameIsAccountedFor
<1>7. PageTableIsExact' /\ PinCountsMatchHolders'
  BY <1>1, <1>3, <1>4
     DEF IInv, PageTableIsExact, PinCountsMatchHolders, IsResident, NoFrame, NoPage
<1>8. NoUpdateIsLost'
  <2> SUFFICES ASSUME NEW x \in PageId, page_table[x] # -1,
                      ~frames'[page_table[x]].is_dirty, ~touched'[x]
               PROVE  /\ Disk!IsStored(disk, x)
                      /\ disk.file[x] = frames'[page_table[x]].data
    BY <1>4 DEF IInv, NoUpdateIsLost, IsResident, NoFrame, Disk!IsStored
  <2>1. x # p /\ ~touched[x]
    BY <1>4
  <2>2. page_table[x] \in Frame /\ page_table[x] # f
    BY <2>1, <1>1, <1>2 DEF IInv, PageTableIsExact, IsResident, NoFrame
  <2> QED BY <2>1, <2>2, <1>3 DEF IInv, NoUpdateIsLost, IsResident, NoFrame
<1>9. NextIdIsFresh'
  BY <1>3, <1>4 DEF IInv, NextIdIsFresh
<1>10. IdleIsClean'
  BY <1>1, <1>2, <1>3, <1>4 DEF IInv, IdleIsClean
<1> QED BY <1>5, <1>6, <1>7, <1>8, <1>9, <1>10 DEF IInv

-----------------------------------------------------------------------------
(* The invariant and what follows from it.                                 *)

(* A new pool on a file that was just opened.                              *)
LEMMA InitHasIInv == Init => IInv
<1>1. ASSUME Init PROVE Blank
  <2>1. disk.num_pages = disk.extent /\ ~disk.fail
    BY <1>1, OpenedProps DEF Init
  <2> QED BY <1>1, <2>1 DEF Init, Blank
<1> QED BY <1>1, BlankHasIInv

(* A restart is the creation of a new pool.                                *)
LEMMA RestartStep == IInv /\ Restart => IInv'
<1>1. ASSUME IInv, Restart PROVE Blank'
  <2>1. disk' \in Disk!DiskType /\ disk'.num_pages = disk'.extent /\ ~disk'.fail
    BY <1>1, OpenedProps DEF IInv, TypeOK, Restart
  <2> QED BY <1>1, <2>1 DEF Restart, Blank
<1>2. Blank' => IInv'
  BY BlankHasIInv, PTL
<1> QED BY <1>1, <1>2

(* One step of the pool, by the lemma of its action.                       *)
LEMMA StepKeepsIInv == IInv /\ [Next]_vars => IInv'
<1> SUFFICES ASSUME IInv, [Next]_vars
             PROVE  IInv'
  OBVIOUS
<1>1. ASSUME NEW p \in PageId, FetchPage(p)
      PROVE  IInv'
  <2>1. p < disk.num_pages /\ pins[p] < MAX_PINS
    BY <1>1 DEF FetchPage
  <2>2. CASE FetchHit(p)
    BY <2>1, <2>2, FetchHitStep
  <2>3. CASE FetchByEviction(p)
    BY <2>1, <2>3, FetchByEvictionStep
  <2>4. CASE FetchIntoFree(p)
    BY <2>1, <2>4, FetchIntoFreeStep
  <2>5. CASE FetchFails(p)
    BY <2>5, NullKeepsIInv DEF FetchFails
  <2> QED BY <1>1, <2>2, <2>3, <2>4, <2>5 DEF FetchPage
<1>2. ASSUME NEW p \in PageId, NEW is_dirty \in BOOLEAN, UnpinPage(p, is_dirty)
      PROVE  IInv'
  BY <1>2, UnpinStep
<1>3. ASSUME NEW p \in PageId, NEW bytes \in Data, Write(p, bytes)
      PROVE  IInv'
  BY <1>3, WriteStep
<1>4. CASE NewPage
  <2>1. CASE NewByEviction
    BY <2>1, NewByEvictionStep
  <2>2. CASE NewInFree
    BY <2>2, NewInFreeStep
  <2>3. CASE NewFails
    BY <2>3, NullKeepsIInv DEF NewFails
  <2> QED BY <1>4, <2>1, <2>2, <2>3 DEF NewPage
<1>5. CASE Restart
  BY <1>5, RestartStep
<1>6. CASE UNCHANGED vars
  BY <1>6, StutterKeepsIInv
<1> QED BY <1>1, <1>2, <1>3, <1>4, <1>5, <1>6 DEF Next

(* The invariant of every reachable state of the pool.                     *)
THEOREM IInvHolds == Spec => []IInv
BY InitHasIInv, StepKeepsIInv, PTL DEF Spec

(* Every variable of the pool keeps its type: page ids stay within the     *)
(* bound although WritePage and AllocatePage both count.                   *)
THEOREM TypesHold == Spec => []TypeOK
<1>1. IInv => TypeOK
  BY DEF IInv
<1> QED BY <1>1, IInvHolds, PTL

(* FetchPage, NewPage and UnpinPage never leak a frame nor give it two     *)
(* uses.                                                                   *)
THEOREM NoFrameLeaks == Spec => []EveryFrameIsAccountedFor
<1>1. IInv => EveryFrameIsAccountedFor
  BY DEF IInv
<1> QED BY <1>1, IInvHolds, PTL

(* The page table has an entry for a page exactly while a frame caches it. *)
THEOREM PageTableHolds == Spec => []PageTableIsExact
<1>1. IInv => PageTableIsExact
  BY DEF IInv
<1> QED BY <1>1, IInvHolds, PTL

(* A pin count is the number of pins that the page's callers hold.         *)
THEOREM PinCountsHold == Spec => []PinCountsMatchHolders
<1>1. IInv => PinCountsMatchHolders
  BY DEF IInv
<1> QED BY <1>1, IInvHolds, PTL

(* A page that leaves the pool is in the file with its current content.    *)
THEOREM UpdatesSurviveEviction == Spec => []NoUpdateIsLost
<1>1. IInv => NoUpdateIsLost
  BY DEF IInv
<1> QED BY <1>1, IInvHolds, PTL

(* AllocatePage never hands out the id of a page that exists.              *)
THEOREM FreshIds == Spec => []NextIdIsFresh
<1>1. IInv => NextIdIsFresh
  BY DEF IInv
<1> QED BY <1>1, IInvHolds, PTL

-----------------------------------------------------------------------------
(* Pinned pages stay in their frames.                                      *)

(* A frame that is given to another page cached no pinned page.            *)
LEMMA OnlyUnpinnedPagesMove ==
  ASSUME IInv, NEW f \in Frame, NEW p \in PageId, NEW x \in PageId,
         frames[f].pin_count = 0, ~IsResident(p), pins[x] > 0,
         page_table' = [Freed(f) EXCEPT ![p] = f]
  PROVE  page_table'[x] = page_table[x]
<1>1. /\ page_table \in [PageId -> Frame \cup {-1}]
      /\ frames[f].page_id \in PageId \cup {-1}
      /\ pins \in [PageId -> Nat]
  BY Types DEF IInv
<1>2. x # p
  BY <1>1 DEF IInv, PinCountsMatchHolders
<1>3. x # frames[f].page_id
  <2>1. frames[f].page_id # NoPage /\ frames[f].page_id = x => page_table[x] = f
    BY DEF IInv, PageTableIsExact
  <2>2. page_table[x] = f => pins[x] = 0
    BY Types DEF IInv, PinCountsMatchHolders, IsResident, NoFrame
  <2> QED BY <2>1, <2>2, <1>1, Types DEF IInv, NoPage
<1> QED BY <1>1, <1>2, <1>3, Types DEF IInv, Freed, NoPage, NoFrame

(* One step of the pool.                                                   *)
LEMMA StepKeepsPinnedPages ==
  ASSUME IInv, [Next]_vars, NEW x \in PageId, pins[x] > 0, pins'[x] > 0
  PROVE  page_table'[x] = page_table[x]
<1>1. CASE page_table' = page_table
  BY <1>1
<1>2. ASSUME NEW p \in PageId, FetchByEviction(p)
      PROVE  page_table'[x] = page_table[x]
  <2> DEFINE f == LRU!Victim(replacer)
  <2>1. /\ f \in Frame /\ frames[f].pin_count = 0
        /\ Freed(f) = [page_table EXCEPT ![frames[f].page_id] = NoFrame]
    BY <1>2, VictimFrame DEF FetchByEviction
  <2>2. ~IsResident(p) /\ page_table' = Reassigned(f, p)
    BY <1>2 DEF FetchByEviction
  <2> HIDE DEF f
  <2>3. page_table' = [Freed(f) EXCEPT ![p] = f]
    BY <2>1, <2>2 DEF Reassigned
  <2> QED BY <2>1, <2>2, <2>3, OnlyUnpinnedPagesMove
<1>3. ASSUME NEW p \in PageId, FetchIntoFree(p)
      PROVE  page_table'[x] = page_table[x]
  <2> DEFINE f == Head(free_frames)
  <2>1. f \in Frame /\ frames[f].pin_count = 0 /\ Freed(f) = page_table
    BY <1>3, FreeFrame DEF FetchIntoFree
  <2>2. ~IsResident(p) /\ page_table' = [page_table EXCEPT ![p] = f]
    BY <1>3 DEF FetchIntoFree
  <2> HIDE DEF f
  <2> QED BY <2>1, <2>2, OnlyUnpinnedPagesMove
<1>4. CASE NewByEviction
  <2> DEFINE f     == LRU!Victim(replacer)
             saved == WriteBack(f)
             p     == Disk!AllocatedId(saved)
  <2>1. /\ f \in Frame /\ frames[f].page_id \in PageId /\ frames[f].pin_count = 0
        /\ Freed(f) = [page_table EXCEPT ![frames[f].page_id] = NoFrame]
    BY <1>4, VictimFrame DEF NewByEviction
  <2>2. p < MAX_PAGES /\ page_table' = Reassigned(f, p)
    BY <1>4 DEF NewByEviction, NewInFrame
  <2> HIDE DEF f
  <2>3. KeepsPages(f, saved) /\ saved.num_pages = disk.num_pages
    BY <2>1, WriteBackProps
  <2> HIDE DEF saved
  <2>4. p \in PageId /\ ~IsResident(p)
    BY <2>1, <2>2, <2>3, AllocateProps
  <2> HIDE DEF p
  <2>5. page_table' = [Freed(f) EXCEPT ![p] = f]
    BY <2>1, <2>2 DEF Reassigned
  <2> QED BY <2>1, <2>4, <2>5, OnlyUnpinnedPagesMove
<1>5. CASE NewInFree
  <2> DEFINE f == Head(free_frames)
             p == Disk!AllocatedId(disk)
  <2>1. /\ f \in Frame /\ frames[f].pin_count = 0 /\ Freed(f) = page_table
        /\ KeepsPages(f, disk)
    BY <1>5, FreeFrame DEF NewInFree
  <2>2. p < MAX_PAGES /\ page_table' = [page_table EXCEPT ![p] = f]
    BY <1>5 DEF NewInFree, NewInFrame
  <2> HIDE DEF f
  <2>3. p \in PageId /\ ~IsResident(p)
    BY <2>1, <2>2, AllocateProps
  <2> HIDE DEF p
  <2>4. page_table' = [Freed(f) EXCEPT ![p] = f]
    BY <2>1, <2>2
  <2> QED BY <2>1, <2>3, <2>4, OnlyUnpinnedPagesMove
<1>6. CASE Restart
  BY <1>6 DEF Restart
<1>7. \/ page_table' = page_table
      \/ \E p \in PageId : FetchByEviction(p) \/ FetchIntoFree(p)
      \/ NewByEviction \/ NewInFree \/ Restart
  BY DEF Next, FetchPage, FetchHit, FetchFails, NewPage, NewFails, GivesNull,
         UnpinPage, Write, vars
<1> QED BY <1>1, <1>2, <1>3, <1>4, <1>5, <1>6, <1>7

(* The Page* that FetchPage or NewPage returned stays valid until its      *)
(* caller unpins the page: no other call gives the frame to another page.  *)
THEOREM PinnedPagesDoStayPut == Spec => PinnedPagesStayPut
<1>1. IInv /\ [Next]_vars =>
        [\A p \in PageId :
           pins[p] > 0 /\ pins'[p] > 0 => page_table'[p] = page_table[p]]_vars
  BY StepKeepsPinnedPages
<1> QED BY <1>1, IInvHolds, PTL DEF Spec, PinnedPagesStayPut

-----------------------------------------------------------------------------
(* The pool implements PageStore.                                          *)

(* What PageStore sees of the pool.                                        *)
Contents == [p \in PageId |-> Content(p)]

Held == {p \in PageId : pins[p] > 0}

(* The gap that a write past the end of the file leaves, and everything    *)
(* beyond the end, is zero: so is a page that is allocated after a restart.*)
ZeroPastEnd == \A p \in PageId : p >= disk.extent => disk.file[p] = Zero

(* PageStore counts the pinned pages.                                      *)
LEMMA RoomIsACount == Store!HasRoom <=> Cardinality(Held) < POOL_SIZE
<1>1. Store!Pinned = Held
  BY DEF Store!Pinned, Store!PageId, Held, PageId, Disk!PageId
<1> QED BY <1>1 DEF Store!HasRoom, Store!Cardinality, Cardinality

LEMMA FrameCount == IsFiniteSet(Frame) /\ Cardinality(Frame) = POOL_SIZE
BY PoolAssumption, FS_Interval DEF Frame

(* Pinned pages are cached, each in a frame of its own: as long as one     *)
(* frame caches no pinned page, fewer than POOL_SIZE pages are pinned.     *)
LEMMA SpareFrameIsRoom ==
  ASSUME IInv, NEW f \in Frame, frames[f].pin_count = 0
  PROVE  Store!HasRoom
<1> DEFINE where == [p \in Held |-> page_table[p]]
<1>1. /\ page_table \in [PageId -> Frame \cup {-1}]
      /\ pins \in [PageId -> Nat]
  BY Types DEF IInv
<1>2. ASSUME NEW p \in Held
      PROVE  page_table[p] \in Frame \ {f} /\ frames[page_table[p]].page_id = p
  <2>1. p \in PageId /\ pins[p] > 0
    BY DEF Held
  <2>2. page_table[p] # -1 /\ frames[page_table[p]].pin_count = pins[p]
    BY <2>1 DEF IInv, PinCountsMatchHolders, IsResident, NoFrame
  <2>3. frames[page_table[p]].page_id = p
    BY <2>1, <2>2 DEF IInv, PageTableIsExact, IsResident, NoFrame
  <2> QED BY <1>1, <2>1, <2>2, <2>3
<1>3. where \in Injection(Held, Frame \ {f})
  BY <1>2 DEF Injection, IsInjective
<1>4. IsFiniteSet(Frame \ {f}) /\ Cardinality(Frame \ {f}) = POOL_SIZE - 1
  BY FrameCount, FS_RemoveElement
<1> HIDE DEF where
<1>5. IsFiniteSet(Held) /\ Cardinality(Held) <= POOL_SIZE - 1
  BY <1>3, <1>4, FS_Injection
<1>6. Cardinality(Held) \in Nat
  BY <1>5, FS_CardinalityType
<1> QED BY <1>5, <1>6, RoomIsACount, PoolAssumption

(* A call finds no frame only when every frame caches a pinned page.       *)
LEMMA NoFrameIsNoRoom ==
  ASSUME IInv, NoFrameLeft
  PROVE  ~Store!HasRoom
<1> DEFINE what == [f \in Frame |-> frames[f].page_id]
<1>1. /\ frames \in [Frame -> [page_id : PageId \cup {-1}, pin_count : Int,
                                is_dirty : BOOLEAN, data : Data]]
      /\ page_table \in [PageId -> Frame \cup {-1}]
      /\ pins \in [PageId -> Nat] /\ -1 \notin Frame
  BY Types DEF IInv
<1>2. \A f \in Frame : ~Contains(free_frames, f) /\ ~Contains(replacer, f)
  BY DEF NoFrameLeft, Contains
<1>3. ASSUME NEW f \in Frame
      PROVE  frames[f].page_id \in Held /\ page_table[frames[f].page_id] = f
  <2> DEFINE p == frames[f].page_id
  <2>1. p # -1 /\ frames[f].pin_count # 0
    BY <1>2 DEF IInv, EveryFrameIsAccountedFor, NoPage
  <2>2. p \in PageId /\ page_table[p] = f
    BY <2>1, <1>1 DEF IInv, PageTableIsExact, NoPage
  <2>3. pins[p] = frames[f].pin_count
    BY <2>2, <1>1 DEF IInv, PinCountsMatchHolders, IsResident, NoFrame
  <2> QED BY <2>1, <2>2, <2>3, <1>1 DEF Held
<1>4. what \in Injection(Frame, Held)
  BY <1>3 DEF Injection, IsInjective
<1>5. IsFiniteSet(Held)
  <2>1. IsFiniteSet(PageId)
    BY PoolAssumption, FS_Interval DEF PageId, Disk!PageId
  <2> QED BY <2>1, FS_Subset DEF Held
<1> HIDE DEF what
<1>6. POOL_SIZE <= Cardinality(Held)
  BY <1>4, <1>5, FS_Injection, FrameCount
<1>7. Cardinality(Held) \in Nat
  BY <1>5, FS_CardinalityType
<1> QED BY <1>6, <1>7, RoomIsACount, PoolAssumption

(* Writing the victim's page back: the file's copy is what the frame held. *)
LEMMA WriteBackSaves ==
  ASSUME IInv, NEW f \in Frame,
         frames[f].page_id \in PageId, frames[f].pin_count = 0
  PROVE  /\ WriteBack(f).file[frames[f].page_id] = frames[f].data
         /\ ZeroPastEnd => \A x \in PageId :
              x >= WriteBack(f).extent => WriteBack(f).file[x] = Zero
<1> DEFINE p == frames[f].page_id
<1>1. /\ disk.file \in [PageId -> Data] /\ disk.extent \in Nat /\ PageId \subseteq Nat
      /\ p \in Nat
      /\ disk \in [file : [PageId -> Data], extent : 0 .. MAX_PAGES,
                   num_pages : 0 .. MAX_PAGES, fail : BOOLEAN]
      /\ ~disk.fail
  BY Types DEF IInv, IdleIsClean
<1>2. CASE frames[f].is_dirty
  <2> DEFINE saved == WriteBack(f)
             bytes == [disk.file EXCEPT ![p] = frames[f].data]
             end   == IF p < disk.extent THEN disk.extent ELSE p + 1
             count == Disk!Counted(disk, p)
  <2>1. saved = [disk EXCEPT !.file = bytes, !.extent = end, !.num_pages = count]
    <3>1. Disk!Extended(disk, p) = end
      BY DEF Disk!Extended, Disk!IsStored
    <3>2. saved = Disk!WritePage(disk, p, frames[f].data)
      BY <1>2 DEF WriteBack
    <3> QED BY <3>1, <3>2, <1>1 DEF Disk!WritePage
  <2>2. bytes[p] = frames[f].data /\ \A x \in PageId : x # p => bytes[x] = disk.file[x]
    BY <1>1
  <2>3. disk.extent <= end /\ p < end /\ end \in Nat
    BY <1>1
  <2> HIDE DEF bytes, end, count
  <2>4. saved.file = bytes /\ saved.extent = end
    BY <2>1, <1>1
  <2> HIDE DEF saved
  <2>5. ASSUME ZeroPastEnd, NEW x \in PageId, x >= end
        PROVE  bytes[x] = Zero
    <3>1. x # p /\ x >= disk.extent
      BY <2>3, <2>5, <1>1
    <3> QED BY <3>1, <2>2, <2>5 DEF ZeroPastEnd
  <2>6. saved.file[p] = frames[f].data
    BY <2>2, <2>4
  <2>7. ZeroPastEnd => \A x \in PageId : x >= saved.extent => saved.file[x] = Zero
    BY <2>4, <2>5
  <2> QED BY <2>6, <2>7 DEF saved
<1>3. CASE ~frames[f].is_dirty
  <2>1. WriteBack(f) = disk
    BY <1>3 DEF WriteBack
  <2>2. page_table[p] = f /\ pins[p] = 0
    BY Types DEF IInv, NoFrame, NoPage, PageTableIsExact, PinCountsMatchHolders, IsResident
  <2>3. disk.file[p] = frames[f].data
    BY <2>2, <1>3, Types DEF IInv, IdleIsClean, NoUpdateIsLost, NoFrame, IsResident
  <2> QED BY <2>1, <2>3 DEF ZeroPastEnd
<1> QED BY <1>2, <1>3

(* Giving a frame to page p changes the content of no other page.          *)
LEMMA PlacingKeepsContents ==
  ASSUME IInv,
         NEW f \in Frame, NEW p \in PageId, NEW frame \in Page,
         frames[f].pin_count = 0,
         ~IsResident(p),
         frames' = [frames EXCEPT ![f] = frame],
         page_table' = [Freed(f) EXCEPT ![p] = f],
         KeepsPages(f, disk'),
         frames[f].page_id # NoPage => disk'.file[frames[f].page_id] = frames[f].data
  PROVE  Contents' = [Contents EXCEPT ![p] = frame.data]
<1> DEFINE old == frames[f].page_id
<1>1. /\ frames \in [Frame -> [page_id : PageId \cup {-1}, pin_count : Int,
                                is_dirty : BOOLEAN, data : Data]]
      /\ page_table \in [PageId -> Frame \cup {-1}]
      /\ -1 \notin PageId /\ -1 \notin Frame
  BY Types DEF IInv
<1>2. old # -1 => old \in PageId /\ page_table[old] = f /\ old # p
  BY <1>1 DEF IInv, PageTableIsExact, IsResident, NoFrame, NoPage
<1>3. \A x \in PageId : page_table'[x] = IF x = p THEN f ELSE IF x = old THEN -1 ELSE page_table[x]
  BY <1>1, <1>2 DEF Freed, NoPage, NoFrame
<1>4. \A x \in Frame : frames'[x] = IF x = f THEN frame ELSE frames[x]
  BY <1>1
<1>5. ASSUME NEW x \in PageId
      PROVE  Content(x)' = IF x = p THEN frame.data ELSE Content(x)
  <2>1. CASE x = p
    BY <2>1, <1>1, <1>3, <1>4 DEF Content, IsResident, NoFrame
  <2>2. CASE x # p /\ x = old
    <3>1. Content(x)' = disk'.file[old]
      BY <2>2, <1>3 DEF Content, IsResident, NoFrame
    <3>2. Content(x) = frames[f].data
      BY <2>2, <1>1, <1>2 DEF Content, IsResident, NoFrame
    <3> QED BY <3>1, <3>2, <2>2, <1>1 DEF NoPage
  <2>3. CASE x # p /\ x # old
    <3>1. page_table'[x] = page_table[x] /\ disk'.file[x] = disk.file[x]
      BY <2>3, <1>3 DEF KeepsPages
    <3>2. page_table[x] # -1 => page_table[x] \in Frame /\ page_table[x] # f
      BY <2>3, <1>1 DEF IInv, PageTableIsExact, IsResident, NoFrame
    <3> QED BY <2>3, <3>1, <3>2, <1>4 DEF Content, IsResident, NoFrame
  <2> QED BY <2>1, <2>2, <2>3
<1> QED BY <1>5 DEF Contents

(* PageStore's Fetch, of a page that can be pinned.                        *)
LEMMA FetchGives ==
  ASSUME IInv, NEW p \in PageId, p < disk.num_pages,
         Store!CanPin(p), GivesPin(p),
         returned' = Content(p), Contents' = Contents,
         disk'.num_pages = disk.num_pages
  PROVE  Store!Fetch(p)
<1>1. Contents[p] = Content(p)
  BY DEF Contents
<1> QED BY <1>1 DEF Store!Fetch, Store!PlusPin, GivesPin, Contents, PageId, Store!PageId, Disk!PageId

(* FetchPage of a resident page.                                           *)
LEMMA HitIsFetch ==
  ASSUME IInv, NEW p \in PageId, p < disk.num_pages, FetchHit(p)
  PROVE  Store!Fetch(p) /\ (ZeroPastEnd => ZeroPastEnd')
<1> DEFINE f == page_table[p]
<1>1. /\ frames \in [Frame -> [page_id : PageId \cup {-1}, pin_count : Int,
                                is_dirty : BOOLEAN, data : Data]]
      /\ page_table \in [PageId -> Frame \cup {-1}]
      /\ pins \in [PageId -> Nat] /\ -1 \notin Frame
  BY Types DEF IInv
<1>2. f \in Frame /\ frames[f].pin_count = pins[p] /\ IsResident(p)
  BY <1>1 DEF FetchHit, IsResident, NoFrame, IInv, PinCountsMatchHolders
<1>3. /\ \A x \in Frame : frames'[x].data = frames[x].data
      /\ UNCHANGED <<page_table, disk>>
      /\ GivesPin(p) /\ returned' = frames[f].data
  BY <1>1, <1>2 DEF FetchHit, Pinned
<1> HIDE DEF f
<1>4. \A x \in PageId : Content(x)' = Content(x)
  BY <1>1, <1>3 DEF Content, IsResident, NoFrame
<1>5. Contents' = Contents
  BY <1>4 DEF Contents
<1>6. returned' = Content(p)
  BY <1>2, <1>3 DEF Content, f
<1>7. Store!CanPin(p)
  BY <1>1, <1>2, SpareFrameIsRoom DEF Store!CanPin
<1> QED BY <1>3, <1>5, <1>6, <1>7, FetchGives DEF ZeroPastEnd

(* FetchPage into the frame f that caches another page, or none.           *)
LEMMA PlacingIsFetch ==
  ASSUME IInv,
         NEW f \in Frame, NEW p \in PageId, NEW frame \in Page, NEW dk,
         frames[f].pin_count = 0,
         p < disk.num_pages, ~IsResident(p),
         frames' = [frames EXCEPT ![f] = frame],
         page_table' = [Freed(f) EXCEPT ![p] = f],
         KeepsPages(f, dk), dk.num_pages = disk.num_pages,
         frames[f].page_id # NoPage => dk.file[frames[f].page_id] = frames[f].data,
         disk' = Disk!AfterRead(dk),
         frame.data = Disk!BytesRead(dk, p, frames[f].data),
         returned' = frame.data, GivesPin(p)
  PROVE  Store!Fetch(p) /\ disk' = dk
<1>1. disk' = dk /\ frame.data = dk.file[p]
  BY ReadProps
<1>2. p # frames[f].page_id
  BY Types DEF IInv, PageTableIsExact, IsResident, NoFrame, NoPage
<1>3. dk.file[p] = disk.file[p]
  BY <1>2 DEF KeepsPages
<1>4. frame.data = Content(p)
  BY <1>1, <1>3 DEF Content
<1>5. Contents' = [Contents EXCEPT ![p] = frame.data]
  <2>1. KeepsPages(f, disk')
    BY <1>1
  <2>2. frames[f].page_id # NoPage => disk'.file[frames[f].page_id] = frames[f].data
    BY <1>1
  <2> QED BY <2>1, <2>2, PlacingKeepsContents
<1>6. Contents' = Contents
  BY <1>4, <1>5 DEF Contents
<1>7. Store!CanPin(p)
  BY SpareFrameIsRoom DEF Store!CanPin
<1> QED BY <1>1, <1>4, <1>6, <1>7, FetchGives

(* FetchPage into the victim's frame.                                      *)
LEMMA EvictionIsFetch ==
  ASSUME IInv, NEW p \in PageId, p < disk.num_pages, FetchByEviction(p)
  PROVE  Store!Fetch(p) /\ (ZeroPastEnd => ZeroPastEnd')
<1> DEFINE f     == LRU!Victim(replacer)
           saved == WriteBack(f)
           bytes == Disk!BytesRead(saved, p, frames[f].data)
           frame == [page_id |-> p, pin_count |-> 1, is_dirty |-> FALSE, data |-> bytes]
<1>1. /\ f \in Frame
      /\ frames[f].page_id \in PageId /\ frames[f].pin_count = 0
      /\ Freed(f) = [page_table EXCEPT ![frames[f].page_id] = NoFrame]
  BY VictimFrame DEF FetchByEviction
<1>2. /\ ~IsResident(p)
      /\ frames' = [frames EXCEPT ![f] = frame]
      /\ page_table' = Reassigned(f, p)
      /\ disk' = Disk!AfterRead(saved)
      /\ returned' = bytes
      /\ GivesPin(p)
  BY DEF FetchByEviction
<1> HIDE DEF f
<1>3. /\ KeepsPages(f, saved) /\ saved.num_pages = disk.num_pages
      /\ saved.file[frames[f].page_id] = frames[f].data
      /\ ZeroPastEnd => \A x \in PageId : x >= saved.extent => saved.file[x] = Zero
  BY <1>1, WriteBackProps, WriteBackSaves
<1>4. page_table' = [Freed(f) EXCEPT ![p] = f]
  BY <1>1, <1>2 DEF Reassigned
<1> HIDE DEF saved
<1>5. bytes \in Data
  BY <1>1, <1>2, <1>3, ReadProps
<1>6. frame \in Page /\ frame.data = bytes
  BY <1>5 DEF Page
<1> HIDE DEF frame
<1>7. Store!Fetch(p) /\ disk' = saved
  BY <1>1, <1>2, <1>3, <1>4, <1>6, PlacingIsFetch
<1> QED BY <1>3, <1>7 DEF ZeroPastEnd

(* FetchPage into a frame never used.                                      *)
LEMMA FreeFrameIsFetch ==
  ASSUME IInv, NEW p \in PageId, p < disk.num_pages, FetchIntoFree(p)
  PROVE  Store!Fetch(p) /\ (ZeroPastEnd => ZeroPastEnd')
<1> DEFINE f     == Head(free_frames)
           bytes == Disk!BytesRead(disk, p, frames[f].data)
           frame == [page_id |-> p, pin_count |-> 1,
                     is_dirty |-> frames[f].is_dirty, data |-> bytes]
<1>1. /\ f \in Frame
      /\ frames[f].page_id = NoPage /\ frames[f].pin_count = 0
      /\ KeepsPages(f, disk)
      /\ Freed(f) = page_table
  BY FreeFrame DEF FetchIntoFree
<1>2. /\ ~IsResident(p)
      /\ page_table' = [Freed(f) EXCEPT ![p] = f]
      /\ disk' = Disk!AfterRead(disk)
      /\ returned' = bytes
      /\ GivesPin(p)
  BY <1>1 DEF FetchIntoFree
<1>3. frames' = [frames EXCEPT ![f] = frame]
  BY DEF FetchIntoFree
<1> HIDE DEF f
<1>4. bytes \in Data
  BY <1>1, <1>2, ReadProps
<1>5. frames[f].is_dirty \in BOOLEAN
  BY <1>1 DEF IInv, TypeOK, Page
<1>6. frame \in Page /\ frame.data = bytes
  BY <1>4, <1>5 DEF Page
<1> HIDE DEF frame
<1>7. Store!Fetch(p) /\ disk' = disk
  BY <1>1, <1>2, <1>3, <1>6, PlacingIsFetch
<1> QED BY <1>7 DEF ZeroPastEnd

(* FetchPage that finds no frame.                                          *)
LEMMA FailureIsFetch ==
  ASSUME IInv, NEW p \in PageId, p < disk.num_pages, FetchFails(p)
  PROVE  Store!Fetch(p) /\ (ZeroPastEnd => ZeroPastEnd')
<1>1. ~Store!HasRoom /\ GivesNull /\ ~IsResident(p)
  BY NoFrameIsNoRoom DEF FetchFails
<1>2. pins[p] = 0
  BY <1>1 DEF IInv, PinCountsMatchHolders
<1>3. Contents' = Contents /\ UNCHANGED <<disk, pins>> /\ returned' = Null
  BY <1>1 DEF GivesNull, Contents, Content, IsResident
<1>4. ~Store!CanPin(p)
  BY <1>1, <1>2 DEF Store!CanPin
<1> QED BY <1>3, <1>4 DEF Store!Fetch, Contents, ZeroPastEnd

(* NewPage, once it has a frame f.                                         *)
LEMMA NewInFrameIsNew ==
  ASSUME IInv, NEW f \in Frame, NEW dk, NEW p, p = Disk!AllocatedId(dk),
         frames[f].pin_count = 0,
         KeepsPages(f, dk), dk.num_pages = disk.num_pages,
         frames[f].page_id # NoPage => dk.file[frames[f].page_id] = frames[f].data,
         \A x \in PageId : x >= dk.extent => dk.file[x] = Zero,
         NewInFrame(f, dk),
         page_table' = [Freed(f) EXCEPT ![p] = f]
  PROVE  Store!New /\ ZeroPastEnd'
<1> DEFINE frame == [page_id |-> p, pin_count |-> 1, is_dirty |-> TRUE, data |-> Zero]
<1>1. /\ p < MAX_PAGES
      /\ frames' = [frames EXCEPT ![f] = frame]
      /\ disk' = Disk!AfterAllocate(dk)
      /\ returned' = Zero
      /\ GivesPin(p)
  BY DEF NewInFrame
<1>2. /\ p = disk.num_pages /\ p \in PageId
      /\ ~IsResident(p)
      /\ KeepsPages(f, disk')
      /\ disk'.num_pages = p + 1
  BY <1>1, AllocateProps
<1>3. frame \in Page /\ frame.data = Zero
  BY <1>2, PoolAssumption DEF Page
<1>4. disk'.file = dk.file /\ disk'.extent = dk.extent
  BY <1>1 DEF Disk!AfterAllocate, KeepsPages, Disk!DiskType
<1> HIDE DEF frame
<1>5. Contents' = [Contents EXCEPT ![p] = frame.data]
  <2>1. frames[f].page_id # NoPage => disk'.file[frames[f].page_id] = frames[f].data
    BY <1>4
  <2> QED BY <2>1, <1>1, <1>2, <1>3, PlacingKeepsContents, ZenonT(30)
<1>6. Contents' = [Contents EXCEPT ![p] = Zero]
  BY <1>3, <1>5
<1>7. Store!HasRoom
  BY SpareFrameIsRoom
<1>8. ZeroPastEnd'
  BY <1>4 DEF ZeroPastEnd
<1> QED BY <1>1, <1>2, <1>6, <1>7, <1>8 DEF Store!New, Store!PlusPin, GivesPin, Contents

(* NewPage into the victim's frame.                                        *)
LEMMA EvictionIsNew ==
  ASSUME IInv, ZeroPastEnd, NewByEviction
  PROVE  Store!New /\ ZeroPastEnd'
<1> DEFINE f     == LRU!Victim(replacer)
           saved == WriteBack(f)
<1>1. /\ f \in Frame
      /\ frames[f].page_id \in PageId /\ frames[f].pin_count = 0
      /\ Freed(f) = [page_table EXCEPT ![frames[f].page_id] = NoFrame]
  BY VictimFrame DEF NewByEviction
<1>2. NewInFrame(f, saved) /\ page_table' = Reassigned(f, Disk!AllocatedId(saved))
  BY DEF NewByEviction
<1> HIDE DEF f
<1>3. /\ KeepsPages(f, saved) /\ saved.num_pages = disk.num_pages
      /\ saved.file[frames[f].page_id] = frames[f].data
      /\ \A x \in PageId : x >= saved.extent => saved.file[x] = Zero
  BY <1>1, WriteBackProps, WriteBackSaves
<1>4. page_table' = [Freed(f) EXCEPT ![Disk!AllocatedId(saved)] = f]
  BY <1>1, <1>2 DEF Reassigned
<1> HIDE DEF saved
<1> QED BY <1>1, <1>2, <1>3, <1>4, NewInFrameIsNew

(* NewPage into a frame never used.                                        *)
LEMMA FreeFrameIsNew ==
  ASSUME IInv, ZeroPastEnd, NewInFree
  PROVE  Store!New /\ ZeroPastEnd'
<1> DEFINE f == Head(free_frames)
<1>1. /\ f \in Frame
      /\ frames[f].page_id = NoPage /\ frames[f].pin_count = 0
      /\ KeepsPages(f, disk)
      /\ Freed(f) = page_table
  BY FreeFrame DEF NewInFree
<1>2. /\ NewInFrame(f, disk)
      /\ page_table' = [Freed(f) EXCEPT ![Disk!AllocatedId(disk)] = f]
  BY <1>1 DEF NewInFree
<1> HIDE DEF f
<1>3. \A x \in PageId : x >= disk.extent => disk.file[x] = Zero
  BY DEF ZeroPastEnd
<1> QED BY <1>1, <1>2, <1>3, NewInFrameIsNew

(* NewPage that finds no frame: no page id is lost.                        *)
LEMMA FailureIsNew ==
  ASSUME IInv, NewFails
  PROVE  Store!New /\ (ZeroPastEnd => ZeroPastEnd')
<1>1. ~Store!HasRoom /\ GivesNull
  BY NoFrameIsNoRoom DEF NewFails
<1>2. Contents' = Contents /\ UNCHANGED <<disk, pins>> /\ returned' = Null
  BY <1>1 DEF GivesNull, Contents, Content, IsResident
<1> QED BY <1>1, <1>2 DEF Store!New, Contents, ZeroPastEnd

(* UnpinPage.                                                              *)
LEMMA UnpinIsUnpin ==
  ASSUME IInv, NEW p \in PageId, NEW is_dirty \in BOOLEAN, UnpinPage(p, is_dirty)
  PROVE  Store!Unpin(p) /\ (ZeroPastEnd => ZeroPastEnd')
<1> DEFINE f == page_table[p]
<1>1. /\ frames \in [Frame -> Page] /\ f \in Frame
      /\ page_table \in [PageId -> Frame \cup {-1}]
  BY Types DEF IInv, TypeOK, UnpinPage, IsResident, NoFrame
<1>2. /\ frames' = [frames EXCEPT ![f] = Unpinned(@, is_dirty)]
      /\ pins[p] > 0 /\ pins' = [pins EXCEPT ![p] = @ - 1]
      /\ UNCHANGED <<page_table, disk, returned>>
  BY DEF UnpinPage
<1>3. Unpinned(frames[f], is_dirty).data = frames[f].data
  BY <1>1, UnpinnedProps
<1> HIDE DEF f
<1>4. \A x \in Frame : frames'[x].data = frames[x].data
  BY <1>1, <1>2, <1>3
<1>5. \A x \in PageId : Content(x)' = Content(x)
  BY <1>1, <1>2, <1>4 DEF Content, IsResident, NoFrame
<1>6. Contents' = Contents
  BY <1>5 DEF Contents
<1> QED BY <1>2, <1>6 DEF Store!Unpin, Store!MinusPin, Contents, ZeroPastEnd

(* A caller's write through its Page*.                                     *)
LEMMA WriteIsWrite ==
  ASSUME IInv, NEW p \in PageId, NEW bytes \in Data, Write(p, bytes)
  PROVE  Store!Write(p, bytes) /\ (ZeroPastEnd => ZeroPastEnd')
<1> DEFINE f == page_table[p]
<1>1. /\ frames \in [Frame -> [page_id : PageId \cup {-1}, pin_count : Int,
                                is_dirty : BOOLEAN, data : Data]]
      /\ page_table \in [PageId -> Frame \cup {-1}]
      /\ pins \in [PageId -> Nat] /\ -1 \notin Frame
  BY Types DEF IInv
<1>2. f \in Frame /\ IsResident(p) /\ pins[p] > 0
  BY <1>1 DEF Write, IsResident, NoFrame, IInv, PinCountsMatchHolders
<1>3. /\ \A x \in Frame : frames'[x].data = IF x = f THEN bytes ELSE frames[x].data
      /\ UNCHANGED <<page_table, disk, pins, returned>>
  BY <1>1, <1>2 DEF Write
<1>4. \A x \in PageId : IsResident(x) /\ page_table[x] = f => x = p
  BY <1>2 DEF IInv, PageTableIsExact
<1> HIDE DEF f
<1>5. \A x \in PageId : Content(x)' = IF x = p THEN bytes ELSE Content(x)
  BY <1>1, <1>2, <1>3, <1>4 DEF Content, IsResident, NoFrame, f
<1>6. Contents' = [Contents EXCEPT ![p] = bytes]
  BY <1>5 DEF Contents
<1> QED BY <1>2, <1>3, <1>6 DEF Store!Write, Contents, ZeroPastEnd

(* A restart: the pages that are not in the file are gone, and their ids   *)
(* are handed out again.                                                   *)
LEMMA RestartIsRestart ==
  ASSUME IInv, ZeroPastEnd, Restart
  PROVE  Store!Restart /\ ZeroPastEnd'
<1>1. /\ disk \in [file : [PageId -> Data], extent : 0 .. MAX_PAGES,
                   num_pages : 0 .. MAX_PAGES, fail : BOOLEAN]
      /\ disk.file \in [PageId -> Data]
      /\ disk.extent \in Nat /\ disk.num_pages \in Nat
  BY Types DEF IInv
<1>2. disk'.file = disk.file /\ disk'.extent = disk.extent /\ disk'.num_pages = disk.extent
  BY <1>1 DEF Restart, Disk!Opened
<1>3. \A p \in PageId : Content(p)' = disk.file[p]
  BY <1>2 DEF Restart, EmptyTable, Content, IsResident
<1>4. Contents' = disk.file
  BY <1>1, <1>3 DEF Contents
<1>5. disk'.num_pages \in 0 .. disk.num_pages
  BY <1>1, <1>2 DEF IInv, NextIdIsFresh
<1>6. PageId = Store!PageId
  BY DEF PageId, Disk!PageId, Store!PageId
<1>7. \A p \in PageId : p >= disk'.num_pages => disk.file[p] = Zero
  BY <1>2 DEF ZeroPastEnd
<1>8. pins' = [p \in PageId |-> 0] /\ returned' = Null
  BY DEF Restart
<1> QED BY <1>1, <1>2, <1>4, <1>5, <1>6, <1>7, <1>8
        DEF Store!Restart, Contents, ZeroPastEnd

(* A pool just created, on any file.                                       *)
LEMMA InitIsInit == Init => Store!Init /\ ZeroPastEnd
<1> SUFFICES ASSUME Init
             PROVE  Store!Init /\ ZeroPastEnd
  OBVIOUS
<1>1. /\ disk \in Disk!DiskType /\ disk.num_pages = disk.extent
      /\ disk.file \in [PageId -> Data] /\ disk.num_pages \in 0 .. MAX_PAGES
  BY OpenedProps DEF Init, Disk!DiskType, PageId
<1>2. ZeroPastEnd
  BY DEF Init, ZeroPastEnd
<1>3. \A p \in PageId : Content(p) = disk.file[p]
  BY DEF Init, EmptyTable, Content, IsResident
<1>4. Contents = disk.file
  BY <1>1, <1>3 DEF Contents
<1>5. PageId = Store!PageId
  BY DEF PageId, Disk!PageId, Store!PageId
<1>6. pins = [p \in PageId |-> 0] /\ returned = Null
  BY DEF Init
<1> QED BY <1>1, <1>2, <1>4, <1>5, <1>6 DEF Store!Init, Contents, ZeroPastEnd

(* Every step of the pool is a step of PageStore, or none.                 *)
LEMMA StepImplementsStore ==
  IInv /\ ZeroPastEnd /\ [Next]_vars => [Store!Next]_(Store!vars) /\ ZeroPastEnd'
<1> SUFFICES ASSUME IInv, ZeroPastEnd, [Next]_vars
             PROVE  [Store!Next]_(Store!vars) /\ ZeroPastEnd'
  OBVIOUS
<1>1. PageId = Store!PageId
  BY DEF PageId, Disk!PageId, Store!PageId
<1>2. ASSUME NEW p \in PageId, FetchPage(p)
      PROVE  Store!Fetch(p) /\ ZeroPastEnd'
  <2>1. p < disk.num_pages
    BY <1>2 DEF FetchPage
  <2>2. CASE FetchHit(p)
    BY <2>1, <2>2, HitIsFetch
  <2>3. CASE FetchByEviction(p)
    BY <2>1, <2>3, EvictionIsFetch
  <2>4. CASE FetchIntoFree(p)
    BY <2>1, <2>4, FreeFrameIsFetch
  <2>5. CASE FetchFails(p)
    BY <2>1, <2>5, FailureIsFetch
  <2> QED BY <1>2, <2>2, <2>3, <2>4, <2>5 DEF FetchPage
<1>3. ASSUME NEW p \in PageId, NEW is_dirty \in BOOLEAN, UnpinPage(p, is_dirty)
      PROVE  Store!Unpin(p) /\ ZeroPastEnd'
  BY <1>3, UnpinIsUnpin
<1>4. ASSUME NEW p \in PageId, NEW bytes \in Data, Write(p, bytes)
      PROVE  Store!Write(p, bytes) /\ ZeroPastEnd'
  BY <1>4, WriteIsWrite
<1>5. CASE NewPage
  BY <1>5, EvictionIsNew, FreeFrameIsNew, FailureIsNew DEF NewPage, Store!Next
<1>6. CASE Restart
  BY <1>6, RestartIsRestart DEF Store!Next
<1>7. CASE UNCHANGED vars
  BY <1>7 DEF vars, Store!vars, Content, IsResident, ZeroPastEnd
<1>8. CASE \E p \in PageId : FetchPage(p)
  BY <1>1, <1>2, <1>8 DEF Store!Next
<1>9. CASE \E p \in PageId, is_dirty \in BOOLEAN : UnpinPage(p, is_dirty)
  BY <1>1, <1>3, <1>9 DEF Store!Next
<1>10. CASE \E p \in PageId, bytes \in Data : Write(p, bytes)
  BY <1>1, <1>4, <1>10 DEF Store!Next
<1> QED BY <1>5, <1>6, <1>7, <1>8, <1>9, <1>10 DEF Next

(* The buffer pool keeps the promise of an array of pages: what FetchPage  *)
(* returns is what was last written to the page, whatever was evicted in   *)
(* between, and a call fails only while POOL_SIZE pages are pinned.        *)
THEOREM PoolImplementsPageStore == Spec => ImplementsPageStore
<1>1. Init => Store!Init /\ ZeroPastEnd /\ IInv
  BY InitIsInit, InitHasIInv
<1> QED BY <1>1, StepImplementsStore, IInvHolds, PTL DEF Spec, ImplementsPageStore, Store!Spec
=============================================================================
