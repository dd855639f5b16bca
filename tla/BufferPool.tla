----------------------------- MODULE BufferPool -----------------------------
(***************************************************************************)
(* BufferPoolManager: POOL_SIZE frames that cache the pages of the         *)
(* database file, composed with the LRU replacer (as the queue it          *)
(* implements) and with the DiskManager.                                   *)
(*                                                                         *)
(* Each public operation is one step: the engine has one thread.  What the *)
(* operations are called with is what the callers in the repository, the   *)
(* B+ tree, the heap table and main.cpp, do with them:                     *)
(*   - a page id they pass was handed out by NewPage;                      *)
(*   - they unpin a page once for every pin they were given;               *)
(*   - a caller that changed a page passes is_dirty = true when it unpins  *)
(*     it.                                                                 *)
(* The variables pins and touched keep the account of that; they are no    *)
(* state of the program.                                                   *)
(***************************************************************************)
EXTENDS Integers, Sequences, SequencesExt

CONSTANTS
  POOL_SIZE,   \* the number of frames, 100 in the code
  CAPACITY,    \* the capacity given to the replacer, 100 in the code
  MAX_PAGES,   \* bound: page ids whose byte offset still fits in an int
  MAX_PINS,    \* bound: pins on one page at a time
  Data,        \* the contents a page can have
  Zero,        \* a page of zero bytes
  Null         \* the null Page*

ASSUME PoolAssumption ==
  /\ POOL_SIZE \in Nat \ {0}
  /\ CAPACITY \in Nat /\ CAPACITY >= POOL_SIZE
  /\ MAX_PAGES \in Nat
  /\ MAX_PINS \in Nat \ {0}
  /\ Zero \in Data
  /\ Null \notin Data

Frame   == 0 .. POOL_SIZE - 1
NoFrame == -1   \* page_table has no entry
NoPage  == -1   \* Page::page_id of a frame never used

VARIABLES
  frames,       \* Page frames[POOL_SIZE]
  page_table,   \* page id -> frame, NoFrame for an id that is not a key
  free_frames,  \* the frames never used yet, in list order
  replacer,     \* the queue of LRUQueue
  disk,         \* the record of DiskManager
  pins,         \* page id -> pins its callers hold
  touched,      \* page id -> changed since it was last unpinned as dirty
  returned      \* the bytes behind the Page* returned last, or Null

vars == <<frames, page_table, free_frames, replacer, disk, pins, touched, returned>>

Disk == INSTANCE DiskManager
LRU  == INSTANCE LRUQueue WITH order <- replacer, reply <- Null

PageId == Disk!PageId

Page == [page_id : PageId \cup {NoPage}, pin_count : Int,
         is_dirty : BOOLEAN, data : Data]

IsResident(p) == page_table[p] # NoFrame

-----------------------------------------------------------------------------
(* Start up.  Page() leaves the data of a frame uninitialized.             *)

EmptyFrames ==
  { [f \in Frame |-> [page_id |-> NoPage, pin_count |-> 0,
                      is_dirty |-> FALSE, data |-> bytes[f]]] :
      bytes \in [Frame -> Data] }

EmptyTable == [p \in PageId |-> NoFrame]

AllFrames == [i \in 1 .. POOL_SIZE |-> i - 1]

Init ==
  /\ frames \in EmptyFrames
  /\ page_table = EmptyTable
  /\ free_frames = AllFrames
  /\ replacer = <<>>
  /\ disk \in Disk!DiskType
  /\ \A p \in PageId : p >= disk.extent => disk.file[p] = Zero
  /\ disk = Disk!Opened(disk)
  /\ pins = [p \in PageId |-> 0]
  /\ touched = [p \in PageId |-> FALSE]
  /\ returned = Null

(* The process exits or dies, and the next one opens the file: the pool's  *)
(* destructor writes nothing.                                              *)
Restart ==
  /\ frames' \in EmptyFrames
  /\ page_table' = EmptyTable
  /\ free_frames' = AllFrames
  /\ replacer' = <<>>
  /\ disk' = Disk!Opened(disk)
  /\ pins' = [p \in PageId |-> 0]
  /\ touched' = [p \in PageId |-> FALSE]
  /\ returned' = Null

-----------------------------------------------------------------------------
(* Taking a frame for a page that is not resident, for FetchPage and       *)
(* NewPage: a free frame if there is one, else the replacer's victim,      *)
(* whose page is written back if it is dirty and leaves the page table.    *)

CanEvict == free_frames = <<>> /\ replacer # <<>>

NoFrameLeft == free_frames = <<>> /\ replacer = <<>>

(* A frame that is pinned once more, and one that is unpinned.             *)
Pinned_Once(frame) == [frame EXCEPT !.pin_count = 1]   \* faulty variant

Pinned(frame) == [frame EXCEPT !.pin_count = @ + 1]

Unpinned_LastDirty(frame, is_dirty) ==                 \* faulty variant
  [frame EXCEPT !.pin_count = @ - 1, !.is_dirty = is_dirty]

Unpinned(frame, is_dirty) ==
  [frame EXCEPT !.pin_count = @ - 1, !.is_dirty = @ \/ is_dirty]

WriteBack(f) ==
  IF frames[f].is_dirty
  THEN Disk!WritePage(disk, frames[f].page_id, frames[f].data)
  ELSE disk

Reassigned_StaleEntry(f, p) == [page_table EXCEPT ![p] = f]   \* faulty variant

Reassigned(f, p) == [page_table EXCEPT ![frames[f].page_id] = NoFrame, ![p] = f]

(* What the caller of a pointer-returning operation has afterwards.        *)
GivesPin(p) ==
  /\ pins' = [pins EXCEPT ![p] = @ + 1]
  /\ UNCHANGED touched

GivesNull ==
  /\ returned' = Null
  /\ UNCHANGED <<frames, page_table, free_frames, replacer, disk, pins, touched>>

-----------------------------------------------------------------------------
(* FetchPage(p), one action for each way through it.                       *)

FetchHit(p) ==
  LET f == page_table[p] IN
  /\ IsResident(p)
  /\ frames' = [frames EXCEPT ![f] = Pinned(@)]
  /\ replacer' = LRU!AfterPin(replacer, f)
  /\ returned' = frames[f].data
  /\ GivesPin(p)
  /\ UNCHANGED <<page_table, free_frames, disk>>

(* The victim's page is written out of the buffer before p is read into it.*)
FetchByEviction(p) ==
  LET f     == LRU!Victim(replacer)
      saved == WriteBack(f)
      bytes == Disk!BytesRead(saved, p, frames[f].data)
  IN
  /\ ~IsResident(p)
  /\ CanEvict
  /\ frames' = [frames EXCEPT ![f] = [page_id |-> p, pin_count |-> 1,
                                      is_dirty |-> FALSE, data |-> bytes]]
  /\ page_table' = Reassigned(f, p)
  /\ replacer' = LRU!AfterVictim(replacer)
  /\ disk' = Disk!AfterRead(saved)
  /\ returned' = bytes
  /\ GivesPin(p)
  /\ UNCHANGED free_frames

(* is_dirty is left as it is in a free frame.                              *)
FetchIntoFree(p) ==
  LET f     == Head(free_frames)
      bytes == Disk!BytesRead(disk, p, frames[f].data)
  IN
  /\ ~IsResident(p)
  /\ free_frames # <<>>
  /\ frames' = [frames EXCEPT ![f] = [page_id |-> p, pin_count |-> 1,
                                      is_dirty |-> @.is_dirty, data |-> bytes]]
  /\ page_table' = [page_table EXCEPT ![p] = f]
  /\ free_frames' = Tail(free_frames)
  /\ disk' = Disk!AfterRead(disk)
  /\ returned' = bytes
  /\ GivesPin(p)
  /\ UNCHANGED replacer

FetchFails(p) == ~IsResident(p) /\ NoFrameLeft /\ GivesNull

FetchPage(p) ==
  /\ p < disk.num_pages
  /\ pins[p] < MAX_PINS
  /\ FetchHit(p) \/ FetchByEviction(p) \/ FetchIntoFree(p) \/ FetchFails(p)

-----------------------------------------------------------------------------
(* NewPage.  The id is allocated only once there is a frame for the page,  *)
(* and the page starts dirty so that it reaches the file when it is        *)
(* evicted.                                                                *)

NewInFrame(f, dk) ==
  LET p == Disk!AllocatedId(dk) IN
  /\ p < MAX_PAGES
  /\ frames' = [frames EXCEPT ![f] = [page_id |-> p, pin_count |-> 1,
                                      is_dirty |-> TRUE, data |-> Zero]]
  /\ disk' = Disk!AfterAllocate(dk)
  /\ returned' = Zero
  /\ GivesPin(p)

NewByEviction ==
  LET f == LRU!Victim(replacer) IN
  /\ CanEvict
  /\ NewInFrame(f, WriteBack(f))
  /\ page_table' = Reassigned(f, Disk!AllocatedId(WriteBack(f)))
  /\ replacer' = LRU!AfterVictim(replacer)
  /\ UNCHANGED free_frames

NewInFree ==
  /\ free_frames # <<>>
  /\ NewInFrame(Head(free_frames), disk)
  /\ page_table' = [page_table EXCEPT ![Disk!AllocatedId(disk)] = Head(free_frames)]
  /\ free_frames' = Tail(free_frames)
  /\ UNCHANGED replacer

(* Faulty variant: the "Page Leak" of the comment in NewPage.              *)
NewFails_PageLeak ==
  /\ NoFrameLeft
  /\ disk.num_pages < MAX_PAGES /\ disk' = Disk!AfterAllocate(disk)
  /\ returned' = Null
  /\ UNCHANGED <<frames, page_table, free_frames, replacer, pins, touched>>

NewFails == NoFrameLeft /\ GivesNull

NewPage == NewByEviction \/ NewInFree \/ NewFails

-----------------------------------------------------------------------------
(* UnpinPage(p, is_dirty).  For a page that is not resident it returns     *)
(* false and changes nothing.                                              *)
UnpinPage(p, is_dirty) ==
  LET f == page_table[p] IN
  /\ pins[p] > 0
  /\ touched[p] /\ pins[p] = 1 => is_dirty
  /\ IsResident(p)
  /\ frames' = [frames EXCEPT ![f] = Unpinned(@, is_dirty)]
  /\ replacer' = IF Unpinned(frames[f], is_dirty).pin_count = 0
                 THEN LRU!AfterUnpin(replacer, f) ELSE replacer
  /\ pins' = [pins EXCEPT ![p] = @ - 1]
  /\ touched' = [touched EXCEPT ![p] = @ /\ ~is_dirty]
  /\ UNCHANGED <<page_table, free_frames, disk, returned>>

(* A caller that holds p changes its bytes through the Page* it was given. *)
Write(p, bytes) ==
  /\ pins[p] > 0
  /\ frames' = [frames EXCEPT ![page_table[p]].data = bytes]
  /\ touched' = [touched EXCEPT ![p] = TRUE]
  /\ UNCHANGED <<page_table, free_frames, replacer, disk, pins, returned>>

-----------------------------------------------------------------------------
Next ==
  \/ \E p \in PageId :
       \/ FetchPage(p)
       \/ \E is_dirty \in BOOLEAN : UnpinPage(p, is_dirty)
       \/ \E bytes \in Data : Write(p, bytes)
  \/ NewPage
  \/ Restart

Spec == Init /\ [][Next]_vars

-----------------------------------------------------------------------------
(* Properties.                                                             *)

(* Every variable has its type.                                            *)
TypeOK ==
  /\ frames \in [Frame -> Page]
  /\ page_table \in [PageId -> Frame \cup {NoFrame}]
  /\ free_frames \in Seq(Frame)
  /\ replacer \in Seq(Frame)
  /\ disk \in Disk!DiskType
  /\ pins \in [PageId -> 0 .. MAX_PINS]
  /\ touched \in [PageId -> BOOLEAN]
  /\ returned \in Data \cup {Null}

(* No frame leaks or has two uses: a frame is on the free list (once)      *)
(* exactly while it was never used, and in the replacer (once) exactly     *)
(* while it caches a page nobody has pinned.  The code keeps this in three *)
(* structures that no single place updates together.                       *)
EveryFrameIsAccountedFor ==
  /\ IsInjective(free_frames)
  /\ IsInjective(replacer)
  /\ \A f \in Frame :
       /\ Contains(free_frames, f) <=> frames[f].page_id = NoPage
       /\ Contains(replacer, f) <=>
            frames[f].page_id # NoPage /\ frames[f].pin_count = 0

(* The page table and the page ids in the frames are inverse to each other: *)
(* eviction leaves no entry behind and no page is cached twice.            *)
PageTableIsExact ==
  /\ \A p \in PageId : IsResident(p) => frames[page_table[p]].page_id = p
  /\ \A f \in Frame : frames[f].page_id # NoPage => page_table[frames[f].page_id] = f

(* The pin count of a page is the number of pins its callers still hold, a *)
(* count that UnpinPage decrements without looking whether it is zero, and *)
(* a page that is pinned is resident.                                      *)
PinCountsMatchHolders ==
  \A p \in PageId :
    IF IsResident(p) THEN frames[page_table[p]].pin_count = pins[p] ELSE pins[p] = 0

(* The current content of a page is never only in a frame that may be      *)
(* dropped: a page that is not cached is within the file, so ReadPage never *)
(* falls short and leaves another page's bytes in the frame, and a cached  *)
(* page that no one declared dirty or is changing equals its copy in the   *)
(* file.                                                                   *)
NoUpdateIsLost ==
  \A p \in PageId :
    /\ p < disk.num_pages /\ ~IsResident(p) => Disk!IsStored(disk, p)
    /\ IsResident(p) /\ ~frames[page_table[p]].is_dirty /\ ~touched[p] =>
         Disk!IsStored(disk, p) /\ disk.file[p] = frames[page_table[p]].data

(* The id AllocatePage hands out next is the id of no page in the file and *)
(* of no cached page, in the first process and after every restart.        *)
NextIdIsFresh ==
  /\ disk.extent <= disk.num_pages
  /\ \A f \in Frame : frames[f].page_id < disk.num_pages

(* A page stays in its frame as long as a caller has it pinned: the Page*  *)
(* that FetchPage and NewPage return is used long after other calls.       *)
PinnedPagesStayPut ==
  [][\A p \in PageId :
       pins[p] > 0 /\ pins'[p] > 0 => page_table'[p] = page_table[p]]_vars

(* The pool implements PageStore: the content of a page is what its frame  *)
(* holds if it is cached and what the file holds otherwise.                *)
Content(p) == IF IsResident(p) THEN frames[page_table[p]].data ELSE disk.file[p]

Store == INSTANCE PageStore WITH
           contents  <- [p \in PageId |-> Content(p)],
           num_pages <- disk.num_pages

ImplementsPageStore == Store!Spec

(* "IMPORTANT: Mark it dirty so it eventually gets saved to the .db file"  *)
(* (BufferPoolManager.cpp:153): when the process ends after every caller   *)
(* returned its pins, the dirty pages are in the file.                     *)
ShutdownSavesDirtyPages ==
  [][Restart /\ (\A p \in PageId : pins[p] = 0) =>
       \A p \in PageId :
         IsResident(p) /\ frames[page_table[p]].is_dirty =>
           Disk!IsStored(disk', p) /\ disk'.file[p] = Content(p)]_vars
=============================================================================
