---------------------------- MODULE DiskManager ----------------------------
(***************************************************************************)
(* The database file and the DiskManager that reads and writes it one page *)
(* at a time (disk_manager.cpp).                                           *)
(*                                                                         *)
(* The state is the record disk:                                           *)
(*   file      the bytes of every page position.  A position at or past    *)
(*             the end of the file is Zero here: that is what a write      *)
(*             further out leaves in the gap.                              *)
(*   extent    the length of the file, in pages                            *)
(*   num_pages DiskManager::num_pages, the next page id to hand out        *)
(*   fail      the failbit of the std::fstream db_file                     *)
(***************************************************************************)
EXTENDS Integers

CONSTANTS
  MAX_PAGES,   \* bound: page ids whose byte offset still fits in an int
  Data,        \* the contents a page can have
  Zero         \* a page of zero bytes

VARIABLE disk

PageId == 0 .. MAX_PAGES - 1

DiskType ==
  [file : [PageId -> Data], extent : 0 .. MAX_PAGES,
   num_pages : 0 .. MAX_PAGES, fail : BOOLEAN]

IsStored(dk, p) == p < dk.extent

-----------------------------------------------------------------------------
(* The operations, as functions of the disk record.                        *)

(* The constructor: the page count is the length of the file it finds.     *)
Opened_CountIsLost(dk) == [dk EXCEPT !.num_pages = 0, !.fail = FALSE]   \* faulty variant

Opened(dk) == [dk EXCEPT !.num_pages = dk.extent, !.fail = FALSE]

(* seekp, write and flush do nothing on a stream whose failbit is set, and *)
(* nobody looks; the page count is bumped regardless.                      *)
Extended(dk, p) == IF IsStored(dk, p) THEN dk.extent ELSE p + 1

Counted_Always(dk, p) == dk.num_pages + 1   \* faulty variant

Counted(dk, p) ==
  IF p >= dk.num_pages THEN dk.num_pages + 1 ELSE dk.num_pages

WritePage(dk, p, bytes) ==
  [dk EXCEPT !.file      = IF dk.fail THEN @ ELSE [@ EXCEPT ![p] = bytes],
             !.extent    = IF dk.fail THEN @ ELSE Extended(dk, p),
             !.num_pages = Counted(dk, p)]

(* A read past the end of the file, or on a failed stream, leaves the      *)
(* caller's buffer as it was; either way the stream state is cleared.      *)
BytesRead(dk, p, buffer) ==
  IF ~dk.fail /\ IsStored(dk, p) THEN dk.file[p] ELSE buffer

AfterRead(dk) == [dk EXCEPT !.fail = FALSE]

AllocatedId(dk) == dk.num_pages

AfterAllocate(dk) == [dk EXCEPT !.num_pages = @ + 1]
=============================================================================
