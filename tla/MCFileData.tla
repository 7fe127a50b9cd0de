----------------------------- MODULE MCFileData -----------------------------
(***************************************************************************)
(* Module FileData with two processes and three open files: 1 is shared by *)
(* the writers, 2 is read-only on the same inode, with an offset of its    *)
(* own, and 3 is write-only on another inode, which competes for the       *)
(* blocks.  Process 0 makes the long write through 1, and process 1 reads, *)
(* writes and truncates inode 1 meanwhile (2 may be opened with O_TRUNC).  *)
(* A transaction writes at most one block's worth, a file has one direct   *)
(* and one indirect block, and the disk is full before both files are.     *)
(***************************************************************************)
EXTENDS FileData

MCip == <<1, 1, 2>>
Do(p, call, f, n, avail) == [p |-> p, call |-> call, f |-> f, n |-> n, avail |-> avail]
MCCalls == { Do(0, "write", 1, 3, 9), Do(0, "write", 1, 3, 1), Do(0, "read", 2, -1, 9),
             Do(0, "read", 2, 3, 1), Do(0, "open", 2, 0, 0), Do(0, "write", 2, 1, 9),
             Do(1, "write", 1, 1, 9), Do(1, "write", 3, 2, 9), Do(1, "write", 3, 0, 9), Do(1, "stat", 1, 0, 0),
             Do(1, "read", 2, 3, 9), Do(1, "read", 3, 1, 9), Do(1, "trunc", 2, 0, 0),
             Do(1, "trunc", 1, 0, 0) }
=============================================================================
