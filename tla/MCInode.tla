------------------------------ MODULE MCInode -------------------------------
(***************************************************************************)
(* Module Inode with two processes and calls whose paths meet: a directory *)
(* /a that is made, entered, filled and removed, files that move in and    *)
(* out of it, and a subdirectory whose ".." can outlive its parent.  While *)
(* p2 links /a/b to /a/a, p1 may unlink /a/b and remove /a.                *)
(***************************************************************************)
EXTENDS Inode, TLC

Abs(elems) == [abs |-> TRUE, elems |-> elems]
Rel(elems) == [abs |-> FALSE, elems |-> elems]
Do(op, path) == [op |-> op, path |-> path, new |-> <<>>]

CONSTANTS p1, p2

MCCalls ==
    p1 :> { Do("mkdir", Abs(<<"a">>)), Do("mkdir", Abs(<<"a", "b">>)), Do("creat", Abs(<<"a", "b">>)),
            Do("unlink", Abs(<<"a", "b">>)), Do("unlink", Abs(<<"a">>)), Do("mkdir", Abs(<<>>)),
            [op |-> "link", path |-> Abs(<<"a">>), new |-> Abs(<<"b">>)] }
    @@ p2 :> { Do("chdir", Abs(<<"a", "b">>)), Do("write", Rel(<<"..">>)), Do("creat", Rel(<<"b">>)),
               [op |-> "link", path |-> Abs(<<"a", "b">>), new |-> Abs(<<"a", "a">>)],
               Do("unlink", Abs(<<"a", "a">>)), Do("unlink", Abs(<<"b">>)), Do("mknod", Rel(<<"..", "b">>)) }
=============================================================================
