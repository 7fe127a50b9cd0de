------------------------------- MODULE Inode --------------------------------
(***************************************************************************)
(* The inode table and the directory tree: iget, idup, ilock, iput, ialloc *)
(* and path lookup of kernel/fs.c, and the calls of kernel/sysfile.c that  *)
(* change the tree: open, mkdir, mknod, link, unlink, chdir and close, of  *)
(* several processes at once.                                              *)
(*                                                                         *)
(* A step is one critical section of itable.lock, or of an inode's lock    *)
(* with at most one of itable.lock inside it.  The transaction around each *)
(* call is module Log's subject, the blocks of an inode are module         *)
(* FileData's.  A directory is a function from names to inode numbers; the *)
(* entry "." counts for nothing and is left out.                           *)
(***************************************************************************)
EXTENDS Integers, Sequences, FiniteSets, FiniteSetsExt

CONSTANTS
    ninodes,          \* inode numbers are 1..ninodes, the root's is 1
    NINODE,           \* entries of the inode table
    Proc, NoProc,
    Name,             \* path elements other than ".."
    Calls             \* the system calls each process makes, with their paths

ASSUME InodeAssumption ==
    /\ ninodes \in Nat \ {0}
    /\ NINODE \in Nat /\ NINODE >= ninodes  \* so iget() never panics for want of an entry
    /\ NoProc \notin Proc /\ ".." \notin Name

Inum == 1..ninodes
ROOTINO == 1
Entry == 1..NINODE

VARIABLES
    dtype, dnlink,    \* struct dinode, as the buffer cache has it
    ents,             \* the contents of directories, 0 where there is no entry
    itable,           \* struct inode: inum, ref, valid, type, nlink
    lock,             \* the process that has the inode's sleep-lock
    cwd, file,        \* each process: p->cwd, and ip of its open file
    th,               \* each process: where it is in a call, and its locals
    lost,             \* history: links to an inode whose directory was freed around them
    orphan, strayed,  \* history: directories whose parent iput() gives up; one's ".." was followed
    panic

history == <<lost, orphan, strayed>>
diskVars == <<dtype, dnlink, ents, history>>
vars == <<diskVars, itable, lock, cwd, file, th, panic>>

NoDir == [n \in Name \cup {".."} |-> 0]
Empty == [inum |-> 0, ref |-> 0, valid |-> FALSE, type |-> "none", nlink |-> 0]
Idle == [pc |-> "idle", op |-> "none", rest |-> <<>>, new |-> <<>>, parent |-> FALSE,
         cur |-> 0, ip |-> 0, inum |-> 0, put |-> <<>>, k |-> "idle"]

\* The image mkfs writes has an empty root directory; every cwd is "/".
Init ==
    /\ dtype = [i \in Inum |-> IF i = ROOTINO THEN "dir" ELSE "none"]
    /\ dnlink = [i \in Inum |-> IF i = ROOTINO THEN 1 ELSE 0]
    /\ ents = [i \in Inum |-> IF i = ROOTINO THEN [NoDir EXCEPT ![".."] = ROOTINO] ELSE NoDir]
    /\ itable = [e \in Entry |-> IF e = 1 THEN [Empty EXCEPT !.inum = ROOTINO,
                                                             !.ref = Cardinality(Proc)]
                                 ELSE Empty]
    /\ lock = [e \in Entry |-> NoProc]
    /\ cwd = [p \in Proc |-> 1]
    /\ file = [p \in Proc |-> 0]
    /\ th = [p \in Proc |-> Idle]
    /\ lost = [i \in Inum |-> 0] /\ orphan = {} /\ strayed = FALSE
    /\ panic = "none"
-----------------------------------------------------------------------------
(* iget(), idup(), ilock(), iput() on the table                            *)

\* The entry iget() finds or recycles, and the table it leaves.
Slot(t, i) ==
    LET found == {e \in Entry : t[e].ref > 0 /\ t[e].inum = i} IN
    IF found # {} THEN Min(found) ELSE Min({e \in Entry : t[e].ref = 0})

Get(t, i) ==
    LET e == Slot(t, i) IN
    IF t[e].ref > 0 THEN [t EXCEPT ![e].ref = @ + 1]
    ELSE [t EXCEPT ![e] = [Empty EXCEPT !.inum = i, !.ref = 1]]

idup(t, e) == [t EXCEPT ![e].ref = @ + 1]

\* ilock() reads the inode in if it must; a free inode is a panic.
Load(t, e) ==
    IF t[e].valid THEN t
    ELSE [t EXCEPT ![e].valid = TRUE, ![e].type = dtype[t[e].inum], ![e].nlink = dnlink[t[e].inum]]

iupdate(links, i, n) == [links EXCEPT ![i] = n]

dirlookup(d, n) == ents[d][n]
dirlink(dirs, d, n, i) == [dirs EXCEPT ![d][n] = i]

Locking(p, l, e) == th[p].pc = l /\ panic = "none" /\ lock[e] = NoProc
TypeOf(e) == Load(itable, e)[e].type
NoType(e) == TypeOf(e) = "none"

\* ilock(ip) panics: "ilock: no type".
LockPanic(p) ==
    \E e \in {th[p].cur, th[p].ip} \ {0} :
      /\ \/ Locking(p, "namex", e) /\ e = th[p].cur /\ ~(th[p].parent /\ th[p].rest = <<>>)
         \/ Locking(p, "parent", e) /\ e = th[p].cur
         \/ \E l \in {"exists", "fill", "unlink", "linkbad"} : Locking(p, l, e) /\ e = th[p].ip
      /\ NoType(e)
      /\ panic' = "ilock: no type"
      /\ UNCHANGED <<diskVars, itable, lock, cwd, file, th>>

\* The locals of p while it puts the entries es one after the other, to go on at k.
Putting(p, es, k) == [th[p] EXCEPT !.pc = "iput", !.put = es, !.k = k]

\* What is left to do after the first of the entries is put.
AfterPut(t) ==
    IF Len(t.put) > 1 THEN [t EXCEPT !.pc = "iput", !.put = Tail(@)]
    ELSE IF t.k = "idle" THEN Idle
    ELSE [t EXCEPT !.pc = t.k, !.put = <<>>]

Unref(t, e) == [t EXCEPT ![e] = IF @.ref = 1 THEN Empty ELSE [@ EXCEPT !.ref = @ - 1]]

\* mutant: the reference count is not looked at
FreeableShared(e) == itable[e].valid /\ itable[e].nlink = 0

\* iput(): the last reference to an inode without links.
Freeable(e) == itable[e].ref = 1 /\ itable[e].valid /\ itable[e].nlink = 0

Iput(p) ==
    /\ th[p].pc = "iput" /\ panic = "none"
    /\ LET e == Head(th[p].put) IN ~Freeable(e) /\ itable' = Unref(itable, e)
    /\ th' = [th EXCEPT ![p] = AfterPut(@)]
    /\ UNCHANGED <<diskVars, lock, cwd, file, panic>>

\* acquiresleep() inside itable.lock, which is then released.
IputLock(p) ==
    /\ th[p].pc = "iput" /\ panic = "none"
    /\ LET e == Head(th[p].put) IN
          /\ Freeable(e) /\ lock[e] = NoProc
          /\ lock' = [lock EXCEPT ![e] = p]
          /\ orphan' = orphan \cup {d \in Inum : ents[d][".."] = itable[e].inum}
    /\ th' = [th EXCEPT ![p].pc = "itrunc"]
    /\ UNCHANGED <<dtype, dnlink, ents, lost, strayed, itable, cwd, file, panic>>

\* itrunc(), type = 0, iupdate(), valid = 0, releasesleep().
IputFree(p) ==
    /\ th[p].pc = "itrunc" /\ panic = "none"
    /\ LET e == Head(th[p].put)
           i == itable[e].inum
       IN  /\ lost' = [j \in Inum |-> lost[j] + Cardinality({n \in Name : ents[i][n] = j})]
           /\ orphan' = orphan \ {i}
           /\ dtype' = [dtype EXCEPT ![i] = "none"]
           /\ dnlink' = iupdate(dnlink, i, itable[e].nlink)
           /\ ents' = [ents EXCEPT ![i] = NoDir]
           /\ itable' = [itable EXCEPT ![e].valid = FALSE, ![e].type = "none", ![e].nlink = 0]
           /\ lock' = [lock EXCEPT ![e] = NoProc]
    /\ th' = [th EXCEPT ![p].pc = "idrop"]
    /\ UNCHANGED <<strayed, cwd, file, panic>>

IputDrop(p) ==
    /\ th[p].pc = "idrop" /\ panic = "none"
    /\ itable' = Unref(itable, Head(th[p].put))
    /\ th' = [th EXCEPT ![p] = AfterPut(@)]
    /\ UNCHANGED <<diskVars, lock, cwd, file, panic>>
-----------------------------------------------------------------------------
(* namex().  cur is its ip, rest what skipelem() has left of the path.     *)

\* The table and the entry a lookup starts from: the root, or idup(cwd).
StartTable(p, path) == IF path.abs THEN Get(itable, ROOTINO) ELSE idup(itable, cwd[p])
StartEntry(p, path) == IF path.abs THEN Slot(itable, ROOTINO) ELSE cwd[p]

\* A process enters a system call that takes a path.
Call(p, c) ==
    /\ th[p].pc = "idle" /\ panic = "none"
    /\ itable' = StartTable(p, c.path)
    /\ th' = [th EXCEPT ![p] = [Idle EXCEPT
                !.pc = "namex", !.op = c.op, !.rest = c.path.elems, !.new = c.new,
                !.parent = c.op \in {"creat", "mkdir", "mknod", "unlink"},
                !.cur = StartEntry(p, c.path)]]
    /\ UNCHANGED <<diskVars, lock, cwd, file, panic>>

\* Where a failed lookup leads: link() has a link to take back.
NotFound(p) == IF th[p].op = "link" /\ th[p].parent THEN "linkbad" ELSE "idle"

Namex(p) ==
    LET e == th[p].cur
        t == Load(itable, e)
        n == Head(th[p].rest)
        i == dirlookup(t[e].inum, n)
        last == th[p].parent /\ Len(th[p].rest) = 1
        fail == [Putting(p, <<e>>, NotFound(p)) EXCEPT !.cur = 0]
    IN  /\ Locking(p, "namex", e) /\ ~NoType(e)
        /\ th[p].rest # <<>>
        /\ \/ /\ t[e].type # "dir"
              /\ itable' = t /\ th' = [th EXCEPT ![p] = fail]
           \/ /\ t[e].type = "dir" /\ last
              /\ itable' = t /\ th' = [th EXCEPT ![p].pc = "parent"]
           \/ /\ t[e].type = "dir" /\ ~last /\ i = 0
              /\ itable' = t /\ th' = [th EXCEPT ![p] = fail]
           \/ /\ t[e].type = "dir" /\ ~last /\ i # 0
              /\ itable' = Get(t, i)
              /\ th' = [th EXCEPT ![p] = [Putting(p, <<e>>, "namex") EXCEPT
                                            !.cur = Slot(t, i), !.rest = Tail(@)]]
        /\ strayed' = (strayed \/ (~last /\ n = ".." /\ t[e].inum \in orphan))
        /\ UNCHANGED <<dtype, dnlink, ents, lost, orphan, lock, cwd, file, panic>>

\* nameiparent() of a path without a last element.
NamexNoParent(p) ==
    /\ th[p].pc = "namex" /\ th[p].rest = <<>> /\ th[p].parent /\ panic = "none"
    /\ th' = [th EXCEPT ![p] = [Putting(p, <<th[p].cur>>, NotFound(p)) EXCEPT !.cur = 0]]
    /\ UNCHANGED <<diskVars, itable, lock, cwd, file, panic>>

\* namei() has returned cur; the caller locks it.
Found(p, op) ==
    /\ Locking(p, "namex", th[p].cur) /\ ~NoType(th[p].cur)
    /\ th[p].rest = <<>> /\ ~th[p].parent /\ th[p].op = op

\* nameiparent() has returned cur; the caller locks it.
Parent(p, ops) ==
    Locking(p, "parent", th[p].cur) /\ ~NoType(th[p].cur) /\ th[p].op \in ops

Dir(p) == itable[th[p].cur].inum
Last(p) == Head(th[p].rest)
-----------------------------------------------------------------------------
(* sys_open() without O_CREATE, sys_chdir(), sys_close()                   *)

\* The open fails when a device has no driver or there is no struct file or descriptor.
OpenEnd(p, e, t) ==
    /\ itable' = t
    /\ \/ file[p] = 0 /\ file' = [file EXCEPT ![p] = e] /\ th' = [th EXCEPT ![p] = Idle]
       \/ (file[p] # 0 \/ t[e].type = "dev") /\ th' = [th EXCEPT ![p] = [Putting(p, <<e>>, "idle") EXCEPT !.cur = 0, !.ip = 0]]
          /\ UNCHANGED file

\* "write" is an open with a mode other than O_RDONLY.
Open(p) ==
    LET e == th[p].cur IN
    /\ Found(p, "open") \/ (Found(p, "write") /\ TypeOf(e) # "dir")
    /\ OpenEnd(p, e, Load(itable, e))
    /\ UNCHANGED <<diskVars, lock, cwd, panic>>

OpenDir(p) ==
    LET e == th[p].cur IN
    /\ Found(p, "write") /\ TypeOf(e) = "dir"
    /\ itable' = Load(itable, e)
    /\ th' = [th EXCEPT ![p] = [Putting(p, <<e>>, "idle") EXCEPT !.cur = 0]]
    /\ UNCHANGED <<diskVars, lock, cwd, file, panic>>

Chdir(p) ==
    LET e == th[p].cur IN
    /\ Found(p, "chdir")
    /\ itable' = Load(itable, e)
    /\ IF TypeOf(e) = "dir"
       THEN /\ cwd' = [cwd EXCEPT ![p] = e]
            /\ th' = [th EXCEPT ![p] = [Putting(p, <<cwd[p]>>, "idle") EXCEPT !.cur = 0]]
       ELSE /\ th' = [th EXCEPT ![p] = [Putting(p, <<e>>, "idle") EXCEPT !.cur = 0]]
            /\ UNCHANGED cwd
    /\ UNCHANGED <<diskVars, lock, file, panic>>

\* The last close of the struct file: fileclose() puts its inode.
Close(p) ==
    /\ th[p].pc = "idle" /\ panic = "none" /\ file[p] # 0
    /\ th' = [th EXCEPT ![p] = Putting(p, <<file[p]>>, "idle")]
    /\ file' = [file EXCEPT ![p] = 0]
    /\ UNCHANGED <<diskVars, itable, lock, cwd, panic>>
-----------------------------------------------------------------------------
(* create()                                                                *)

Creates == {"creat", "mkdir", "mknod"}
NewType(op) == CASE op = "creat" -> "file" [] op = "mkdir" -> "dir" [] op = "mknod" -> "dev"

\* The name is there: the directory is put, then the inode is locked.
CreateFound(p) ==
    LET e == th[p].cur
        t == Load(itable, e)
        i == dirlookup(Dir(p), Last(p))
    IN  /\ Parent(p, Creates) /\ i # 0
        /\ itable' = Get(t, i)
        /\ th' = [th EXCEPT ![p] = [Putting(p, <<e>>, "exists") EXCEPT !.cur = 0, !.ip = Slot(t, i)]]
        /\ UNCHANGED <<diskVars, lock, cwd, file, panic>>

CreateExists(p) ==
    LET e == th[p].ip IN
    /\ Locking(p, "exists", e) /\ ~NoType(e)
    /\ IF th[p].op = "creat" /\ TypeOf(e) \in {"file", "dev"}
       THEN OpenEnd(p, e, Load(itable, e))
       ELSE /\ itable' = Load(itable, e)
            /\ th' = [th EXCEPT ![p] = [Putting(p, <<e>>, "idle") EXCEPT !.ip = 0]]
            /\ UNCHANGED file
    /\ UNCHANGED <<diskVars, lock, cwd, panic>>

\* ialloc() lets go of each block before it reads the next, so that it may miss
\* an inode freed behind it: any free inode can be the one it takes.
CreateAlloc(p) ==
    LET e == th[p].cur IN
    /\ Parent(p, Creates) /\ dirlookup(Dir(p), Last(p)) = 0
    /\ \E i \in Inum :
          /\ dtype[i] = "none"
          /\ dtype' = [dtype EXCEPT ![i] = NewType(th[p].op)]
          /\ dnlink' = [dnlink EXCEPT ![i] = 0]
          /\ th' = [th EXCEPT ![p].pc = "iget", ![p].inum = i]
    /\ itable' = Load(itable, e)
    /\ lock' = [lock EXCEPT ![e] = p]
    /\ UNCHANGED <<ents, history, cwd, file, panic>>

AllocPanic(p) ==
    /\ Parent(p, Creates) /\ dirlookup(Dir(p), Last(p)) = 0
    /\ \A i \in Inum : dtype[i] # "none"
    /\ panic' = "ialloc: no inodes"
    /\ UNCHANGED <<diskVars, itable, lock, cwd, file, th>>

CreateGet(p) ==
    /\ th[p].pc = "iget" /\ panic = "none"
    /\ itable' = Get(itable, th[p].inum)
    /\ th' = [th EXCEPT ![p].pc = "fill", ![p].ip = Slot(itable, th[p].inum), ![p].inum = 0]
    /\ UNCHANGED <<diskVars, lock, cwd, file, panic>>

\* The new inode is filled in and entered in the directory, which is unlocked.
CreateFill(p) ==
    LET e == th[p].cur
        f == th[p].ip
        t == Load(itable, f)
        up == IF th[p].op = "mkdir" THEN 1 ELSE 0
    IN  /\ Locking(p, "fill", f) /\ ~NoType(f)
        /\ itable' = [t EXCEPT ![f].nlink = 1, ![e].nlink = @ + up]
        /\ dnlink' = iupdate(iupdate(dnlink, t[f].inum, 1), Dir(p), t[e].nlink + up)
        /\ ents' = LET dots == IF up = 1 THEN dirlink(ents, t[f].inum, "..", Dir(p)) ELSE ents
                    IN  dirlink(dots, Dir(p), Last(p), t[f].inum)
        /\ lock' = [lock EXCEPT ![f] = p, ![e] = NoProc]
        /\ th' = [th EXCEPT ![p] = [Putting(p, <<e>>, "created") EXCEPT !.cur = 0]]
        /\ UNCHANGED <<dtype, history, cwd, file, panic>>

\* create() returns to sys_open(), sys_mkdir() or sys_mknod().
CreateEnd(p) ==
    LET e == th[p].ip IN
    /\ th[p].pc = "created" /\ panic = "none"
    /\ lock' = [lock EXCEPT ![e] = NoProc]
    /\ IF th[p].op = "creat" THEN OpenEnd(p, e, itable)
       ELSE /\ th' = [th EXCEPT ![p] = [Putting(p, <<e>>, "idle") EXCEPT !.ip = 0]]
            /\ UNCHANGED <<itable, file>>
    /\ UNCHANGED <<diskVars, cwd, panic>>
-----------------------------------------------------------------------------
(* sys_unlink()                                                            *)

UnlinkMissing(p) ==
    LET e == th[p].cur IN
    /\ Parent(p, {"unlink"})
    /\ Last(p) = ".." \/ dirlookup(Dir(p), Last(p)) = 0
    /\ itable' = Load(itable, e)
    /\ th' = [th EXCEPT ![p] = [Putting(p, <<e>>, "idle") EXCEPT !.cur = 0]]
    /\ UNCHANGED <<diskVars, lock, cwd, file, panic>>

\* The directory stays locked while the inode is locked.
UnlinkLookup(p) ==
    LET e == th[p].cur
        t == Load(itable, e)
        i == dirlookup(Dir(p), Last(p))
    IN  /\ Parent(p, {"unlink"}) /\ Last(p) # ".." /\ i # 0
        /\ itable' = Get(t, i)
        /\ lock' = [lock EXCEPT ![e] = p]
        /\ th' = [th EXCEPT ![p].pc = "unlink", ![p].ip = Slot(t, i)]
        /\ UNCHANGED <<diskVars, cwd, file, panic>>

isdirempty(i) == \A n \in Name : ents[i][n] = 0

UnlinkNotEmpty(p) ==
    LET f == th[p].ip
        t == Load(itable, f)
    IN  /\ Locking(p, "unlink", f) /\ ~NoType(f) /\ t[f].nlink >= 1
        /\ t[f].type = "dir" /\ ~isdirempty(t[f].inum)
        /\ itable' = t
        /\ th' = [th EXCEPT ![p] = [Putting(p, <<f>>, "unlinkbad") EXCEPT !.ip = 0]]
        /\ UNCHANGED <<diskVars, lock, cwd, file, panic>>

UnlinkBad(p) ==
    LET e == th[p].cur IN
    /\ th[p].pc = "unlinkbad" /\ panic = "none"
    /\ lock' = [lock EXCEPT ![e] = NoProc]
    /\ th' = [th EXCEPT ![p] = [Putting(p, <<e>>, "idle") EXCEPT !.cur = 0]]
    /\ UNCHANGED <<diskVars, itable, cwd, file, panic>>

\* mutant: the link of ".." stays counted in the parent
UnlinkEntryKeep(p) ==
    LET e == th[p].cur
        f == th[p].ip
        t == Load(itable, f)
    IN  /\ Locking(p, "unlink", f) /\ ~NoType(f)
        /\ t[f].type = "dir" => isdirempty(t[f].inum)
        /\ panic' = IF t[f].nlink < 1 THEN "unlink: nlink < 1" ELSE panic
        /\ ents' = [ents EXCEPT ![Dir(p)][Last(p)] = 0]
        /\ itable' = t
        /\ lock' = [lock EXCEPT ![e] = NoProc, ![f] = p]
        /\ th' = [th EXCEPT ![p] = [Putting(p, <<e>>, "unlinkdec") EXCEPT !.cur = 0]]
        /\ UNCHANGED <<dtype, dnlink, history, cwd, file>>

\* The entry goes, and with a directory its ".."; the parent is unlocked.
UnlinkEntry(p) ==
    LET e == th[p].cur
        f == th[p].ip
        t == Load(itable, f)
        up == IF t[f].type = "dir" THEN 1 ELSE 0
    IN  /\ Locking(p, "unlink", f) /\ ~NoType(f)
        /\ t[f].type = "dir" => isdirempty(t[f].inum)
        /\ panic' = IF t[f].nlink < 1 THEN "unlink: nlink < 1" ELSE panic
        /\ ents' = [ents EXCEPT ![Dir(p)][Last(p)] = 0]
        /\ itable' = [t EXCEPT ![e].nlink = @ - up]
        /\ dnlink' = iupdate(dnlink, Dir(p), t[e].nlink - up)
        /\ lock' = [lock EXCEPT ![e] = NoProc, ![f] = p]
        /\ th' = [th EXCEPT ![p] = [Putting(p, <<e>>, "unlinkdec") EXCEPT !.cur = 0]]
        /\ UNCHANGED <<dtype, history, cwd, file>>

UnlinkDec(p) ==
    LET f == th[p].ip IN
    /\ th[p].pc = "unlinkdec" /\ panic = "none"
    /\ itable' = [itable EXCEPT ![f].nlink = @ - 1]
    /\ dnlink' = iupdate(dnlink, itable[f].inum, itable[f].nlink - 1)
    /\ lock' = [lock EXCEPT ![f] = NoProc]
    /\ th' = [th EXCEPT ![p] = [Putting(p, <<f>>, "idle") EXCEPT !.ip = 0]]
    /\ UNCHANGED <<dtype, ents, history, cwd, file, panic>>
-----------------------------------------------------------------------------
(* sys_link()                                                              *)

LinkDir(p) ==
    LET e == th[p].cur IN
    /\ Found(p, "link") /\ TypeOf(e) = "dir"
    /\ itable' = Load(itable, e)
    /\ th' = [th EXCEPT ![p] = [Putting(p, <<e>>, "idle") EXCEPT !.cur = 0]]
    /\ UNCHANGED <<diskVars, lock, cwd, file, panic>>

LinkInc(p) ==
    LET e == th[p].cur
        t == Load(itable, e)
    IN  /\ Found(p, "link") /\ t[e].type # "dir"
        /\ itable' = [t EXCEPT ![e].nlink = @ + 1]
        /\ dnlink' = iupdate(dnlink, t[e].inum, t[e].nlink + 1)
        /\ th' = [th EXCEPT ![p].pc = "link2", ![p].ip = e, ![p].cur = 0]
        /\ UNCHANGED <<dtype, ents, history, lock, cwd, file, panic>>

\* nameiparent(new)
LinkLookup(p) ==
    /\ th[p].pc = "link2" /\ panic = "none"
    /\ itable' = StartTable(p, th[p].new)
    /\ th' = [th EXCEPT ![p].pc = "namex", ![p].cur = StartEntry(p, th[p].new), ![p].parent = TRUE,
                        ![p].rest = th[p].new.elems, ![p].new = <<>>]
    /\ UNCHANGED <<diskVars, lock, cwd, file, panic>>

\* dirlink() finds the name: iget() and iput() of what it names cancel out.
LinkExists(p) ==
    LET e == th[p].cur IN
    /\ Parent(p, {"link"}) /\ dirlookup(Dir(p), Last(p)) # 0
    /\ itable' = Load(itable, e)
    /\ th' = [th EXCEPT ![p] = [Putting(p, <<e>>, "linkbad") EXCEPT !.cur = 0]]
    /\ UNCHANGED <<diskVars, lock, cwd, file, panic>>

LinkEntry(p) ==
    LET e == th[p].cur IN
    /\ Parent(p, {"link"}) /\ dirlookup(Dir(p), Last(p)) = 0
    /\ ents' = dirlink(ents, Dir(p), Last(p), itable[th[p].ip].inum)
    /\ itable' = Load(itable, e)
    /\ th' = [th EXCEPT ![p] = [Putting(p, <<e, th[p].ip>>, "idle") EXCEPT !.cur = 0, !.ip = 0]]
    /\ UNCHANGED <<dtype, dnlink, history, lock, cwd, file, panic>>

LinkBad(p) ==
    LET f == th[p].ip
        t == Load(itable, f)
    IN  /\ Locking(p, "linkbad", f) /\ ~NoType(f)
        /\ itable' = [t EXCEPT ![f].nlink = @ - 1]
        /\ dnlink' = iupdate(dnlink, t[f].inum, t[f].nlink - 1)
        /\ th' = [th EXCEPT ![p] = [Putting(p, <<f>>, "idle") EXCEPT !.ip = 0]]
        /\ UNCHANGED <<dtype, ents, history, lock, cwd, file, panic>>
-----------------------------------------------------------------------------
\* The kernel stops after a panic.
Halted == panic # "none" /\ UNCHANGED vars

Step(p) ==
    \/ Iput(p) \/ IputLock(p) \/ IputFree(p) \/ IputDrop(p)
    \/ Namex(p) \/ NamexNoParent(p) \/ Open(p) \/ OpenDir(p) \/ Chdir(p) \/ Close(p)
    \/ CreateFound(p) \/ CreateExists(p) \/ CreateAlloc(p) \/ CreateGet(p) \/ CreateFill(p) \/ CreateEnd(p)
    \/ UnlinkMissing(p) \/ UnlinkLookup(p) \/ UnlinkNotEmpty(p) \/ UnlinkBad(p) \/ UnlinkEntry(p) \/ UnlinkDec(p)
    \/ LinkDir(p) \/ LinkInc(p) \/ LinkLookup(p) \/ LinkExists(p) \/ LinkEntry(p) \/ LinkBad(p)
    \/ LockPanic(p) \/ AllocPanic(p)

Next == (\E p \in Proc : Step(p) \/ \E c \in Calls[p] : Call(p, c)) \/ Halted

Spec == Init /\ [][Next]_vars
-----------------------------------------------------------------------------
\* The pointers to entry e that some process has.
Refs(e) ==
    MapThenSumSet(LAMBDA p : Cardinality({x \in {"cwd", "file", "cur", "ip"} :
                               e = CASE x = "cwd" -> cwd[p] [] x = "file" -> file[p]
                                     [] x = "cur" -> th[p].cur [] x = "ip" -> th[p].ip})
                             + Cardinality({j \in 1..Len(th[p].put) : th[p].put[j] = e}), Proc)

(* iget(), idup(), iput(): the reference count of an inode is the number   *)
(* of pointers to it, an inode is in the table once, a locked inode is     *)
(* referenced, what is in memory and not locked agrees with the disk, and  *)
(* iput()'s acquiresleep() inside itable.lock finds the lock free, as its  *)
(* comment says.                                                           *)
RefsExact ==
    /\ \A e \in Entry :
         /\ itable[e].ref = Refs(e)
         /\ lock[e] # NoProc => itable[e].ref > 0 /\ itable[e].valid
         /\ itable[e].valid => itable[e].type = dtype[itable[e].inum]
                               /\ itable[e].nlink = dnlink[itable[e].inum]
         /\ Freeable(e) /\ (\E p \in Proc : th[p].pc = "iput" /\ Head(th[p].put) = e)
              => lock[e] = NoProc
    /\ \A d, e \in Entry : itable[d].ref > 0 /\ itable[d].inum = itable[e].inum => d = e

Named(i) == Cardinality({x \in Inum \X Name : ents[x[1]][x[2]] = i})

\* Links counted before they are entered, or entered no more and still counted.
Pending(i) ==
    Cardinality({p \in Proc :
        /\ th[p].ip # 0 /\ itable[th[p].ip].inum = i
        /\ th[p].op = "link" \/ (th[p].op = "unlink" /\ th[p].k = "unlinkdec")})

(* create(), sys_link(), sys_unlink(), iput(): the link count of an inode  *)
(* is the number of directory entries for it, ".." of its subdirectories   *)
(* included, plus what calls under way have counted ahead.  So no entry    *)
(* leads to a free inode, no inode is freed or given out twice, and a      *)
(* lookup that has a reference, but not yet the lock, never finds the      *)
(* inode freed (the panic of ilock), however lookups, creations and        *)
(* removals are interleaved.  Links are left over, and their inodes never  *)
(* freed, in one case: files created in a directory after it was removed.  *)
(* And nothing is claimed once a path went through ".." of a removed       *)
(* directory whose parent iput() frees too: that entry may lead to any     *)
(* inode, also to one that is being freed or created.                      *)
LinksExact ==
    ~strayed =>
      /\ panic \in {"none", "ialloc: no inodes"}
      /\ \A i \in Inum :
           LET base == IF i = ROOTINO THEN 1 ELSE 0
               dotdot == {d \in Inum \ {ROOTINO} : ents[d][".."] = i /\ Named(d) > 0}
           IN  /\ dtype[i] # "none" =>
                    dnlink[i] = base + Named(i) + Cardinality(dotdot) + Pending(i) + lost[i]
               /\ dtype[i] = "none" => Named(i) = 0 /\ lost[i] = 0 /\ dotdot = {} /\ Pending(i) = 0
=============================================================================
