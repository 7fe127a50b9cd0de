------------------------------ MODULE FileData ------------------------------
(***************************************************************************)
(* The contents of files: the block bitmap, bmap, itrunc, readi and writei *)
(* of kernel/fs.c, and fileread, filewrite and filestat of kernel/file.c,  *)
(* with open files that processes share, offset included.                  *)
(*                                                                         *)
(* A step is what one process does while it holds an inode's lock: a read, *)
(* or one transaction of a write, which is a sequence of them.  Which free *)
(* block balloc() finds matters to nobody, so that the interleaving of two *)
(* such steps on different inodes adds nothing.  A word of an indirect     *)
(* block takes one byte here instead of four.                              *)
(***************************************************************************)
EXTENDS Integers, Sequences, SequencesExt, FiniteSets, FiniteSetsExt

CONSTANTS
    BSIZE, NDIRECT, NINDIRECT,
    NBLOCKS,          \* the data blocks of the disk are 1..NBLOCKS
    BPB,              \* blocks for which one bitmap block has the bits
    MAXOPBLOCKS, UINT,
    Inum, Proc,
    File, ip, readable, writable,  \* struct file: fixed inode and mode of each
    Calls             \* the calls made: call, p, f, n, and where the buffer turns bad

ASSUME FileDataAssumption ==
    /\ {BSIZE, NDIRECT, NINDIRECT, BPB} \subseteq Nat \ {0} /\ {NBLOCKS, MAXOPBLOCKS, UINT} \subseteq Nat
    /\ NINDIRECT <= BSIZE /\ MAXOPBLOCKS >= 6 /\ Proc \subseteq Nat /\ readable \cup writable \subseteq File

MAXFILE == NDIRECT + NINDIRECT
Block == 1..NBLOCKS
Zeros == [k \in 0..(BSIZE - 1) |-> 0]

VARIABLES
    bitmap,           \* the blocks in use
    data,             \* each block, as readers of the buffer cache see it
    logged,           \* each block, as it was when last given to log_write()
    addrs, size,      \* struct inode
    off,              \* struct file
    wr,               \* each process: the write() it is in
    last,             \* the call that has just returned, and its result
    op,               \* the blocks the transaction just ended gave to log_write()
    panic

diskVars == <<bitmap, data, logged, addrs, size>>
fsVars == <<diskVars, op, panic>>
vars == <<fsVars, off, wr, last>>

NoWrite == [f |-> 0, n |-> 0, i |-> 0, avail |-> 0]

NoCall == [p |-> 0, call |-> "none", f |-> 0, n |-> 0, ret |-> 0, bytes |-> <<>>]

Init ==
    /\ bitmap = {} /\ data = [b \in Block |-> Zeros] /\ logged = data
    /\ addrs = [i \in Inum |-> [k \in 0..NDIRECT |-> 0]] /\ size = [i \in Inum |-> 0]
    /\ off = [f \in File |-> 0]
    /\ wr = [p \in Proc |-> NoWrite]
    /\ last = NoCall /\ op = {} /\ panic = "none"
-----------------------------------------------------------------------------
(* The functions of fs.c work on a record: the state above, with the block *)
(* that balloc() or bmap() has found, the bytes done so far and the result.*)

Work == [bitmap |-> bitmap, data |-> data, logged |-> logged, addrs |-> addrs, size |-> size,
         op |-> {}, panic |-> panic, b |-> 0, tot |-> 0, bytes |-> <<>>, stop |-> FALSE]

log_write(w, b) == [w EXCEPT !.logged[b] = w.data[b], !.op = @ \cup {<<"data", b>>}]

\* mutant: the block is not zeroed
ballocStale(w) ==
    LET free == Block \ w.bitmap IN
    IF free = {} THEN [w EXCEPT !.panic = "balloc: out of blocks"]
    ELSE [w EXCEPT !.bitmap = @ \cup {Min(free)}, !.b = Min(free),
                   !.op = @ \cup {<<"bitmap", Min(free) \div BPB>>}]

\* balloc(), with the bzero() at its end.
balloc(w) ==
    LET free == Block \ w.bitmap
        b == Min(free)
    IN  IF free = {} THEN [w EXCEPT !.panic = "balloc: out of blocks"]
        ELSE log_write([w EXCEPT !.bitmap = @ \cup {b}, !.data[b] = Zeros, !.b = b,
                                 !.op = @ \cup {<<"bitmap", b \div BPB>>}], b)

bfree(w, b) ==
    IF b = 0 THEN w
    ELSE IF b \notin w.bitmap THEN [w EXCEPT !.panic = "freeing free block"]
    ELSE [w EXCEPT !.bitmap = @ \ {b}, !.op = @ \cup {<<"bitmap", b \div BPB>>}]

\* ip->addrs[k], allocated if it is not there.
Addr(w, i, k) ==
    LET Set(a) == [a EXCEPT !.addrs[i][k] = a.b] IN
    IF w.addrs[i][k] # 0 THEN [w EXCEPT !.b = w.addrs[i][k]] ELSE Set(balloc(w))

\* Word k of the indirect block w.b, allocated if it is not there.
Indirect(w, k) ==
    LET Set(a) == log_write([a EXCEPT !.data[w.b][k] = a.b], w.b)
        Got(a) == IF a.panic = "none" THEN Set(a) ELSE a
    IN  IF w.panic # "none" THEN w
        ELSE IF w.data[w.b][k] # 0 THEN [w EXCEPT !.b = w.data[w.b][k]]
        ELSE Got(balloc(w))

bmap(w, i, bn) ==
    IF bn < NDIRECT THEN Addr(w, i, bn)
    ELSE IF bn < MAXFILE THEN Indirect(Addr(w, i, NDIRECT), bn - NDIRECT)
    ELSE [w EXCEPT !.panic = "bmap: out of range"]

iupdate(w, i) == [w EXCEPT !.op = @ \cup {<<"inode", i>>}]

itrunc(w, i) ==
    LET direct == [k \in 1..NDIRECT |-> w.addrs[i][k - 1]]
        ind == w.addrs[i][NDIRECT]
        words == IF ind = 0 THEN <<>> ELSE [k \in 1..NINDIRECT |-> w.data[ind][k - 1]]
        Cut(x) == [x EXCEPT !.addrs[i] = [k \in 0..NDIRECT |-> 0], !.size[i] = 0]
    IN  iupdate(Cut(FoldLeft(bfree, w, direct \o words \o <<ind>>)), i)
-----------------------------------------------------------------------------
(* readi() and writei().  A buffer is bad from its byte avail on.          *)

\* Repeats body(w) while there are bytes to do.
Loop(body(_), w, n) ==
    LET Once(x, k) == IF x.stop \/ x.panic # "none" \/ x.tot >= n THEN x ELSE body(x)
    IN  FoldLeft(Once, w, [k \in 1..n |-> k])

Piece(o, tot, n) == Min({n - tot, BSIZE - ((o + tot) % BSIZE)})

readi(w, i, o, n, avail) ==
    LET len == Min({n, w.size[i] - o})
        Copy(x, m) ==
          IF x.panic # "none" THEN x
          ELSE IF avail < x.tot + m THEN [x EXCEPT !.tot = -1, !.stop = TRUE]
          ELSE [x EXCEPT !.tot = @ + m,
                         !.bytes = @ \o [k \in 1..m |-> x.data[x.b][((o + x.tot) % BSIZE) + k - 1]]]
        Body(x) == Copy(bmap(x, i, (o + x.tot) \div BSIZE), Piece(o, x.tot, len))
    IN  IF o > w.size[i] \/ (o + n) % UINT < o THEN w ELSE Loop(Body, w, len)

\* Byte k of the buffer that p writes.
src(p, k) == 1 + ((k + p) % 2)

\* mutant: what the failed block has brought is counted
writeiCount(w, p, i, o, n, at, avail) ==
    LET Fill(x, m) ==
          [x EXCEPT !.data[x.b] = [k \in DOMAIN @ |->
             LET j == k - ((o + x.tot) % BSIZE) IN
             IF j \in 0..(m - 1) /\ at + x.tot + j < avail THEN src(p, at + x.tot + j) ELSE @[k]]]
        Copy(x, m) ==
          IF x.panic # "none" THEN x
          ELSE IF avail < at + x.tot + m THEN [Fill(x, m) EXCEPT !.tot = @ + m, !.stop = TRUE]
          ELSE [log_write(Fill(x, m), x.b) EXCEPT !.tot = @ + m]
        Body(x) == Copy(bmap(x, i, (o + x.tot) \div BSIZE), Piece(o, x.tot, n))
        End(x) == iupdate([x EXCEPT !.size[i] = Max({@, o + x.tot})], i)
    IN  IF o > w.size[i] \/ (o + n) % UINT < o \/ o + n > MAXFILE * BSIZE
        THEN [w EXCEPT !.tot = -1] ELSE End(Loop(Body, w, n))

\* The buffer from its byte at on.  When a copy fails, bytes of the block may have
\* changed without log_write().
writei(w, p, i, o, n, at, avail) ==
    LET Fill(x, m) ==
          [x EXCEPT !.data[x.b] = [k \in DOMAIN @ |->
             LET j == k - ((o + x.tot) % BSIZE) IN
             IF j \in 0..(m - 1) /\ at + x.tot + j < avail THEN src(p, at + x.tot + j) ELSE @[k]]]
        Copy(x, m) ==
          IF x.panic # "none" THEN x
          ELSE IF avail < at + x.tot + m THEN [Fill(x, m) EXCEPT !.stop = TRUE]
          ELSE [log_write(Fill(x, m), x.b) EXCEPT !.tot = @ + m]
        Body(x) == Copy(bmap(x, i, (o + x.tot) \div BSIZE), Piece(o, x.tot, n))
        End(x) == iupdate([x EXCEPT !.size[i] = Max({@, o + x.tot})], i)
    IN  IF o > w.size[i] \/ (o + n) % UINT < o \/ o + n > MAXFILE * BSIZE
        THEN [w EXCEPT !.tot = -1] ELSE End(Loop(Body, w, n))

\* The state after the work w.  A panic stops the machine before the rest is done.
Becomes(w, rest) ==
    IF w.panic = "none"
    THEN /\ rest
         /\ bitmap' = w.bitmap /\ data' = w.data /\ logged' = w.logged
         /\ addrs' = w.addrs /\ size' = w.size /\ op' = w.op /\ UNCHANGED panic
    ELSE panic' = w.panic /\ UNCHANGED <<diskVars, op, off, wr, last>>
-----------------------------------------------------------------------------
(* fileread(), filewrite(), filestat(), and sys_open() of a free struct    *)
(* file.                                                                   *)

Idle(p) == wr[p] = NoWrite /\ panic = "none"
Return(p, call, f, n, ret, bytes) ==
    last' = [p |-> p, call |-> call, f |-> f, n |-> n, ret |-> ret, bytes |-> bytes]

\* n is an int; readi() takes it as a uint.
Read(p, f, n, avail) ==
    LET Result(w) == /\ off' = [off EXCEPT ![f] = IF w.tot > 0 THEN @ + w.tot ELSE @]
                     /\ Return(p, "read", f, n, w.tot, IF w.tot > 0 THEN w.bytes ELSE <<>>)
                     /\ UNCHANGED wr
        Done(w) == Becomes(w, Result(w))
    IN  /\ Idle(p)
        /\ IF f \in readable THEN Done(readi(Work, ip[f], off[f], n % UINT, avail))
           ELSE Return(p, "read", f, n, -1, <<>>) /\ op' = {} /\ UNCHANGED <<diskVars, panic, off, wr>>

Write(p, f, n, avail) ==
    /\ Idle(p)
    /\ \/ /\ f \in writable /\ n > 0
          /\ wr' = [wr EXCEPT ![p] = [f |-> f, n |-> n, i |-> 0, avail |-> avail]]
          /\ last' = NoCall
       \/ /\ ~(f \in writable /\ n > 0)
          /\ Return(p, "write", f, n, IF f \in writable /\ n = 0 THEN 0 ELSE -1, <<>>)
          /\ UNCHANGED wr
    /\ op' = {} /\ UNCHANGED <<diskVars, panic, off>>

\* mutant: no allowance for blocks that are written in part
maxAll == (MAXOPBLOCKS - 1 - 1) * BSIZE

max == ((MAXOPBLOCKS - 1 - 1 - 2) \div 2) * BSIZE

\* One transaction of filewrite().
WriteChunk(p) ==
    LET c == wr[p]
        n1 == Min({c.n - c.i, max})
        Result(w) ==
          /\ off' = [off EXCEPT ![c.f] = IF w.tot > 0 THEN @ + w.tot ELSE @]
          /\ IF w.tot = n1 /\ c.i + n1 < c.n
             THEN wr' = [wr EXCEPT ![p].i = @ + n1] /\ last' = NoCall
             ELSE /\ wr' = [wr EXCEPT ![p] = NoWrite]
                  /\ Return(p, "write", c.f, c.n, IF w.tot = n1 THEN c.n ELSE -1, <<>>)
        Done(w) == Becomes(w, Result(w))
    IN  /\ c # NoWrite /\ panic = "none"
        /\ Done(writei(Work, p, ip[c.f], off[c.f], n1, c.i, c.avail))

\* Of struct stat, the size.
stati(i) == size[i]

Stat(p, f) ==
    /\ Idle(p)
    /\ Return(p, "stat", f, 0, stati(ip[f]), <<>>)
    /\ op' = {} /\ UNCHANGED <<diskVars, panic, off, wr>>

\* The struct file was closed by all who had it, and is opened again.
Open(p, f, trunc) ==
    /\ Idle(p) /\ \A q \in Proc : wr[q].f # f
    /\ LET rest == /\ off' = [off EXCEPT ![f] = 0]
                   /\ Return(p, "open", f, 0, 0, <<>>)
                   /\ UNCHANGED wr
       IN  \/ trunc /\ Becomes([itrunc(Work, ip[f]) EXCEPT !.op = {}], rest)
           \/ ~trunc /\ rest /\ op' = {} /\ UNCHANGED <<diskVars, panic>>

\* The buffer of a block is reused: what log_write() was not told of is lost.
Evict(b) ==
    /\ data[b] # logged[b] /\ panic = "none"
    /\ data' = [data EXCEPT ![b] = logged[b]]
    /\ last' = NoCall /\ op' = {}
    /\ UNCHANGED <<bitmap, logged, addrs, size, panic, off, wr>>

Halted == panic # "none" /\ UNCHANGED vars

Next ==
    \/ \E c \in Calls :
         \/ c.call = "read" /\ Read(c.p, c.f, c.n, c.avail)
         \/ c.call = "write" /\ Write(c.p, c.f, c.n, c.avail)
         \/ c.call = "stat" /\ Stat(c.p, c.f)
         \/ c.call \in {"open", "trunc"} /\ Open(c.p, c.f, c.call = "trunc")
    \/ \E p \in Proc : WriteChunk(p)
    \/ \E b \in Block : Evict(b)
    \/ Halted

Spec == Init /\ [][Next]_vars
-----------------------------------------------------------------------------
\* The blocks of inode i: those its addrs name, and those its indirect block names.
Direct(i) == {k \in 0..NDIRECT : addrs[i][k] # 0}
ViaIndirect(i) == {k \in 0..(NINDIRECT - 1) :
                     addrs[i][NDIRECT] # 0 /\ data[addrs[i][NDIRECT]][k] # 0}
Owns(i) == {<<i, "addr", k>> : k \in Direct(i)} \cup {<<i, "ind", k>> : k \in ViaIndirect(i)}
At(x) == IF x[2] = "addr" THEN addrs[x[1]][x[3]] ELSE data[addrs[x[1]][NDIRECT]][x[3]]

\* The disk block with block bn of the file, 0 if there is none.
BlockAt(i, bn) ==
    IF bn < NDIRECT THEN addrs[i][bn]
    ELSE IF addrs[i][NDIRECT] = 0 THEN 0 ELSE data[addrs[i][NDIRECT]][bn - NDIRECT]

(* balloc(), bfree(), bmap(), itrunc(): the blocks marked in the bitmap    *)
(* are the ones that inodes and their indirect blocks name, each once; no  *)
(* file has a hole below its size, so that reading never allocates; and    *)
(* there is no panic but that of a full disk.                              *)
BlocksPartitioned ==
    LET owned == UNION {Owns(i) : i \in Inum} IN
    /\ panic \in {"none", "balloc: out of blocks"}
    /\ panic = "none" =>
         /\ bitmap = {At(x) : x \in owned}
         /\ \A x, y \in owned : At(x) = At(y) => x = y
         /\ \A i \in Inum : /\ size[i] <= MAXFILE * BSIZE
                            /\ \A k \in 0..(size[i] - 1) : BlockAt(i, k \div BSIZE) # 0

(* filewrite() cuts a write into transactions of max bytes so that none    *)
(* gives more than MAXOPBLOCKS blocks to log_write(), whatever the offset, *)
(* even if every block it allocates has its bit in another bitmap block.   *)
ChunkFits == Cardinality(op) <= MAXOPBLOCKS

\* What a reader can find in inode i, and where that could still be lost.
Content(i) == [k \in 1..size[i] |->
                 IF BlockAt(i, (k - 1) \div BSIZE) = 0 THEN -1
                 ELSE data[BlockAt(i, (k - 1) \div BSIZE)][(k - 1) % BSIZE]]
Torn(i) == {k \in 1..size[i] :
              LET b == BlockAt(i, (k - 1) \div BSIZE) IN
              b # 0 /\ data[b][(k - 1) % BSIZE] # logged[b][(k - 1) % BSIZE]}

Abs == INSTANCE ByteFile WITH
         content <- [i \in Inum |-> Content(i)],
         torn <- [i \in Inum |-> Torn(i)],
         wr <- [p \in Proc |-> [f |-> wr[p].f, n |-> wr[p].n, i |-> wr[p].i]],
         MAXBYTES <- MAXFILE * BSIZE

(* readi(), writei(), fileread(), filewrite(): through bitmap, addrs and   *)
(* indirect blocks, a file is an array of bytes (module ByteFile), also    *)
(* with offsets that are shared, or behind the end after a truncation, and *)
(* with writes that fail half way.                                         *)
IsByteFile == Abs!Spec
=============================================================================
