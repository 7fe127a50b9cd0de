--------------------------------- MODULE Vm ---------------------------------
(***************************************************************************)
(* Physical pages and user address spaces: kernel/kalloc.c, kernel/vm.c,   *)
(* kernel/exec.c and the part of kernel/proc.c and kernel/sysfile.c that   *)
(* makes, copies, resizes and frees a process's memory.                    *)
(*                                                                         *)
(* The functions of vm.c are operators on a working record: the free list, *)
(* one page table, whether the last allocation succeeded and whether a     *)
(* panic was reached.  A system call is one step.  Calls of several        *)
(* processes meet only in kalloc() and kfree(), which hold kmem.lock; what *)
(* one call sees of the others is how many pages are left, and the pipes   *)
(* and processes of the model take and give back pages between calls.      *)
(*                                                                         *)
(* A page-table page has FAN entries instead of 512, a page PGSIZE bytes   *)
(* instead of 4096; growproc()'s uint wraps at UINT instead of 2^32, and   *)
(* exec()'s uint64 at ULONG instead of 2^64.                               *)
(* Which page kalloc() returns never matters: the free list is its length, *)
(* and a page that is lost, or freed twice, is one too few or too many.    *)
(***************************************************************************)
EXTENDS Integers, Sequences, SequencesExt, FiniteSets, FiniteSetsExt

CONSTANTS
    NPAGES,           \* pages between end and PHYSTOP
    PGSIZE, FAN, UINT, ULONG,
    Proc, initproc,
    Images,           \* what exec() may find in a file
    ArgCounts,        \* strings sys_exec() may have to copy in
    SbrkArgs, MaxPipes

ASSUME VmAssumption ==
    /\ NPAGES \in Nat /\ PGSIZE \in Nat \ {0} /\ FAN \in Nat \ {0, 1} /\ UINT \in Nat /\ ULONG \in Nat \ {0}
    /\ initproc \in Proc /\ SbrkArgs \subseteq Int /\ ArgCounts \subseteq Nat
    /\ MaxPipes \in Nat

VARIABLES
    free,             \* the length of kmem.freelist
    proc,             \* struct proc: state, sz, pagetable (and its trapframe page)
    pipes,            \* pages held by pipealloc()
    ret,              \* what the last system call returned, -1 for an error
    panic

vars == <<free, proc, pipes, ret, panic>>

VPage == 0..(FAN * FAN * FAN - 1)
TRAMPOLINE == FAN * FAN * FAN - 1
TRAPFRAME == TRAMPOLINE - 1
PGROUNDUP(a) == ((a + PGSIZE - 1) \div PGSIZE) * PGSIZE

\* The tables a walk to page v passes below the root, top down.
TablesTo(v) == <<<<1, v \div (FAN * FAN)>>, <<0, v \div FAN>>>>

\* A page table: its tables, the root among them, its leaves, and those with PTE_U.
Root == <<2, 0>>
NoTable == [table |-> {}, leaf |-> {}, user |-> {}]
-----------------------------------------------------------------------------
(* kalloc(), kfree()                                                       *)

Kalloc(w) == IF w.free = 0 THEN [w EXCEPT !.ok = FALSE] ELSE [w EXCEPT !.ok = TRUE, !.free = @ - 1]

Kfree(w, n) == [w EXCEPT !.free = @ + n]

Work(n, t) == [free |-> n, pt |-> t, ok |-> TRUE, panic |-> FALSE]
-----------------------------------------------------------------------------
(* walk(pagetable, va, 1): the tables on the way are created, top down.    *)

Walk(w, v) ==
    LET Enter(a, k) == IF a.ok THEN [a EXCEPT !.pt.table = @ \cup {k}] ELSE a
        Down(x, k) == IF ~x.ok \/ k \in x.pt.table THEN x ELSE Enter(Kalloc(x), k)
    IN  FoldLeft(Down, [w EXCEPT !.ok = TRUE], TablesTo(v))

\* All callers but kvmmap() map one page.
Mappages(w, v, user) ==
    LET Set(a) == IF ~a.ok THEN a
                  ELSE IF v \in a.pt.leaf THEN [a EXCEPT !.panic = TRUE]
                  ELSE [a EXCEPT !.pt.leaf = @ \cup {v},
                                 !.pt.user = IF user THEN @ \cup {v} ELSE @]
    IN  Set(Walk(w, v))

Uvmunmap(w, v, npages, do_free) ==
    LET gone == v..(v + npages - 1) IN
    IF ~(gone \subseteq w.pt.leaf) THEN [w EXCEPT !.panic = TRUE]
    ELSE [Kfree(w, IF do_free THEN npages ELSE 0) EXCEPT
             !.pt.leaf = @ \ gone, !.pt.user = @ \ gone]

Freewalk(w) ==
    IF w.pt.leaf # {} THEN [w EXCEPT !.panic = TRUE]
    ELSE [Kfree(w, Cardinality(w.pt.table)) EXCEPT !.pt = NoTable]

Uvmfree(w, sz) ==
    Freewalk(IF sz > 0 THEN Uvmunmap(w, 0, PGROUNDUP(sz) \div PGSIZE, TRUE) ELSE w)
-----------------------------------------------------------------------------
(* One page of uvmalloc() or uvmcopy(): kalloc(), then mappages(), and the *)
(* page is given back when the latter fails.                               *)

\* mutant: the page is not given back when there is no table to map it in
AddPageLeak(w, v, user) ==
    LET Map(a) == IF a.ok THEN Mappages(a, v, user) ELSE a
    IN  IF w.ok THEN Map(Kalloc(w)) ELSE w

AddPage(w, v, user) ==
    LET Keep(m) == IF m.ok THEN m ELSE Kfree(m, 1)
        Map(a) == IF a.ok THEN Keep(Mappages(a, v, user)) ELSE a
    IN  IF w.ok THEN Map(Kalloc(w)) ELSE w

\* The pages first..last in order, and the first of them that is not mapped.
Upto(first, last) == [i \in 1..(last - first + 1) |-> first + i - 1]
Reached(w, first) == Min({v \in first..(TRAMPOLINE + 1) : v \notin w.pt.leaf})

\* mutant: the new size is rounded down
UvmdeallocDown(w, oldsz, newsz) ==
    LET o == PGROUNDUP(oldsz) \div PGSIZE
        n == newsz \div PGSIZE
    IN  IF newsz >= oldsz THEN [w |-> w, ret |-> oldsz]
        ELSE [w |-> IF n < o THEN Uvmunmap(w, n, o - n, TRUE) ELSE w, ret |-> newsz]

Uvmdealloc(w, oldsz, newsz) ==
    LET o == PGROUNDUP(oldsz) \div PGSIZE
        n == PGROUNDUP(newsz) \div PGSIZE
    IN  IF newsz >= oldsz THEN [w |-> w, ret |-> oldsz]
        ELSE [w |-> IF n < o THEN Uvmunmap(w, n, o - n, TRUE) ELSE w, ret |-> newsz]

Uvmalloc(w, oldsz, newsz) ==
    LET first == PGROUNDUP(oldsz) \div PGSIZE
        last == (PGROUNDUP(newsz) \div PGSIZE) - 1
        Add(x, v) == AddPage(x, v, TRUE)
        Done(a) ==
          IF a.ok THEN [w |-> a, ret |-> newsz]
          ELSE [w |-> Uvmdealloc(a, Reached(a, first) * PGSIZE, first * PGSIZE).w, ret |-> 0]
    IN  IF newsz < oldsz THEN [w |-> w, ret |-> oldsz]
        ELSE Done(FoldLeft(Add, [w EXCEPT !.ok = TRUE], Upto(first, last)))

\* The leaves keep their flags: the guard page of the parent is one of the child.
Uvmcopy(old, w, sz) ==
    LET Add(x, v) == IF v \notin old.leaf THEN [x EXCEPT !.panic = TRUE]
                     ELSE AddPage(x, v, v \in old.user)
        Done(a) == IF a.ok THEN a
                   ELSE [Uvmunmap(a, 0, Reached(a, 0), TRUE) EXCEPT !.ok = FALSE]
    IN  Done(FoldLeft(Add, w, Upto(0, (PGROUNDUP(sz) \div PGSIZE) - 1)))

Uvmclear(w, v) == [w EXCEPT !.pt.user = @ \ {v}]
-----------------------------------------------------------------------------
(* proc_pagetable(), proc_freepagetable()                                  *)

ProcPagetable(w) ==
    LET Frame(f) == IF f.ok THEN f ELSE Uvmfree(Uvmunmap(f, TRAMPOLINE, 1, FALSE), 0)
        Tramp(t) == IF t.ok THEN Frame(Mappages(t, TRAPFRAME, FALSE)) ELSE Uvmfree(t, 0)
        Create(c) == IF c.ok THEN Tramp(Mappages([c EXCEPT !.pt.table = {Root}], TRAMPOLINE, FALSE))
                     ELSE c
    IN  Create(Kalloc(w))

ProcFreepagetable(w, sz) ==
    Uvmfree(Uvmunmap(Uvmunmap(w, TRAMPOLINE, 1, FALSE), TRAPFRAME, 1, FALSE), sz)

Unused == [state |-> "UNUSED", sz |-> 0, pagetable |-> NoTable]

Init ==
    LET w == AddPage(ProcPagetable(Kalloc(Work(NPAGES, NoTable))), 0, TRUE) IN
    /\ free = w.free /\ panic = w.panic                         \* userinit(), uvminit()
    /\ proc = [p \in Proc |-> IF p = initproc
                              THEN [state |-> "USED", sz |-> PGSIZE, pagetable |-> w.pt]
                              ELSE Unused]
    /\ pipes = 0 /\ ret = 0
-----------------------------------------------------------------------------
(* The system calls                                                        *)

Running(p) == proc[p].state = "USED" /\ ~panic
Space(p) == Work(free, proc[p].pagetable)

\* freeproc() on a process that has a trapframe, and the page table w.pt if any.
Freeproc(w, sz) ==
    IF w.pt = NoTable THEN Kfree(w, 1) ELSE ProcFreepagetable(Kfree(w, 1), sz)

\* allocproc(), then uvmcopy(); .ok is whether the child exists.
ForkMemory(p) ==
    LET Copied(c) == IF c.ok THEN c ELSE Freeproc(c, 0)
        Table(t) == IF t.ok THEN Copied(Uvmcopy(proc[p].pagetable, t, proc[p].sz))
                    ELSE Freeproc(t, 0)
        Frame(a) == IF a.ok THEN Table(ProcPagetable(a)) ELSE a
    IN  Frame(Kalloc(Work(free, NoTable)))

Fork(p) ==
    LET slots == {q \in Proc : proc[q].state = "UNUSED"}
        Done(w) ==
          /\ free' = w.free /\ panic' = w.panic
          /\ ret' = IF w.ok THEN 0 ELSE -1
          /\ proc' = IF w.ok
                     THEN [proc EXCEPT ![Min(slots)] =
                             [state |-> "USED", sz |-> proc[p].sz, pagetable |-> w.pt]]
                     ELSE proc
    IN  /\ Running(p)
        /\ IF slots = {} THEN ret' = -1 /\ UNCHANGED <<free, proc, panic>>
           ELSE Done(ForkMemory(p))
        /\ UNCHANGED pipes

\* sys_sbrk() and growproc(): sz and sz + n are 32-bit unsigned.
Sbrk(p, n) ==
    LET sz == proc[p].sz
        to == (sz + n) % UINT
        Done(g, failed) ==
          /\ free' = g.w.free /\ panic' = g.w.panic
          /\ ret' = IF failed THEN -1 ELSE 0
          /\ proc' = [proc EXCEPT ![p].pagetable = g.w.pt, ![p].sz = IF failed THEN @ ELSE g.ret]
        Grown(g) == Done(g, g.ret = 0)
    IN  /\ Running(p)
        /\ \/ n > 0 /\ Grown(Uvmalloc(Space(p), sz, to))
           \/ n < 0 /\ Done(Uvmdealloc(Space(p), sz, to), FALSE)
           \/ n = 0 /\ Done([w |-> Space(p), ret |-> sz], FALSE)
        /\ UNCHANGED pipes

\* exit(): the memory stays until the parent's wait() calls freeproc().
Exit(p) ==
    /\ Running(p) /\ p # initproc
    /\ proc' = [proc EXCEPT ![p].state = "ZOMBIE"]
    /\ ret' = 0 /\ UNCHANGED <<free, pipes, panic>>

Wait(p) ==
    /\ proc[p].state = "ZOMBIE" /\ ~panic
    /\ LET w == Freeproc(Space(p), proc[p].sz) IN free' = w.free /\ panic' = w.panic
    /\ proc' = [proc EXCEPT ![p] = Unused]
    /\ ret' = 0 /\ UNCHANGED pipes

\* pipealloc() and the last pipeclose(): a pipe takes a page.
PipeAlloc ==
    /\ ~panic /\ pipes < MaxPipes
    /\ LET w == Kalloc(Work(free, NoTable)) IN
          /\ free' = w.free
          /\ pipes' = IF w.ok THEN pipes + 1 ELSE pipes
          /\ ret' = IF w.ok THEN 0 ELSE -1
    /\ UNCHANGED <<proc, panic>>

PipeClose ==
    /\ ~panic /\ pipes > 0
    /\ pipes' = pipes - 1 /\ free' = free + 1
    /\ ret' = 0 /\ UNCHANGED <<proc, panic>>
-----------------------------------------------------------------------------
(* walkaddr(), copyout(), copyin(), copyinstr()                            *)

\* Whether walkaddr() finds a page at virtual address va that is the user's.
Walkaddr(t, va) == va \div PGSIZE \in t.user

\* mutant: the first page is taken to be whole
CopyWhole(t, va, len) ==
    LET copy[d \in Nat, l \in Nat] ==
          LET n == Min({PGSIZE, l})
              rest == copy[d - (d % PGSIZE) + PGSIZE, l - n]
          IN  IF l = 0 THEN [ret |-> 0, bytes |-> <<>>]
              ELSE IF ~Walkaddr(t, d) THEN [ret |-> -1, bytes |-> <<>>]
              ELSE [ret |-> rest.ret, bytes |-> [i \in 1..n |-> d + i - 1] \o rest.bytes]
    IN  copy[va, len]

\* copyout() and copyin(): the bytes touched, page by page, and what is returned.
Copy(t, va, len) ==
    LET copy[d \in Nat, l \in Nat] ==
          LET va0 == d - (d % PGSIZE)
              n == Min({PGSIZE - (d - va0), l})
              rest == copy[va0 + PGSIZE, l - n]
          IN  IF l = 0 THEN [ret |-> 0, bytes |-> <<>>]
              ELSE IF ~Walkaddr(t, va0) THEN [ret |-> -1, bytes |-> <<>>]
              ELSE [ret |-> rest.ret, bytes |-> [i \in 1..n |-> d + i - 1] \o rest.bytes]
    IN  copy[va, len]

\* copyinstr() of a string whose '\0' is at va + len.
Copyinstr(t, va, len, max) ==
    LET copy[d \in Nat, m \in Nat] ==
          LET va0 == d - (d % PGSIZE)
              n == Min({PGSIZE - (d - va0), m})
          IN  IF m = 0 \/ ~Walkaddr(t, va0) THEN -1
              ELSE IF va + len < d + n THEN 0
              ELSE copy[va0 + PGSIZE, m - n]
    IN  copy[va, max]
-----------------------------------------------------------------------------
(* exec().  An image says whether the header reads well, the program       *)
(* headers in order, each with whether it can be read and is to be loaded, *)
(* and whether the arguments fit on the stack page.                        *)

\* loadseg(): the pages must exist; readi() comes up short unless seg.full.
Loadseg(x, seg) ==
    IF \E i \in 0..(seg.filesz - 1) :
          i % PGSIZE = 0 /\ ~Walkaddr(x.w.pt, seg.vaddr + i)
    THEN [x EXCEPT !.w.panic = TRUE]
    ELSE [x EXCEPT !.ok = seg.filesz = 0 \/ seg.full]

ExecSegment(x, seg) ==
    LET Load(y) == IF seg.vaddr % PGSIZE # 0 THEN [y EXCEPT !.ok = FALSE] ELSE Loadseg(y, seg)
        Grown(g) == IF g.ret = 0 THEN [x EXCEPT !.w = g.w, !.ok = FALSE]
                    ELSE Load([x EXCEPT !.w = g.w, !.sz = g.ret])
        top == (seg.vaddr + seg.memsz) % ULONG
        bad == seg.memsz < seg.filesz \/ top < seg.vaddr
    IN  IF ~x.ok \/ (seg.read /\ ~seg.load) THEN x
        ELSE IF ~seg.read \/ bad THEN [x EXCEPT !.ok = FALSE]
        ELSE Grown(Uvmalloc(x.w, x.sz, top))

\* The two pages of the stack, on top of what the segments left.
ExecStack(x, fits) ==
    LET sz == PGROUNDUP(x.sz)
        Grown(g) == IF g.ret = 0 THEN [w |-> g.w, sz |-> sz, ok |-> FALSE]
                    ELSE [w |-> Uvmclear(g.w, sz \div PGSIZE), sz |-> g.ret, ok |-> fits]
    IN  IF x.ok THEN Grown(Uvmalloc(x.w, sz, sz + 2 * PGSIZE)) ELSE x

\* mutant: the old image is given up before the new one, which is bad, has been read
ExecWithEarly(p, img, n) ==
    LET Fail(g) == [free |-> g.w.free, panic |-> g.w.panic, ret |-> -1,
                    proc |-> [proc[p] EXCEPT !.sz = 0, !.pagetable = g.w.pt]]
    IN  Fail(Uvmdealloc(Work(n, proc[p].pagetable), proc[p].sz, 0))

\* exec(): the free list and the process that come out of it.
ExecWith(p, img, n) ==
    LET Fail(w) == [free |-> w.free, proc |-> proc[p], ret |-> -1, panic |-> w.panic]
        Commit(w, x) == [free |-> w.free, panic |-> w.panic, ret |-> 0,
                         proc |-> [proc[p] EXCEPT !.sz = x.sz, !.pagetable = x.w.pt]]
        Image(x) == IF x.ok
                    THEN Commit(ProcFreepagetable([x.w EXCEPT !.pt = proc[p].pagetable],
                                                  proc[p].sz), x)
                    ELSE Fail(ProcFreepagetable(x.w, x.sz))
        Table(t) == IF t.ok
                    THEN Image(ExecStack(FoldLeft(ExecSegment, [w |-> t, sz |-> 0, ok |-> TRUE],
                                                  img.segs), img.fits))
                    ELSE Fail(t)
    IN  IF img.header THEN Table(ProcPagetable(Work(n, NoTable))) ELSE Fail(Work(n, NoTable))

\* sys_exec(): a page for each of n arguments, given back whatever exec() returns.
Exec(p, img, n) ==
    LET Done(e) == /\ free' = e.free + n /\ panic' = e.panic /\ ret' = e.ret
                   /\ proc' = [proc EXCEPT ![p] = e.proc]
    IN  /\ Running(p)
        /\ IF free < n THEN ret' = -1 /\ UNCHANGED <<free, proc, panic>>
           ELSE Done(ExecWith(p, img, free - n))
        /\ UNCHANGED pipes
-----------------------------------------------------------------------------
Next ==
    \/ \E p \in Proc : Fork(p) \/ Exit(p) \/ Wait(p)
    \/ \E p \in Proc, n \in SbrkArgs : Sbrk(p, n)
    \/ \E p \in Proc, img \in Images, n \in ArgCounts : Exec(p, img, n)
    \/ PipeAlloc \/ PipeClose

Spec == Init /\ [][Next]_vars
-----------------------------------------------------------------------------
Live == {p \in Proc : proc[p].state # "UNUSED"}

(* kalloc(), kfree(): every page is on the free list or is one trapframe,  *)
(* one page-table page or one user page of a process that still exists, or *)
(* one pipe.  No fork(), exec(), sbrk(), exit() or wait(), and none of the *)
(* ways in which they fail half way, loses a page or frees one twice.      *)
PagesConserved ==
    LET used(p) == 1 + Cardinality(proc[p].pagetable.table)
                   + Cardinality(proc[p].pagetable.leaf \ {TRAMPOLINE, TRAPFRAME})
    IN  free >= 0 /\ free + pipes + MapThenSumSet(used, Live) = NPAGES

(* uvmunmap(), freewalk(), mappages(), uvmcopy(), loadseg(): none of their *)
(* panics is reached, because a process has mapped the pages below its sz, *)
(* its trapframe and the trampoline, and nothing else, and has the tables  *)
(* that lead to them.                                                      *)
MappingExact ==
    /\ ~panic
    /\ \A p \in Live :
         LET t == proc[p].pagetable IN
         /\ t.leaf = {v \in VPage : v * PGSIZE < proc[p].sz} \cup {TRAMPOLINE, TRAPFRAME}
         /\ t.user \subseteq t.leaf \ {TRAMPOLINE, TRAPFRAME}
         /\ \A v \in t.leaf : ToSet(TablesTo(v)) \subseteq t.table

(* fork(), exec(), growproc(), pipealloc(): a call that fails leaves every *)
(* process with the memory it had, and the only pages it keeps are new     *)
(* page-table pages that a process's own page table refers to.             *)
FailureUndone ==
    [][ret' = -1 =>
         /\ \A p \in Proc :
              /\ proc'[p].state = proc[p].state /\ proc'[p].sz = proc[p].sz
              /\ proc'[p].pagetable.leaf = proc[p].pagetable.leaf
              /\ proc'[p].pagetable.user = proc[p].pagetable.user
              /\ proc[p].pagetable.table \subseteq proc'[p].pagetable.table
         /\ pipes' = pipes
         /\ free - free' = MapThenSumSet(
              LAMBDA p : Cardinality(proc'[p].pagetable.table \ proc[p].pagetable.table), Proc)]_vars

(* copyout(), copyin() and copyinstr() succeed exactly when every byte of  *)
(* the range is the user's, copy the right bytes in order, and when they   *)
(* fail have touched what precedes the first page that is not the user's.  *)
CopyExact ==
    \A p \in Live :
      LET t == proc[p].pagetable
          edges == {0} \cup {s \in {proc[p].sz - 2, proc[p].sz - 1, proc[p].sz} : s >= 0}
      IN  \A va \in edges \cup {TRAPFRAME * PGSIZE - 1}, len \in 0..(2 * PGSIZE + 1) :
            LET m == Cardinality({k \in 0..(len - 1) : \A j \in 0..k : Walkaddr(t, va + j)})
                c == Copy(t, va, len)
            IN  /\ c.ret = IF m = len THEN 0 ELSE -1
                /\ c.bytes = [k \in 1..m |-> va + k - 1]
                /\ \A max \in {len, len + 1} :
                     (Copyinstr(t, va, len, max) = 0)
                       <=> (len < max /\ m = len /\ Walkaddr(t, va + len))
=============================================================================
