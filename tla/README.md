# A TLA+ model of the xv6 kernel of this repository

The repository is xv6 for RISC-V with the programs of the 6.S081 "util" lab.
These modules model the parts of the kernel where several processes, CPUs,
interrupt handlers and devices meet, the file system and the memory system with
all the ways in which their calls fail, and the shell and the lab's programs as
processes that use them. TLC checks them on small instances, and
TLAPS proves, for every size, the main facts about the process table, the log,
the buffer cache, the disk driver, pipes and the console. `PROJECT.json` lists, for every definition, the
source lines it translates, and for every property a change to the code that
breaks it.

## The system and its parts

| part (source) | state | operations | hard behaviour | modelled by |
|---|---|---|---|---|
| process table, scheduler (`kernel/proc.c`) | `proc[]`, `cpu`, `wait_lock`, `p->lock` | fork, exit, wait, kill, sleep, wakeup, yield, scheduler | `p->lock` handed over through `swtch()`; exit racing wait; lost wakeups; lock order | `Proc`; `ProcProofs` |
| redo log (`kernel/log.c`) | `log`, log header and blocks on disk | begin_op, log_write, end_op, commit, recovery | crashes between any two disk writes; group commit; space reservation | `Log` implements `AtomicDisk`; `LogProofs` |
| buffer cache, sleep-locks (`kernel/bio.c`, `sleeplock.c`) | LRU list, `struct buf` | bget, bread, bwrite, brelse, bpin, bunpin | recycling racing a lookup; release in two halves | `Bcache` implements `BlockStore`; `BcacheProofs` |
| disk driver (`kernel/virtio_disk.c`) | descriptors, two rings | virtio_disk_rw, virtio_disk_intr | completions out of order, interrupt races, index wrap | `VirtioDisk`; `RingLemmas`, `VirtioProofs` |
| pipes (`kernel/pipe.c`) | ring, `nread`, `nwrite` | pipewrite, piperead, pipeclose | wrap-around, close and kill against sleepers | `Pipe` implements `Fifo`; `RingLemmas`, `PipeProofs` |
| console output (`kernel/uart.c`) | ring, the device's FIFO | uartputc, uartstart, uartintr, uartputc_sync | top half, bottom half and echo on one device | `Uart` implements `Fifo`; `RingLemmas`, `UartProofs` |
| console input (`kernel/console.c`) | ring with `r`, `w`, `e` | consoleintr, consoleread | editing during reads, full ring, ^D put back | `Console` implements `LineDiscipline`; `RingLemmas`, `ConsoleProofs` |
| inodes, directories (`kernel/fs.c`, `sysfile.c`) | `itable`, dinodes, directory entries | open, link, unlink, mkdir, mknod, chdir, path lookup | reference and link counts; lookup racing unlink; the last `iput()` | `Inode` |
| contents of files (`kernel/fs.c`, `file.c`) | bitmap, `addrs`, indirect blocks, offsets | read, write, fstat, truncation | writes in several transactions, failing copies, shared offsets | `FileData` implements `ByteFile` |
| file table, descriptors (`kernel/file.c`, `sysfile.c`) | `ftable`, `ofile`, pipe ends | open, dup, close, pipe, read, write | counts shared by fork and dup; close after the slot is given up | `Files` |
| page allocator, page tables, exec (`kalloc.c`, `vm.c`, `exec.c`) | free pages, page tables | fork, exec, sbrk, exit, wait, copyin/out | error paths that must give back what they took | `Vm` |
| shell (`user/sh.c`) | command trees, children, descriptors | parsecmd, runcmd | descriptors that hide an end of file | `Parser`, `Shell` |
| programs (`user/primes.c`, `pingpong.c`, `xargs.c`, `cat.c`, `echo.c`, `grep.c`) | pipelines | their system calls; grep's matcher and buffer | the sieve's chain of processes | `Shell`, `Grep` |

How the parts interact. A system call runs in a process of `Proc`. Sleeping is
always `sleep(chan, lk)` / `wakeup(chan)`. `Proc` models it lock by lock for
`wait()`, its most delicate user, and the other modules use what it shows:
giving up `lk` and becoming SLEEPING is one step for anybody who holds `lk`.
`kill()` is not such a holder, which is why each module with a test of
`killed` keeps that test apart from the sleep. `Log` reads and writes through
the buffer cache; of the cache it keeps what a crash or an eviction can tell
apart, and `Bcache` shows that what is left out (recycling, waiting) behaves as
a store of blocks. `Bcache` treats a disk transfer as one step; `VirtioDisk` is
about what happens inside it. `Inode` and `FileData` take a transaction of the
log for granted, and share the inode: `Inode` has its counts and its name,
`FileData` its bytes. `Shell` runs programs on `Files`, in which a pipe is the
bounded FIFO that `Pipe` implements, and a file is a sequence, what `FileData`
implements. `Vm` has the memory side of the calls whose process side is in
`Proc`.

## Modules

`X.tla` is a component, `MCX.tla` adds the symmetry set TLC uses, and the
`.cfg` files give the constants their values. Operators that a comment calls a
*mutant* are altered copies of the definition that follows; they are used to
confirm that the properties can fail.

**Proc.** Slot `p` is `&proc[p-1]`. `where[c]` says whether CPU `c` runs its
scheduler, a process, or is on its way `back` through `swtch()`, still on the
process's stack. `ctx[p]` is the saved context, `pc[p]` the place in a system
call, and `idx`, `widx`, `arg`, `kids` are the loop variables and locals of that
call. A lock's value is the CPU that holds it, like `lk->cpu`: it survives
`swtch()` and is released by whoever runs next. A step is the code between two
points where another CPU could see or change what it uses, so each iteration of
a scan over `proc[]` is a step. exit()'s closing of files is in `Files`. init is not killed (`kill(1)` makes init exit, which is a panic), and
does not exit.

**Log** and **AtomicDisk.** One step per disk write, `Crash` at any moment.
Memory is lost at a crash and completed writes stay. `LogPanic` is the panic of
`log_write()` on a full log: it stops the thread with `log.lock` held, and only a
restart (`Crash`) goes on from there. `Evict` recycles an
unpinned buffer. `AtomicDisk` promises that what recovery would find changes
only to the state all completed operations left, when no operation is under
way.

**Bcache** and **BlockStore.** One step per critical section of `bcache.lock`
and of a sleep-lock. A process holds one buffer at a time. It changes a block
and writes it at once, as the log does for its own blocks, or pins it until it
is installed. `BlockStore` promises one user per block who sees the last
contents.

**VirtioDisk.** `free`, `next`, `addr`, `op`, `info`, `status` are the
descriptors and what the driver remembers for each; `avail`, `used` and their
indices are the rings. Sections under `vdisk_lock` are steps, except the
handler, which takes one step per entry because the device writes the used ring
meanwhile. The device (`DevTake`, `DevDone`) is external: it takes chains in
order, completes them in any order and always succeeds, as the driver's panic on
a bad status demands. Ring entries and records that nobody will read again are
reset to a fixed value, which keeps the state space small; the code leaves them.

**Pipe** and **Fifo.** One step per byte, `pi->lock` explicit. A failing
`copyin` or `copyout` may end any turn of the loops; a failing `copyout` loses
its byte, which `Fifo` has as an action of its own (`Lose`).

**Uart.** `uartstart()` tests LSR, takes a byte and writes THR in separate
steps, because the device and `uartputc_sync()` do not take `uart_tx_lock`.
Several of them can find the device empty and write to it; `uartinit()` enables
the device's FIFO, so these writes queue up, at most one per CPU. `Transmit` is
the external device.

**Console** and **LineDiscipline.** `consoleintr()` is one step per
character, by class of character; `consoleread()` one step per character it
takes. Echo and backspacing on the screen are left out (`Uart` has the echo).

**Inode.** A table entry `itable[e]` has the fields of `struct inode`, `dtype`
and `dnlink` are the dinodes, `ents` the directories. A call is a thread `th[p]`
that walks a path, and a step ends where the code releases `itable.lock` or an
inode's sleep-lock, so that another process can come between a lookup and the
lock of what it found. Paths are sequences of names; a directory has room for
all names. Transactions are not modelled: calls are atomic against crashes by
`Log`. History variables say where the claims end: `lost` counts the links of files
created in a directory that has been removed, and `strayed` is set when a path
goes through the ".." of a removed directory (`orphan`) whose parent `iput()`
frees too.

**FileData** and **ByteFile.** Reading, truncation and each transaction of a
write hold the inode's lock and are one step; between the transactions of one
write other processes run. `data` is what the buffer cache has of a block,
`logged` what it would be read as after an `Evict`: they differ where a failing
copy changed a buffer without `log_write()`. A call says how many of its bytes
the user's memory has (`avail`). `op` is the set of blocks given to
`log_write()` in the last transaction. `ByteFile` promises an array of bytes
per file, cut where a transaction ends.

**Vm.** The functions of `vm.c` are operators on a record of free pages, one
page table, success and panic; a system call is one step, because calls of
different processes meet only in `kalloc()` and `kfree()`. Page tables have
three levels with `FAN` entries. Pages are counted, not named.

**Files.** `ftable`, `ofile` and pipes as they are in the code; `fileclose()`
is two steps, because `pipeclose()` comes after `ftable.lock` is released, and
`pipe()` takes its struct files, its page and its descriptors one after the other
and gives back what it has when one is not to be had (`making`).
Each operation is a part of the step of a process in `Shell`.

**Parser.** `parsecmd()` and the functions below it on sequences of tokens, and
a grammar (`Line` and what it uses) to compare with. **Grep.** `match()`,
`matchhere()`, `matchstar()` and the loop over the buffer, and a definition of
what a pattern means. Both are recursive functions of bounded inputs; the run
of `Shell` evaluates them.

**Shell.** A process is the list of system calls it has yet to make, which
`runcmd()` and the programs extend as results come back. `Meaning` says what
a command writes, from its input and the files alone, without processes or
descriptors. `short` remembers that a call failed for lack of processes,
pipes or struct files. Numbers and words are single items; the tokens of a
line are words.

## Runs

| run | constants | what it shows |
|---|---|---|
| `proc_safety` | 3 slots, 2 CPUs, 3 pids, kill(2) | init, a parent and a child, or init and a slot that is used twice; two CPUs race in every pair of calls: no process is on two CPUs, no stack in use is freed, no exit is lost, every child has a parent, whoever sleeps in `wait()` has a child that will wake it, also when `kill()` came too late to, the lock order holds, `sched()`'s panics are unreachable |
| `proc_liveness` | 1 CPU, 3 slots, 3 pids | runnable processes run, orphans are reaped |
| `log` | 2 blocks, 2 values, 3 threads that write 2 blocks each, `LOGSIZE` 4, 2 data blocks in the log on disk, any number of crashes | operations become durable in whole groups; commits exclude operations; nothing stays pinned; sleepers are woken unless `log_write()` panics; commits and recoveries end |
| `bcache` | 3 buffers, 4 blocks, 2 processes, 1 block pinned at a time | the cache is a block store, reference counts are exact, nobody waits for a free lock |
| `disk` | 8 descriptors as in the code, so two requests fit; 3 threads; indices modulo 8 | each request transfers its own block; descriptors are partitioned; no wakeup or interrupt is lost |
| `pipe` | 2-byte pipe, counters modulo 4, 2 readers asking for 2 bytes, 1 writer of 0 or 3 bytes (more than the pipe holds), a reader and the writer may be killed | FIFO order, no stranded reader or writer, no pipe freed in use, close is seen |
| `uart` | 2-byte ring, indices modulo 4, 2 writers, 1 echoing CPU | FIFO order on the wire, the device's FIFO is not overrun, the buffer is drained, writers are woken |
| `console_lines` | 3-character ring, indices modulo 6, 2 readers | line discipline, no stranded reader |
| `inodes` | 3 inodes, 3 table entries, 2 processes, 2 names; while one process links `/a/b` to `/a/a` the other may unlink `/a/b` and remove `/a` | reference and link counts are exact, no inode is freed in use, no deadlock on inode locks, no panic but for lack of inodes (outside the case of `strayed`) |
| `file_data` | blocks of 2 bytes, 1 direct and 1 indirect block per file, 3 data blocks, 2 processes, 3 open files on 2 inodes, one of them write-only; one process reads and truncates while a write of the other is between two transactions | no block is lost or used twice, a transaction fits the log, files are arrays of bytes |
| `memory` | 21 pages, 3 processes, tables of 3 entries, pages of 2 bytes, a uint of 32 values | pages are conserved on every error path, `vm.c` does not panic, a failing call changes nothing, copies touch what they may |
| `programs` | 25 command lines, 6 processes, 6 struct files, 5 pipes of 3 items, primes up to 7; lines of up to 5 tokens for the parser, patterns and texts of up to 4 characters for grep | descriptors are counted exactly, every line ends, its output is its meaning; the parser and grep agree with their definitions |

Several properties are conjunctions of facts about one component: `LogInv`,
`LogProgress`, `BcacheInv`, `VirtioInv`, `NothingLost`, `PipeInv`,
`NobodyStranded`, `OutputProgress` and `LockDiscipline` name their parts, and the
type invariant is a part of one of them where it has no line of its own.
`ProcInv`, `LogInv`, `BcacheInv`, `VirtioInv` and `PipeInv` are the inductive
invariants of the proofs below.

Why the bounds are enough to be interesting. Rings are as small as one
request, so calls fill and drain them in the middle, and the index modulus is a
small multiple of the ring, so wrap-around happens in every run (in the code
the modulus is 2^16, 2^32 or 2^64, also a multiple). Three slots are init, a parent
and a child; three pids let one slot be used twice. Three threads with a log
that admits two operations only while it is empty make `begin_op()` wait, both
for space and for a commit, and two of them wait at once. Four blocks in three buffers force recycling, and three
requests with descriptors for two force waiting for descriptors. Three inodes
are the root and two others, which is enough for a directory inside a directory
and for every reuse of a freed inode, and `ialloc()` runs out. A file of two
blocks has a direct and an indirect one, and two files want more blocks than
there are. With 21 pages three processes fit only while they are small, so
every allocation of every call is reached with none left. The lines of
`programs` contain every operator of the shell and every program, and some of
them run out of pipes, processes or struct files. Larger instances were
explored without a violation: four pids in three slots, so that a full table is
reused, completely (866,782 states); a pipeline of four stages with three pipes
completely (549,143 states); four inodes to 20 million states and larger files
to 700,000 states, both broken off. The bounds are not proofs:
what TLC shows holds for these sizes.

Deadlock is checked everywhere except for `Pipe`, where everybody may have
closed the pipe and stopped. `Inode` and `FileData` have a step `Halted` for the
state after a panic, and `Shell` one for the end of the line (`Terminated`).

Fairness. `Proc`: harts keep executing, and a CPU that spins on a lock that is
released again and again gets it (strong fairness: `amoswap` in a loop against
short critical sections); timer interrupts keep coming (`start.c` programs
them); `init.c` calls `wait()` in an endless loop. `Log`: calls end and disk writes
complete. `Pipe`, `Uart`: a process that can run in the kernel does (this is
`RunnableRuns` of `Proc`); the UART sends what it is given and its interrupts
are taken. `Shell`: a process that can make its next call does, and init or the
shell reaps what has exited. `Bcache`, `VirtioDisk`, `Console`, `Inode`, `FileData` and `Vm` have no fairness: that nobody
sleeps for something that is already there is an invariant of the first three. Nothing is assumed of user programs, and nothing
of who wins a race, except for the strong fairness of spinning on a lock. In
`Log`, a thread may be woken and overtaken for ever; only being woken is claimed.
In `Uart`, progress is claimed if echo stops: `uartputc_sync()` may take the
device again and again.

## Known limits

What the code does where a reader might expect something else. The properties
are stated so that they hold for the code as it is, and the runs leave these
cases out or name them.

In the kernel:

* `kill()` between `wait()`'s test of `p->killed` and `sleep()`'s acquire of
  `p->lock` (`proc.c:420`) leaves the victim asleep until something else wakes
  it. It takes two CPUs. What is left for such a victim is that a child is there
  to wake it (`SleeperHasLiveChild`, proved for any number of CPUs); that it exits at once is not
  claimed.
* `kill(0)` matches free slots (`proc.c:585`), and `allocproc()` does not clear
  the mark. `KillPids` has pids of processes.
* `begin_op()` reserves out of `LOGSIZE`, but one of the log's blocks is the
  header (`log.c:220`): three operations of `MAXOPBLOCKS` blocks each would
  reach `log_write()`'s panic, which a write to a block that is logged already
  reaches too. No caller writes that many; in the run the log is shorter, so
  that it happens.
* A `pipewrite()` that is killed returns without waking readers of what it wrote
  (`pipe.c:86`). `NobodyStranded` excepts readers of a pipe whose writer was
  killed.
* The ".." of a removed directory is not counted in its parent. While a process
  is still in the directory, the parent can be freed, and a path through ".."
  then reaches an inode that is free, being freed or being created. Files
  created in a removed directory are never freed.
* A copy from the user that fails half way leaves bytes in a buffer that are not
  in the log: they are seen until the buffer is recycled.
* `read()` of a negative count reads to the end of the file at offset 0 and
  returns 0 elsewhere: the count is unsigned in `readi()`, and the sum with the
  offset wraps.

In the programs:

* `>>` opens without truncation but writes from the start of the file. Of
  several redirections of one descriptor the first in the line wins. `a & b` on
  one line is a syntax error.
* `primes` writes all that passes its filter before it forks the reader, so it
  relies on the numbers fitting a pipe. `primes`, `pingpong` and `xargs` do not
  test the results of `pipe()` and `fork()`.
* `xargs` does not terminate its argument list with a null pointer of its own. It
  ends at the first empty line. When `exec()` fails its child goes on as a second
  `xargs` that reads the same input, and so does `xargs` itself when `fork()`
  fails. `Meaning` has these as they are.
* `grep` stops at a line that does not fit its buffer.

## Proofs

Each of the modules below proves theorems about a component for all values of
its constants; the assumptions are the ones named in the component's module. A
component's invariant (`ProcInv`, `LogInv`, `BcacheInv`, `VirtioInv`, `PipeInv`,
`UartInv`, `ConsoleInv`) is inductive and is proved with one lemma per action;
the other theorems follow from it. The first five are checked by the component's
run; the last two were checked by TLC on the instances of `uart` (76,068 states)
and `console_lines` (157,914 states), whose runs check what follows from them.

| module | theorems | for any |
|---|---|---|
| `ProcProofs` | `TableInvariant`, `TypeCorrect`, `OneCpu`, `FreedOffCpu`; `ProcInvariant`, `LockDisciplineHolds`, `LiveParents`, `NoExitIsLost`; `SleepersHaveLiveChildren` | `NPROC`, non-empty set of CPUs, bound on pids, arguments of `kill()` |
| `LogProofs` | `LogInvariant`; `CrashAtomicity`: `Log` implements `AtomicDisk` | blocks, values, finite set of threads, `LOGSIZE`, `MAXOPBLOCKS` |
| `BcacheProofs` | `BcacheInvariant`; `BlockStoreRefinement`: `Bcache` implements `BlockStore` | buffers, blocks, values, finite set of processes |
| `VirtioProofs` | `VirtioInvariant`, `TransferIsDone`, `NothingIsLost` | `NUM`, threads, blocks, index modulus that is a multiple of `NUM` |
| `PipeProofs` | `PipeInvariant`, `NoStranding`; `PipeIsFifo`: `Pipe` implements `Fifo` | readers, writers, who may be killed, `PIPESIZE`, counter modulus that is a larger multiple of `PIPESIZE` |
| `UartProofs` | `UartInvariant`, `DeviceNotOverrun`; `WrittenInOrder`: `Uart` implements `Fifo` | writers, finite set of echoing CPUs, depth of the device's FIFO, `UART_TX_BUF_SIZE`, index modulus that is a larger multiple of it |
| `ConsoleProofs` | `ConsoleInvariant`, `NoReaderStranded`; `InputInOrder`: `Console` implements `LineDiscipline` | readers, who may be killed, letters, `INPUT_BUF`, index modulus that is a larger multiple of it |

`RingLemmas` has what the four rings need: free-running indices modulo `M` into a
buffer of `P` entries, with `P` dividing `M`. Distances between indices count
entries as long as at most `P` are in the ring, and putting or taking an entry
is `Append` or `Tail` on the sequence of entries between the two indices; for
the console, with three indices, erasing takes the last entry away and the parts
between neighbouring indices make up the whole. That
`M` is a multiple of `P` is what makes the slots of successive entries distinct
when an index wraps; in the code the moduli are 2^16 (disk), 2^32 (pipes,
console input) and 2^64 (console output), and the rings 8, 512, 128 and 32.

*The process table.* `OneCpuPerProcess` is not inductive: that two CPUs are not
on one stack now does not say that a scheduler will not pick a process that
another CPU is still leaving. `TableInv` adds what rules it out. A CPU on its
way back holds the lock of the process it leaves, and so does one that has just
arrived and not yet returned from `sched()` (`StackInv`); stacks are not shared
(`StackUnique`); a process that is not running has a context to resume in and
one that is free is in no system call (`ContextInv`); the slot that a `fork()`
is filling is USED and nobody else's (`ForkInv`), so that a failing `fork()`
frees only its own. The scheduler needs `p->lock` to be free, hence nobody is on
the stack. Nineteen of the actions only move the program counter of the running
process, and rest on one lemma, `LocalTable`.

*Locks, children and wait().* `ProcInv` adds three facts to `TableInv`.
`HolderInv` says who has which lock: `p->lock` belongs to a CPU on either side of
a `swtch()` to or from `p`, in `sleep()` before it, or in `fork()` while it fills
`p`, and to nobody else; `wait_lock` belongs to the CPU of the one process inside
a section of `wait()` or `exit()`. `LockDiscipline` is read off it. `FamilyInv`
says that parents are alive, that every process but init has one, and what the
place of a process in `fork()` and `exit()` says of its children: the scan of
`reparent()` has left no child behind it, and after it there is none
(`ChildrenOf`). `fork()` sets `np->parent` in a section of its own, while the
child is still USED, and the child becomes RUNNABLE only after that. `WaitInv`
is why no exit is lost. `NoLostExit` speaks of the states in which `wait_lock`
is free, and is not inductive: it says nothing about a scan of `wait()` or a
`wakeup()` that is under way. `SeenBy` does: what the scan has passed is not a
zombie child, and before `exit()` makes the process a zombie its parent is no
longer asleep. The one sleeper that may have a zombie child is init, while the
process that has just given it the child is still to wake it. The lemmas
`HolderStep`, `FamilyStep` and `WaitStep` say what a step must leave alone for
each part to be preserved, and most actions only check their hypotheses.
`SleeperHasLiveChild` takes one more invariant, `KidsInv` (checked by TLC on the
instance of `proc_safety`): whoever has seen a child in `wait()` that had not
exited, and has neither returned nor been woken since, still has one
(`Expecting`). Two facts about slots carry it: a free slot has no parent, and a
USED one with a parent is the one that parent's `fork()` is about to make
RUNNABLE, so what `wait()` counts as a child is a process. It is preserved by
`exit()` because of `WaitInv` and `wait_lock`: the parent of a process that
becomes a zombie is neither asleep nor in its scan.

*The log.* That a crash leaves whole operations is not about a single state, so
the invariant says, for every phase of a commit and of a recovery, which header
is on disk (`PhaseInv`), which blocks are up to date only in the cache and are
therefore pinned (`PinInv`), and how far the copies to the log and to the home
blocks have come (`CopyInv`). From this, what recovery would find (`Durable`) is
left alone by every disk write except the write of the header, which makes it
what operations see, at a moment when none is under way. A crash or a step of
recovery leaves it alone too: installing twice is harmless because the log is
not changed before the header is cleared.

*The buffer cache.* `BufferInv` says that a block has at most one buffer, that a
process's buffer keeps the block it asked for, and that a sleep-lock belongs to
the process between `acquiresleep()` and `releasesleep()`; `RefcntExact` that
`refcnt` counts the processes and the log's pin; `DataInv` that a valid buffer
has the disk's contents unless its block is logged; `TypeOK` that the LRU list is
a permutation of the buffers. Only a buffer with `refcnt = 0` is recycled, so
recycling forgets nothing, and the user of a block is the holder of the one
sleep-lock it has.

*The disk driver.* `TransferDone` depends on where every request is. `ChainInv`
says that each request in flight has three descriptors, formatted for it, that
are nobody else's, and that all others are free; `RequestInv` that a request
which is not over is in exactly one of the available ring, the hands of the
device and the used ring; `BlockInv` that requests are about different blocks
and that one which is finished has been done; `WakeInv` that sleepers have
reason to sleep. That neither ring is overrun is a matter of counting: each
request has descriptors that are not at the start of a chain, so fewer than
`NUM` chains exist (`Room`).

*Pipes.* A process between `acquire()` and `release()` is the holder of
`pi->lock` (`LockInv`). Whoever is about to sleep has seen that it must, and
whoever sleeps has reason to, unless the holder of the lock is inside the loop
at the end of which it calls `wakeup()` (`WaitInv`). When the lock is free there
is no such holder, and nobody is stranded.

*Console output.* `uartputc_sync()` tests LSR and writes THR without
`uart_tx_lock`, so the bytes of `write()` share the device with echo, and
`NoOverrun` is a matter of counting those who have seen the device empty and
have not yet written (`Sending`): with the bytes in the device they are never
more than the echoing CPUs and one, because a new one joins only when the device
is empty, and then they are different threads (`CrowdBound`). `HandInv` says that
`uartstart()` and the device have at most one byte of `write()` between them:
the one lock holder takes a byte only when the device is empty, so it cannot
overtake an earlier one. With this, what is pending is that byte followed by the
ring, and `Transmit` takes it from the front. `RingInv` says that the ring has
no more than it can hold.

*Console input.* `IndexInv` keeps `r`, `w` and `e` in order, no further apart than
the ring is long, through wrap-around, and says that the line being typed has no
newline, so that the loop of ^U, which stops at a newline or at `w`, erases all
of it (`LineStartIs`). Storing, handing over and erasing are then `Append`,
concatenation and removal of the last character on the sequences `Ready` and
`Edit`. `ReaderInv` ties `cons.lock` to the places in `consoleread()` and says
that whoever is about to sleep or asleep has `r = w`: the step that moves `w`
wakes all of them. A ^D that is put back is the character the next read finds,
because `cons.lock` is not released in between.

Only model-checked:

* all liveness: fairness and ENABLED are outside the prover's reach;
* the properties of `Inode`, `FileData`, `Vm`, `Files`, `Shell`, `Parser` and
  `Grep`. These modules use recursive operators, or sums and folds over sets
  that take an operator as an argument, and what a recursive definition computes
  needs induction over data, which the installed provers do not do.

## Not modelled

* The assembly, start-up code, PLIC, traps and page-table hardware: they have
  no state a property here speaks of. The atomic instructions and fences of
  `spinlock.c` are assumed to do what they are for, and weak memory ordering is
  not modelled.
* `sleep()` on ticks: its waiting is that of `Proc`, and what is left is one
  comparison of unsigned numbers.
* `umalloc.c`, `find`, the splitting of a line into arguments by `xargs`,
  and the characters of tokens and path elements: sequential code about
  pointers and strings.
* Formatting and string routines, the remaining programs, `mkfs`, the test
  programs, and `ramdisk.c`, which is not built.
* pid overflow after 2^31 forks is excluded by `MaxPid`.

## Plan

1. More proofs: `Inode`'s reference counts, once its sums are stated without
   operators as arguments.
2. More of the system: spinlock and interrupt nesting, `sleep()` on ticks,
   `umalloc`.
