------------------------------- MODULE Files --------------------------------
(***************************************************************************)
(* Struct files and file descriptors: kernel/file.c, and the calls of      *)
(* kernel/sysfile.c that work on descriptors.  Each operator below is the  *)
(* effect of a call on the file layer; module Shell has the processes that *)
(* make them.                                                              *)
(*                                                                         *)
(* A pipe is the bounded FIFO that module Pipe is shown to be, whose calls *)
(* wait by not being enabled; files are the arrays of module ByteFile; and *)
(* the console takes what is written and has no input.                     *)
(***************************************************************************)
EXTENDS Integers, Sequences, FiniteSets, FiniteSetsExt

CONSTANTS
    Proc, NFILE, NOFILE, NPIPE, PIPESIZE,
    FileName

ASSUME FilesAssumption == {NFILE, NOFILE, NPIPE, PIPESIZE} \subseteq Nat \ {0}

Fd == 0..(NOFILE - 1)
Slot == 1..NFILE
Pipe == 1..NPIPE

VARIABLES
    ftable,           \* struct file: ref, type, pipe or name, writable, off
    ofile,            \* p->ofile: the struct file of each descriptor, 0 for none
    pipes,            \* struct pipe: data, readopen, writeopen, live while it has its page
    files,            \* the contents of the files, Missing until they are created
    console,          \* what was written to the console
    closing,          \* each process: fileclose()'s copy of a struct file it has freed
    making,           \* each process: the struct files sys_pipe() has taken, and whether it gives them back
    panic

fileVars == <<ftable, ofile, pipes, files, console, closing, making, panic>>

NoFile == [ref |-> 0, type |-> "FD_NONE", pipe |-> 0, name |-> "none", writable |-> FALSE, off |-> 0]
Console == [NoFile EXCEPT !.ref = 3, !.type = "FD_DEVICE", !.writable = TRUE]
Missing == <<-1>>
NoPipe == [data |-> <<>>, readopen |-> FALSE, writeopen |-> FALSE, live |-> FALSE]
NotMaking == [taken |-> <<>>, undo |-> FALSE]

\* init has opened the console, duplicated it twice, and started the shell.
FilesInit(sh, contents) ==
    /\ ftable = [f \in Slot |-> IF f = 1 THEN Console ELSE NoFile]
    /\ ofile = [p \in Proc |-> [fd \in Fd |-> IF p = sh /\ fd \in 0..2 THEN 1 ELSE 0]]
    /\ pipes = [k \in Pipe |-> NoPipe]
    /\ files = contents /\ console = <<>>
    /\ closing = [p \in Proc |-> NoFile] /\ making = [p \in Proc |-> NotMaking] /\ panic = FALSE

\* filealloc(), fdalloc(), pipealloc()'s kalloc(): the lowest that is free.
FreeFiles == {f \in Slot : ftable[f].ref = 0}
FreeFds(p) == {fd \in Fd : ofile[p][fd] = 0}
FreePipes == {k \in Pipe : ~pipes[k].live}
Second(S) == Min(S \ {Min(S)})

Ready(p) == closing[p] = NoFile /\ ~making[p].undo /\ ~panic
File(p, fd) == ftable[ofile[p][fd]]
-----------------------------------------------------------------------------
\* mutant: the new descriptor without filedup()
dupNoRef(p, fd) ==
    /\ ofile' = IF ofile[p][fd] = 0 \/ FreeFds(p) = {} THEN ofile
                ELSE [ofile EXCEPT ![p][Min(FreeFds(p))] = ofile[p][fd]]
    /\ UNCHANGED <<ftable, pipes, files, console, closing, making, panic>>

\* sys_dup(): the descriptor first, then filedup().
dup(p, fd) ==
    /\ IF ofile[p][fd] = 0 \/ FreeFds(p) = {} THEN UNCHANGED <<ftable, ofile>>
       ELSE /\ ofile' = [ofile EXCEPT ![p][Min(FreeFds(p))] = ofile[p][fd]]
            /\ ftable' = [ftable EXCEPT ![ofile[p][fd]].ref = @ + 1]
    /\ UNCHANGED <<pipes, files, console, closing, making, panic>>

\* fileclose() up to the release of ftable.lock.
closefile(p, f) ==
    /\ panic' = (ftable[f].ref < 1)
    /\ IF ftable[f].ref > 1
       THEN ftable' = [ftable EXCEPT ![f].ref = @ - 1] /\ UNCHANGED closing
       ELSE ftable' = [ftable EXCEPT ![f] = NoFile] /\ closing' = [closing EXCEPT ![p] = ftable[f]]

\* close(): the descriptor's removal comes with it.
fileclose(p, fd) ==
    /\ closefile(p, ofile[p][fd])
    /\ ofile' = [ofile EXCEPT ![p][fd] = 0]
    /\ UNCHANGED <<pipes, files, console, making>>

\* The rest of fileclose(): pipeclose() of the end that was open, or iput().
FinishClose(p) ==
    /\ closing[p] # NoFile /\ ~panic
    /\ pipes' = IF closing[p].type # "FD_PIPE" THEN pipes
                ELSE [pipes EXCEPT ![closing[p].pipe] =
                  LET c == IF closing[p].writable THEN [@ EXCEPT !.writeopen = FALSE]
                           ELSE [@ EXCEPT !.readopen = FALSE]
                  IN  IF c.readopen \/ c.writeopen THEN c ELSE NoPipe]
    /\ closing' = [closing EXCEPT ![p] = NoFile]
    /\ UNCHANGED <<ftable, ofile, files, console, making, panic>>

(* pipealloc() and sys_pipe(): a struct file, another, then a page and two *)
(* descriptors.  When one is not to be had, what was taken is given back.  *)
(* The callers' arrays are on their stacks: copyout() does not fail.       *)

pipefile(p) ==
    /\ Len(making[p].taken) < 2 /\ FreeFiles # {}
    /\ ftable' = [ftable EXCEPT ![Min(FreeFiles)].ref = 1]
    /\ making' = [making EXCEPT ![p].taken = Append(@, Min(FreeFiles))]
    /\ UNCHANGED <<ofile, pipes, files, console, closing, panic>>

\* The two struct files become the ends of a pipe in a new page.
PipeEnds(p) ==
    LET k == Min(FreePipes)
        End(w) == [NoFile EXCEPT !.ref = 1, !.type = "FD_PIPE", !.pipe = k, !.writable = w]
    IN  /\ ftable' = [ftable EXCEPT ![making[p].taken[1]] = End(FALSE), ![making[p].taken[2]] = End(TRUE)]
        /\ pipes' = [pipes EXCEPT ![k] = [data |-> <<>>, readopen |-> TRUE, writeopen |-> TRUE, live |-> TRUE]]

pipe(p) ==
    /\ Len(making[p].taken) = 2 /\ FreePipes # {} /\ Cardinality(FreeFds(p)) >= 2
    /\ PipeEnds(p)
    /\ ofile' = [ofile EXCEPT ![p][Min(FreeFds(p))] = making[p].taken[1],
                              ![p][Second(FreeFds(p))] = making[p].taken[2]]
    /\ making' = [making EXCEPT ![p] = NotMaking]
    /\ UNCHANGED <<files, console, closing, panic>>

\* No struct file; no page, at any time when others use the memory too; or no
\* two descriptors, when the pipe is there already and closing its ends frees it.
pipeFailed(p, scarce) ==
    /\ IF Len(making[p].taken) = 2 /\ FreePipes # {} /\ Cardinality(FreeFds(p)) < 2
       THEN PipeEnds(p)
       ELSE /\ IF Len(making[p].taken) < 2 THEN FreeFiles = {} ELSE scarce \/ FreePipes = {}
            /\ UNCHANGED <<ftable, pipes>>
    /\ making' = [making EXCEPT ![p].undo = making[p].taken # <<>>]
    /\ UNCHANGED <<ofile, files, console, closing, panic>>

\* One fileclose() of the undoing.
pipeUndo(p) ==
    LET taken == making[p].taken IN
    /\ making[p].undo /\ closing[p] = NoFile /\ ~panic
    /\ closefile(p, Head(taken))
    /\ making' = [making EXCEPT ![p] = IF Len(taken) = 1 THEN NotMaking ELSE [@ EXCEPT !.taken = Tail(@)]]
    /\ UNCHANGED <<ofile, pipes, files, console>>

\* sys_open() of a file, as far as descriptors are concerned.
OpenFails(p, name, mode) ==
    FreeFiles = {} \/ FreeFds(p) = {} \/ (mode = "O_RDONLY" /\ files[name] = Missing)

\* create() comes before filealloc(), itrunc() at the end.
Created(name, mode) ==
    IF mode # "O_RDONLY" /\ files[name] = Missing THEN [files EXCEPT ![name] = <<>>] ELSE files

openFailed(name, mode) ==
    files' = Created(name, mode) /\ UNCHANGED <<ftable, ofile, pipes, console, closing, making, panic>>

open(p, name, mode) ==
    LET f == Min(FreeFiles) IN
    /\ ftable' = [ftable EXCEPT ![f] = [NoFile EXCEPT !.ref = 1, !.type = "FD_INODE", !.name = name,
                                                      !.writable = mode # "O_RDONLY"]]
    /\ ofile' = [ofile EXCEPT ![p][Min(FreeFds(p))] = f]
    /\ files' = IF mode = "O_TRUNC" THEN [files EXCEPT ![name] = <<>>] ELSE Created(name, mode)
    /\ UNCHANGED <<pipes, console, closing, making, panic>>

\* fork(): the child has the parent's descriptors.  filedup() panics on a free file.
forkfiles(p, c) ==
    /\ ofile' = [ofile EXCEPT ![c] = ofile[p]]
    /\ panic' = \E fd \in Fd : ofile[p][fd] # 0 /\ File(p, fd).ref < 1
    /\ ftable' = [f \in Slot |-> [ftable[f] EXCEPT !.ref = @ + Cardinality({fd \in Fd : ofile[p][fd] = f})]]
    /\ UNCHANGED <<pipes, files, console, closing, making>>
-----------------------------------------------------------------------------
(* fileread() and filewrite() of one item.  A read returns it, or EOF (0), *)
(* or an error (-1).                                                       *)

ReadFails(p, fd) == ofile[p][fd] = 0 \/ (File(p, fd).writable /\ File(p, fd).type # "FD_DEVICE")

\* piperead() waits for data as long as there is a writer.
ReadWaits(p, fd) ==
    LET f == File(p, fd) IN f.type = "FD_PIPE" /\ pipes[f.pipe].data = <<>> /\ pipes[f.pipe].writeopen

Readable(p, fd) ==
    LET f == File(p, fd) IN
    CASE f.type = "FD_PIPE" -> pipes[f.pipe].data
      [] f.type = "FD_INODE" -> SubSeq(files[f.name], f.off + 1, Len(files[f.name]))
      [] f.type = "FD_DEVICE" -> <<>>

ReadValue(p, fd) ==
    IF ReadFails(p, fd) THEN -1 ELSE IF Readable(p, fd) = <<>> THEN 0 ELSE Head(Readable(p, fd))

read(p, fd) ==
    LET f == File(p, fd) IN
    /\ IF ReadValue(p, fd) <= 0 THEN UNCHANGED <<pipes, ftable>>
       ELSE /\ pipes' = IF f.type = "FD_PIPE" THEN [pipes EXCEPT ![f.pipe].data = Tail(@)] ELSE pipes
            /\ ftable' = IF f.type = "FD_INODE" THEN [ftable EXCEPT ![ofile[p][fd]].off = @ + 1] ELSE ftable
    /\ UNCHANGED <<ofile, files, console, closing, making, panic>>

WriteFails(p, fd) ==
    \/ ofile[p][fd] = 0 \/ ~File(p, fd).writable
    \/ File(p, fd).type = "FD_PIPE" /\ ~pipes[File(p, fd).pipe].readopen

WriteWaits(p, fd) ==
    LET f == File(p, fd) IN f.type = "FD_PIPE" /\ Len(pipes[f.pipe].data) = PIPESIZE

write(p, fd, v) ==
    LET f == File(p, fd) IN
    /\ pipes' = IF f.type = "FD_PIPE" THEN [pipes EXCEPT ![f.pipe].data = Append(@, v)] ELSE pipes
    /\ console' = IF f.type = "FD_DEVICE" THEN Append(console, v) ELSE console
    /\ files' = IF f.type # "FD_INODE" THEN files
                ELSE [files EXCEPT ![f.name] =
                        SubSeq(@, 1, f.off) \o <<v>> \o SubSeq(@, f.off + 2, Len(@))]
    /\ ftable' = IF f.type = "FD_INODE" THEN [ftable EXCEPT ![ofile[p][fd]].off = @ + 1] ELSE ftable
    /\ UNCHANGED <<ofile, closing, making, panic>>
-----------------------------------------------------------------------------
\* The struct files for one end of a pipe: in the table, or being closed.
Ends(k, w) ==
    LET IsEnd(f) == f.type = "FD_PIPE" /\ f.pipe = k /\ f.writable = w IN
    Cardinality({f \in Slot : ftable[f].ref > 0 /\ IsEnd(ftable[f])})
      + Cardinality({p \in Proc : IsEnd(closing[p])})

(* filedup(), fileclose(), fork(), exit(): a struct file's reference count *)
(* is the number of descriptors for it in all processes, with the ones     *)
(* that pipe() has taken and not yet installed or given back, so that it   *)
(* is closed exactly once, by whoever has it last; the end of a pipe is open *)
(* as long as one struct file has it, also while a slot freed by its close *)
(* is already given out again; and a pipe in use has its page.             *)
FileRefExact ==
    /\ ~panic
    /\ \A f \in Slot :
         ftable[f].ref = Cardinality({x \in Proc \X Fd : ofile[x[1]][x[2]] = f})
                           + Cardinality({p \in Proc : \E i \in DOMAIN making[p].taken : making[p].taken[i] = f})
    /\ \A k \in Pipe :
         /\ Ends(k, TRUE) = IF pipes[k].writeopen THEN 1 ELSE 0
         /\ Ends(k, FALSE) = IF pipes[k].readopen THEN 1 ELSE 0
         /\ pipes[k].live <=> (pipes[k].readopen \/ pipes[k].writeopen)
=============================================================================
