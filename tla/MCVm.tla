-------------------------------- MODULE MCVm --------------------------------
(***************************************************************************)
(* Module Vm on a machine of a few pages.  The images: a sound one of two  *)
(* segments (the second starts below the end of the first), one that asks  *)
(* for an empty segment, one that is cut short, in a segment or in the     *)
(* program headers, one that is not aligned, one that is too large for the *)
(* machine, one whose end wraps, and one whose arguments do not fit on the *)
(* stack.                                                                  *)
(***************************************************************************)
EXTENDS Vm

Seg(v, m, f, full) == [read |-> TRUE, load |-> TRUE, vaddr |-> v, memsz |-> m, filesz |-> f, full |-> full]
Note == [Seg(0, 0, 0, FALSE) EXCEPT !.load = FALSE]
Cut == [Note EXCEPT !.read = FALSE]
Img(segs) == [header |-> TRUE, segs |-> segs, fits |-> TRUE]

\* Less than a page, more than sz may hold, and what wraps.
MCSbrkArgs == {-5, 0, 3, 15}

MCImages ==
    { Img(<<Note, Seg(0, 3, 2, TRUE), Seg(2, 1, 1, TRUE)>>),
      Img(<<Seg(0, 0, 0, TRUE)>>),
      Img(<<Seg(0, 2, 2, TRUE), Seg(2, 3, 3, FALSE)>>),
      Img(<<Seg(0, 2, 2, TRUE), Cut>>),
      Img(<<Seg(ULONG - 2, 4, 1, TRUE)>>),
      Img(<<Seg(1, 2, 1, TRUE)>>),
      Img(<<Seg(0, 1, 2, TRUE)>>),
      Img(<<Seg(0, 30, 1, TRUE)>>),
      [header |-> TRUE, segs |-> <<Seg(0, 2, 2, TRUE)>>, fits |-> FALSE],
      [header |-> FALSE, segs |-> <<>>, fits |-> TRUE] }
=============================================================================
