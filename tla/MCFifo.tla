------------------------------- MODULE MCFifo -------------------------------
(***************************************************************************)
(* Small instances of Fifo: three or four slots, one to three short tracks.*)
(***************************************************************************)
EXTENDS Fifo

File(n, size, avail, bpt) ==
    [fd |-> n, size |-> size, avail |-> avail, err |-> FALSE, sec |-> 1,
     bpt |-> bpt]
Pipe(avail, bpt) == File(STDIN, -1, avail, bpt)
Bad(tr) == [tr EXCEPT !.err = TRUE]
Sectors(tr, sec) == [tr EXCEPT !.sec = sec]

\* Fewer segments than slots, as many, and more (the FIFO wraps); sizes that
\* are and are not a multiple of the transfer size, unknown sizes, files
\* shorter and longer than their size, empty ones, two tracks of one file.
SmallJobs == {
    << File(3, 2, 2, 2) >>,
    << File(3, 6, 6, 2) >>,
    << File(3, 9, 9, 2) >>,
    << File(3, 6, 3, 2) >>,
    << File(3, 2, 7, 2) >>,
    << File(3, 0, 0, 2) >>,
    << Pipe(0, 2) >>,
    << Pipe(0, 2), File(3, 2, 2, 2) >>,
    << Pipe(4, 2) >>,
    << Pipe(7, 2) >>,
    << Bad(File(3, 8, 5, 2)) >>,
    << Sectors(File(3, 11, 11, 4), 2) >>,
    << Sectors(Pipe(5, 4), 2), File(3, 2, 2, 1) >>,
    << File(3, 3, 3, 2), File(4, 0, 0, 1), File(5, 4, 4, 3) >>,
    << File(3, 4, 4, 2), File(3, 4, 4, 2) >>,
    << File(3, 2, 2, 2), Pipe(0, 2) >>,
    << File(3, 4, 1, 2), Pipe(3, 1) >> }
=============================================================================
