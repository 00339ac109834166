----------------------------- MODULE TrackData -----------------------------
(***************************************************************************)
(* The tracks of one cdrecord run as both of its processes see them: the   *)
(* sizes set up before the fork, and what fill_buf() gets out of the input.*)
(*                                                                         *)
(* A track is a record                                                     *)
(*   fd    the descriptor of its file (STDIN for "-"; tracks taken from    *)
(*         one file share it, see xio.c)                                   *)
(*   size  trackp->tracksize, -1 when it is not known beforehand           *)
(*   avail the number of bytes its file really delivers                    *)
(*   err   TRUE when the read after those bytes fails, FALSE for an EOF    *)
(*   sec   trackp->secsize                                                 *)
(*   bpt   trackp->secsize * trackp->secspt, the transfer size             *)
(***************************************************************************)
EXTENDS Integers, Sequences, SequencesExt

STDIN == 0

Track == {tr \in [fd : Nat, size : Nat \cup {-1}, avail : Nat, err : BOOLEAN,
                  sec : Nat \ {0}, bpt : Nat \ {0}] : tr.bpt % tr.sec = 0}

\* Bytes asked for by one transfer of `cap` bytes at offset `pos` of a track.
BytesToRead(tr, pos, cap) ==
    IF tr.size > 0 /\ tr.size - pos <= cap THEN tr.size - pos ELSE cap

\* The loop condition both processes use after `pos` bytes of a track.
MoreToRead(tr, pos) == tr.size < 0 \/ pos < tr.size

\* read_buf() returns less than `want` only at the end of the input, and an
\* error throws away what was read before it.
FillBuf(tr, pos, want) ==
    LET rest == tr.avail - pos IN
    IF want <= rest THEN want ELSE IF tr.err THEN -1 ELSE rest

\* Of a transfer of `count` bytes that ends at offset `end`, the bytes that
\* belong to the track: what goes beyond a known size is cut off.
Clip(tr, count, end) ==
    IF tr.size >= 0 /\ end >= tr.size THEN count - (end - tr.size) ELSE count

\* Mutant: the last sector is not filled up.
RoundUpNot(tr, count) == count

\* A transfer is written in whole sectors.
RoundUp(tr, count) == ((count + tr.sec - 1) \div tr.sec) * tr.sec

\* n bytes of track number t from offset `off` on, each named by its place.
Chunk(t, off, n) == [k \in 1 .. n |-> <<t, off + k - 1>>]

\* The bytes the tracks of a run put on the medium, in order (reference).
Image(trackp) ==
    FlattenSeq([t \in DOMAIN trackp |->
        LET tr == trackp[t] IN
        Chunk(t, 0, IF tr.size >= 0 /\ tr.size <= tr.avail THEN tr.size
                                                           ELSE tr.avail)])
=============================================================================
