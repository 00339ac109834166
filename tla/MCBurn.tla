------------------------------- MODULE MCBurn -------------------------------
(***************************************************************************)
(* Small sessions.  A tick is about a minute, so the FIFO's 240 seconds    *)
(* are four.                                                               *)
(***************************************************************************)
EXTENDS Burn

File(n, size, avail) ==
    [fd |-> n, size |-> size, avail |-> avail, err |-> FALSE, sec |-> 1,
     bpt |-> 1]

OneTrack == { << File(3, 4, 4) >> }
Sessions == { << File(3, 4, 4) >>,
              << File(3, 3, 3), File(4, 2, 2) >>,
              << File(3, 1, 1), File(4, 3, 3) >>,
              << File(STDIN, -1, 2) >>,
              << File(STDIN, -1, 0) >> }

\* A drive whose commands in S each take up to a tick.
Ticks(S) == [c \in Commands |-> IF c \in S THEN 1 ELSE 0]

\* Commands that together stay below MaxWait while the FIFO is full: the time is
\* spent before the first segment, between two tracks, or by exscsi().
Brisk == { Ticks({"speed", "grace", "write"}),
           Ticks({"open", "write"}),
           Ticks({"flush"}) }

\* A blank may take 160 minutes, a close 8, a write or a flush 2 to 3.
Slow == [c \in Commands |->
            CASE c = "blank" -> 6
              [] c \in {"write", "close", "flush"} -> 1
              [] OTHER -> 0]

BriskOnly == {[limit |-> l, blank |-> FALSE, force |-> FALSE] : l \in Brisk}
SlowDrive(f) == [limit |-> Slow, blank |-> TRUE, force |-> f]
SlowOnly == {SlowDrive(FALSE)}
BothDrives == BriskOnly \cup {SlowDrive(TRUE)}
=============================================================================
