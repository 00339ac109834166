------------------------------ MODULE MCWriter ------------------------------
(***************************************************************************)
(* Small tracks: sectors of two bytes, two sectors per transfer, and a     *)
(* least length of five sectors.                                           *)
(***************************************************************************)
EXTENDS TrackWriter

Data(size, avail, pad, short) ==
    [fd |-> 3, size |-> size, avail |-> avail, err |-> FALSE, sec |-> 2,
     bpt |-> 4, pad |-> pad, short |-> short, tao |-> pad # 0, mode |-> "track",
     teac |-> FALSE, faults |-> DriveFaults \ {"short"}]

On(t, teac) == [t EXCEPT !.teac = teac]
Packets(t, mode) == [t EXCEPT !.mode = mode]
Bad(t) == [t EXCEPT !.err = TRUE]
Drive(t, faults) == [t EXCEPT !.faults = faults]

\* Files of the announced length: nothing, half a sector, a transfer, just
\* below, at and above the least length; files that are shorter than announced;
\* input of unknown length, also on the edge of a transfer and of a track.
Sizes == {<<n, n>> : n \in {0, 1, 4, 9, 10, 11, 13}}
             \cup {<<12, 3>>, <<12, 8>>, <<12, 10>>, <<9, 12>>, <<0, 3>>, <<0, 12>>}
             \cup {<<-1, n>> : n \in {0, 3, 8, 9, 10, 12, 13}}

Plain == {On(Data(s[1], s[2], pad, short), teac) :
             s \in Sizes, pad \in {0, 1, 3}, short \in BOOLEAN, teac \in BOOLEAN}
Fixed == {Packets(Data(s[1], s[2], pad, FALSE), "fixed") :
             s \in Sizes, pad \in {0, 1, 6}}
Variable == {Drive(Packets(Data(s[1], s[2], pad, FALSE), "variable"), faults) :
                s \in {<<1, 1>>, <<11, 11>>, <<12, 8>>, <<-1, 8>>}, pad \in {0, 6},
                faults \in {DriveFaults \ {"short"}, {"error"}}}

\* Drives that may take each write only in part.
Partly ==
    {Drive(Data(s[1], s[2], pad, short), {"short", "error"}) :
         s \in Sizes \ {<<0, 12>>, <<-1, 13>>}, pad \in {0, 3}, short \in BOOLEAN}
    \cup {Drive(Packets(Data(s[1], s[2], 1, FALSE), mode), {"short", "error"}) :
             s \in {<<11, 11>>, <<12, 8>>, <<-1, 8>>}, mode \in {"fixed", "variable"}}

SmallTracks == Plain \cup Fixed \cup Variable \cup Partly
                   \cup {Bad(t) : t \in {Data(12, 7, 0, FALSE), Data(-1, 3, 1, TRUE)}}
=============================================================================
