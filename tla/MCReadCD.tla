------------------------------ MODULE MCReadCD ------------------------------
(***************************************************************************)
(* Small media: up to five sectors, two or three of them in a transfer.    *)
(***************************************************************************)
EXTENDS ReadCD

Plain(disc, start, end, chunk) ==
    [raw |-> FALSE, start |-> start, end |-> end, disc |-> disc, chunk |-> chunk,
     bsize |-> 2048, known |-> TRUE, noerror |-> FALSE, retries |-> 3, edc |-> FALSE,
     faults |-> {}]

Forgiving(j) == [j EXCEPT !.noerror = TRUE]
Tries(j, n) == [j EXCEPT !.retries = n]
Raw(j, size) == [j EXCEPT !.raw = TRUE, !.bsize = size]
Untold(j) == [j EXCEPT !.known = FALSE]
May(j, faults) == [j EXCEPT !.faults = faults]

Fine == <<"good", "good", "good", "good">>
Worn == <<"good", "dead", "weak", "good", "weak">>
Gone == <<"dead", "dead", "dead">>

\* Ranges within the medium, up to its end, beyond it, and empty ones.
Ranges == {<<0, -1>>, <<1, 3>>, <<0, 9>>, <<2, 2>>, <<7, -1>>}

\* Among them a blank medium, a drive that does not tell how large the medium is,
\* and a sector size that is too large for read_retry().
SmallJobs ==
    {Plain(Fine, r[1], r[2], chunk) : r \in Ranges, chunk \in {2, 3}}
    \cup {Tries(j, n) : n \in {0, 1, 3},
            j \in {Plain(Worn, 0, -1, 2), Forgiving(Plain(Worn, 0, -1, 2)),
                   Forgiving(Plain(Worn, 1, 4, 3)), Forgiving(Plain(Gone, 0, -1, 2))}}
    \cup {May(j, JobFaults) :
            j \in {Plain(Fine, 0, -1, 2), Forgiving(Plain(Worn, 0, -1, 2)),
                   Raw(Forgiving(Plain(Worn, 0, 3, 2)), 512)}}
    \cup {May(Raw(Forgiving(Plain(Worn, 0, -1, 2)), b), {"open", "write", "resid"}) :
            b \in {512, 2048}}
    \cup {Untold(Raw(Forgiving(Plain(Worn, r[1], r[2], 2)), 512)) :
            r \in {<<0, -1>>, <<1, 4>>, <<3, 6>>}}
    \cup {Forgiving(Plain(<<>>, 0, 2, 2))}
    \cup {[Forgiving(Plain(Worn, 0, -1, 2)) EXCEPT !.bsize = 16384]}
    \cup {[Raw(Plain(Worn, 0, -1, 2), 2048) EXCEPT !.edc = TRUE, !.faults = {"resid"}]}

Residuals == {May(Plain(Fine, 0, -1, 2), {"resid"})}
=============================================================================
