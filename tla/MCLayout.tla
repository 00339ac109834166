------------------------------ MODULE MCLayout ------------------------------
EXTENDS Layout

\* Files by inode number: empty, one block, three, in two sections, a fork.
SizeOf == <<0, 1, 3, 5, 2>>

Name(n, w, k) ==
    [ino |-> n, size |-> SizeOf[n], weight |-> w, pad |-> n % 2, prev |-> 0, kind |-> k]

\* A file of the session before, which used blocks 4 to 6.
Old == [ino |-> 9, size |-> 2, weight |-> 0, pad |-> 0, prev |-> 5, kind |-> "iso"]

Job(fs, weights, mac, dvd, cache, retry) ==
    [files |-> fs, sort |-> weights, hfs |-> mac, dvd |-> dvd, cache |-> cache,
     endpad |-> ~dvd, session |-> IF Old \in ToSet(fs) THEN 8 ELSE 0, retry |-> retry]

Names(S) == UNION {[1..n -> S] : n \in 1..3}

\* -dvd-video or not, -cache-inodes or not.
Options == {<<TRUE, TRUE>>, <<FALSE, TRUE>>, <<FALSE, FALSE>>}

PlainJobs == {Job(fs, FALSE, FALSE, o[1], o[2], 0) :
                fs \in Names({Name(n, 0, "iso") : n \in 1..4} \cup {Old}), o \in Options}

\* When files are sorted, one in sections has neither a second name nor the
\* last place in its directory.
Simple(fs) ==
    \A f \in DOMAIN fs : fs[f].size > Large + 1 =>
        f < Len(fs) /\ \A g \in DOMAIN fs \ {f} : fs[g].ino # fs[f].ino

SortJobs == {Job(fs, TRUE, FALSE, o[1], o[2], 0) :
               fs \in {x \in Names({Name(n, w, "iso") : n \in 1..4, w \in {0, 1, 2}} \cup {Old}) : Simple(x)},
               o \in Options}

\* On a Macintosh volume a file it shows has one name only.
OneName(fs) ==
    \A f, g \in DOMAIN fs : f # g /\ fs[f].kind = "mac" => fs[f].ino # fs[g].ino

MacFiles == {Name(n, n % 2, k) : n \in 1..3, k \in {"iso", "mac"}} \cup {Name(5, 0, "fork"), Old}

Total(fs) == FoldFunctionOnSet(+, 0, SizeOf, {fs[f].ino : f \in DOMAIN fs} \cap 1..5)

\* Sorting leaves dw_tail behind and a second attempt fills a small volume up
\* again: both only where nothing has to be filled up.
MacJobs == {Job(fs, o[1], TRUE, FALSE, TRUE, o[2]) :
              fs \in {x \in Names(MacFiles) : OneName(x)},
              o \in {<<FALSE, 0>>, <<FALSE, 1>>, <<TRUE, 0>>}}

MCJobs == PlainJobs \cup SortJobs
            \cup {j \in MacJobs : \/ Ahead + Total(j.files) >= MinVol
                                  \/ ~j.sort /\ j.retry = 0}

\* A hard link to a file that the Macintosh volume shows as well.
LinkJobs == {Job(<<Name(2, 0, "mac"), Name(5, 0, "mac"), Name(3, 0, "mac"), Name(3, 0, "mac")>>,
                 FALSE, TRUE, FALSE, TRUE, 0)}

\* The file in sections is the last one of its directory.
SectionJobs == {Job(<<Name(2, 0, "iso"), Name(4, 2, "iso")>>, TRUE, FALSE, FALSE, TRUE, 0)}
=============================================================================
